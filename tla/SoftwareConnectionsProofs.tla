---------------------- MODULE SoftwareConnectionsProofs ----------------------
(* Proofs about what is made of software only: the instructions (their      *)
(* layouts overlap nowhere, so that what is encoded is decoded as it was),  *)
(* LoopbackConnection, MultiConnection, and the encoder and the decoder of  *)
(* UT messages.  Before them, lemmas about flattened sequences, by          *)
(* induction over their number of parts.                                    *)
EXTENDS MultiConnection, LoopbackConnection, Codec, SequenceTheorems, FiniteSetTheorems, WellFoundedInduction, TLAPS

(* Induction over the natural numbers, for a set in the place of a          *)
(* predicate.                                                               *)
LEMMA Induction ==
  ASSUME NEW T, 0 \in T, \A n \in Nat : n \in T => n + 1 \in T
  PROVE  \A n \in Nat : n \in T
  <1> SUFFICES ASSUME Nat \ T # {} PROVE FALSE
    OBVIOUS
  <1>1. PICK n \in Nat \ T : \A m \in Nat \ T : <<m, n>> \notin OpToRel(<, Nat)
    BY NatLessThanWellFounded, WFMin
  <1>2. n - 1 \in Nat /\ n - 1 < n /\ (n - 1) + 1 = n
    <2>1. n \in Nat /\ n # 0
      BY <1>1
    <2> QED BY <2>1
  <1>3. <<n - 1, n>> \in OpToRel(<, Nat)
    BY <1>1, <1>2 DEF OpToRel
  <1>4. n - 1 \in T
    BY <1>1, <1>2, <1>3
  <1> QED BY <1>1, <1>2, <1>4

(* FlattenSeq is the last of the concatenations of the first parts.         *)
LEMMA Flatten ==
  ASSUME NEW S, NEW parts \in Seq(Seq(S))
  PROVE  \E joined \in [0 .. Len(parts) -> Seq(S)] :
           /\ joined[0] = <<>>
           /\ \A k \in 1 .. Len(parts) : joined[k] = joined[k - 1] \o parts[k]
           /\ FlattenSeq(parts) = joined[Len(parts)]
  <1> DEFINE n == Len(parts)
             Joins(m, f) == f = [i \in 1 .. m |-> IF i = 1 THEN parts[i] ELSE f[i - 1] \o parts[i]]
             T == {m \in Nat : m <= n => \E f : Joins(m, f) /\ \A i \in 1 .. m : f[i] \in Seq(S)}
  <1>1. n \in Nat /\ \A i \in 1 .. n : parts[i] \in Seq(S)
    BY LenProperties, ElementOfSeq
  <1> HIDE DEF n
  <1>2. 0 \in T
    <2> DEFINE f == [i \in 1 .. 0 |-> <<>>]
    <2>1. Joins(0, f) /\ \A i \in 1 .. 0 : f[i] \in Seq(S)
      OBVIOUS
    <2> QED BY <2>1
  <1>3. \A m \in Nat : m \in T => m + 1 \in T
    <2> HIDE DEF Joins
    <2> SUFFICES ASSUME NEW m \in Nat, m \in T, m + 1 <= n
                 PROVE  \E f : Joins(m + 1, f) /\ \A i \in 1 .. m + 1 : f[i] \in Seq(S)
      OBVIOUS
    <2>1. m <= n
      BY <1>1
    <2>2. PICK f : Joins(m, f) /\ \A i \in 1 .. m : f[i] \in Seq(S)
      BY <2>1
    <2> DEFINE next == IF m = 0 THEN parts[1] ELSE f[m] \o parts[m + 1]
               g == [i \in 1 .. m + 1 |-> IF i <= m THEN f[i] ELSE next]
    <2>3. m + 1 \in 1 .. n /\ parts[m + 1] \in Seq(S)
      BY <1>1
    <2>4. next \in Seq(S)
      BY <2>2, <2>3, ConcatProperties
    <2>5. \A i \in 1 .. m + 1 : g[i] \in Seq(S)
      BY <2>2, <2>4
    <2>6. \A i \in 1 .. m + 1 : g[i] = IF i = 1 THEN parts[i] ELSE g[i - 1] \o parts[i]
      <3> SUFFICES ASSUME NEW i \in 1 .. m + 1
                   PROVE  g[i] = IF i = 1 THEN parts[i] ELSE g[i - 1] \o parts[i]
        OBVIOUS
      <3>1. CASE i <= m
        <4>1. \A j \in 1 .. m : f[j] = IF j = 1 THEN parts[j] ELSE f[j - 1] \o parts[j]
          BY <2>2 DEF Joins
        <4>2. g[i] = f[i] /\ (i # 1 => i - 1 \in 1 .. m + 1 /\ g[i - 1] = f[i - 1])
          BY <3>1
        <4>3. i \in 1 .. m
          BY <3>1
        <4> QED BY <4>1, <4>2, <4>3
      <3>2. CASE i = m + 1
        <4>1. g[i] = next /\ (i # 1 => i - 1 = m /\ m # 0 /\ g[m] = f[m])
          BY <3>2
        <4> QED BY <3>2, <4>1
      <3> QED BY <3>1, <3>2
    <2>7. Joins(m + 1, g)
      BY <2>6 DEF Joins
    <2> QED BY <2>5, <2>7
  <1> HIDE DEF Joins
  <1>4. n \in T
    BY <1>1, <1>2, <1>3, Induction
  <1> DEFINE flatten == CHOOSE f : Joins(n, f)
  <1>5. PICK f : Joins(n, f) /\ \A i \in 1 .. n : f[i] \in Seq(S)
    BY <1>1, <1>4
  <1>6. Joins(n, flatten)
    BY <1>5
  <1>7. FlattenSeq(parts) = IF n = 0 THEN parts ELSE flatten[n]
    BY DEF FlattenSeq, n, Joins
  <1> DEFINE joined == [i \in 0 .. n |-> IF i = 0 THEN <<>> ELSE flatten[i]]
  <1>8. \A i \in 1 .. n : flatten[i] = IF i = 1 THEN parts[i] ELSE flatten[i - 1] \o parts[i]
    BY <1>6 DEF Joins
  <1>9. \A i \in 1 .. n : flatten[i] \in Seq(S)
    <2> DEFINE U == {i \in Nat : i \in 1 .. n => flatten[i] \in Seq(S)}
    <2> HIDE DEF flatten
    <2>1. 0 \in U
      OBVIOUS
    <2>2. ASSUME NEW i \in Nat, i \in U, i + 1 \in 1 .. n
          PROVE  flatten[i + 1] \in Seq(S)
      <3>1. flatten[i + 1] = IF i = 0 THEN parts[i + 1] ELSE flatten[i] \o parts[i + 1]
        BY <1>8, <2>2
      <3>2. parts[i + 1] \in Seq(S) /\ (i # 0 => i \in 1 .. n)
        BY <1>1, <2>2
      <3>3. i # 0 => flatten[i] \in Seq(S)
        BY <2>2, <3>2
      <3> QED BY <3>1, <3>2, <3>3, ConcatProperties
    <2>3. \A i \in Nat : i \in U => i + 1 \in U
      BY <2>2
    <2> HIDE DEF U
    <2>4. \A i \in Nat : i \in U
      BY <2>1, <2>3, Induction
    <2> QED BY <1>1, <2>4 DEF U
  <1> HIDE DEF flatten
  <1>10. joined \in [0 .. n -> Seq(S)] /\ joined[0] = <<>>
    BY <1>1, <1>9, EmptySeq
  <1>11. \A k \in 1 .. n : joined[k] = joined[k - 1] \o parts[k]
    <2> SUFFICES ASSUME NEW k \in 1 .. n PROVE joined[k] = joined[k - 1] \o parts[k]
      OBVIOUS
    <2>1. joined[k] = flatten[k] /\ joined[k - 1] = IF k = 1 THEN <<>> ELSE flatten[k - 1]
      BY <1>1
    <2>2. parts[k] \in Seq(S) /\ <<>> \o parts[k] = parts[k]
      BY <1>1, ConcatEmptySeq
    <2>3. flatten[k] = IF k = 1 THEN parts[k] ELSE flatten[k - 1] \o parts[k]
      BY <1>8
    <2> HIDE DEF joined
    <2>4. CASE k = 1
      BY <2>1, <2>2, <2>3, <2>4
    <2>5. CASE k # 1
      BY <2>1, <2>3, <2>5
    <2> QED BY <2>4, <2>5
  <1>12. FlattenSeq(parts) = joined[n]
    <2>1. n = 0 => parts = <<>>
      BY EmptySeq DEF n
    <2> QED BY <1>1, <1>7, <2>1
  <1> HIDE DEF joined
  <1> QED BY <1>10, <1>11, <1>12 DEF n

(* What is flattened consists of what the parts consist of.                 *)
LEMMA FlattenType ==
  ASSUME NEW S, NEW parts \in Seq(Seq(S))
  PROVE  FlattenSeq(parts) \in Seq(S)
  <1>1. Len(parts) \in 0 .. Len(parts)
    BY LenProperties
  <1>2. PICK f \in [0 .. Len(parts) -> Seq(S)] : FlattenSeq(parts) = f[Len(parts)]
    BY Flatten
  <1> QED BY <1>1, <1>2

(* Flattening with one part more.                                           *)
LEMMA FlattenAppend ==
  ASSUME NEW S, NEW parts \in Seq(Seq(S)), NEW part \in Seq(S)
  PROVE  FlattenSeq(Append(parts, part)) = FlattenSeq(parts) \o part
  <1> DEFINE n == Len(parts)
             more == Append(parts, part)
  <1>1. /\ n \in Nat /\ more \in Seq(Seq(S)) /\ Len(more) = n + 1
        /\ more[n + 1] = part /\ \A i \in 1 .. n : more[i] = parts[i]
    BY LenProperties, AppendProperties
  <1>2. PICK f \in [0 .. n -> Seq(S)] :
          /\ f[0] = <<>> /\ \A k \in 1 .. n : f[k] = f[k - 1] \o parts[k]
          /\ FlattenSeq(parts) = f[n]
    BY Flatten
  <1>3. PICK g \in [0 .. Len(more) -> Seq(S)] :
          /\ g[0] = <<>> /\ \A k \in 1 .. Len(more) : g[k] = g[k - 1] \o more[k]
          /\ FlattenSeq(more) = g[Len(more)]
    BY <1>1, Flatten
  <1> HIDE DEF n, more
  <1>4. n \in Nat /\ Len(more) = n + 1
    BY <1>1
  <1> DEFINE T == {k \in Nat : k <= n => f[k] = g[k]}
  <1>5. \A k \in Nat : k \in T => k + 1 \in T
    <2> SUFFICES ASSUME NEW k \in Nat, k \in T, k + 1 <= n PROVE f[k + 1] = g[k + 1]
      OBVIOUS
    <2>1. k + 1 \in 1 .. n /\ k + 1 \in 1 .. n + 1 /\ (k + 1) - 1 = k /\ k <= n
      BY <1>4
    <2>2. f[k] = g[k] /\ more[k + 1] = parts[k + 1]
      BY <1>1, <2>1
    <2>3. f[k + 1] = f[k] \o parts[k + 1] /\ g[k + 1] = g[k] \o more[k + 1]
      BY <1>4, <1>2, <1>3, <2>1
    <2> QED BY <2>2, <2>3
  <1>6. 0 \in T
    BY <1>2, <1>3
  <1>7. n \in T
    BY <1>1, <1>5, <1>6, Induction
  <1>8. f[n] = g[n]
    BY <1>1, <1>7
  <1>9. n + 1 \in 1 .. n + 1 /\ (n + 1) - 1 = n
    BY <1>4
  <1>10. g[n + 1] = g[n] \o part
    BY <1>4, <1>1, <1>3, <1>9
  <1> QED BY <1>1, <1>2, <1>3, <1>8, <1>10 DEF more

(* Where each element of a part is in what is flattened: behind the end of  *)
(* the parts before it.                                                     *)
Ends(parts, whole, e) ==
  /\ e \in [0 .. Len(parts) -> Nat]
  /\ e[0] = 0
  /\ \A k \in 1 .. Len(parts) : e[k] = e[k - 1] + Len(parts[k])
  /\ Len(whole) = e[Len(parts)]
  /\ \A k \in 1 .. Len(parts) : \A l \in 1 .. Len(parts[k]) :
       e[k - 1] + l \in 1 .. Len(whole) /\ whole[e[k - 1] + l] = parts[k][l]
  /\ \A j \in 1 .. Len(whole) :
       \E k \in 1 .. Len(parts) : \E l \in 1 .. Len(parts[k]) : j = e[k - 1] + l

LEMMA FlattenPlaces ==
  ASSUME NEW S, NEW parts \in Seq(Seq(S))
  PROVE  \E e : Ends(parts, FlattenSeq(parts), e)
  <1> DEFINE n == Len(parts)
             size == [k \in 1 .. n |-> Len(parts[k])]
  <1>1. n \in Nat /\ \A k \in 1 .. n : parts[k] \in Seq(S)
    BY LenProperties, ElementOfSeq
  <1>2. PICK f \in [0 .. n -> Seq(S)] :
          /\ f[0] = <<>> /\ \A k \in 1 .. n : f[k] = f[k - 1] \o parts[k]
          /\ FlattenSeq(parts) = f[n]
    BY Flatten
  <1> HIDE DEF n
  <1> DEFINE ends == [k \in 0 .. n |-> Len(f[k])]
  <1>3. /\ size \in [1 .. n -> Nat] /\ \A k \in 1 .. n : size[k] = Len(parts[k])
        /\ ends \in [0 .. n -> Nat] /\ \A k \in 0 .. n : ends[k] = Len(f[k])
    BY <1>1, LenProperties
  <1> HIDE DEF size, ends
  <1>4. ASSUME NEW k \in 1 .. n
        PROVE  /\ k - 1 \in 0 .. n /\ k \in 0 .. n
               /\ ends[k] = ends[k - 1] + size[k]
               /\ \A j \in 1 .. ends[k] :
                    f[k][j] = IF j <= ends[k - 1] THEN f[k - 1][j] ELSE parts[k][j - ends[k - 1]]
    <2>1. k - 1 \in 0 .. n /\ k \in 0 .. n
      BY <1>1
    <2> DEFINE s == f[k - 1] u == parts[k]
    <2>2. s \in Seq(S) /\ u \in Seq(S) /\ f[k] = s \o u
      BY <1>1, <1>2, <2>1
    <2> HIDE DEF s, u
    <2>3. /\ Len(s \o u) = Len(s) + Len(u)
          /\ \A j \in 1 .. Len(s) + Len(u) : (s \o u)[j] = IF j <= Len(s) THEN s[j] ELSE u[j - Len(s)]
      BY <2>2, ConcatProperties
    <2>4. ends[k] = Len(s \o u) /\ ends[k - 1] = Len(s) /\ size[k] = Len(u)
      BY <1>3, <2>1, <2>2 DEF s, u
    <2>5. ends[k] = ends[k - 1] + size[k]
      BY <2>3, <2>4
    <2>6. \A j \in 1 .. ends[k] : f[k][j] = IF j <= ends[k - 1] THEN s[j] ELSE u[j - ends[k - 1]]
      BY <2>2, <2>3, <2>4
    <2> QED BY <2>1, <2>5, <2>6 DEF s, u
  <1> DEFINE Placed(m) ==
               /\ \A k \in 1 .. m : \A l \in 1 .. size[k] :
                    ends[k - 1] + l \in 1 .. ends[m] /\ f[m][ends[k - 1] + l] = parts[k][l]
               /\ \A j \in 1 .. ends[m] : \E k \in 1 .. m : \E l \in 1 .. size[k] : j = ends[k - 1] + l
             T == {m \in Nat : m <= n => Placed(m)}
  <1>5. ends[0] = 0
    BY <1>1, <1>2, <1>3, EmptySeq
  <1>6. 0 \in T
    BY <1>5
  <1>7. ASSUME NEW m \in Nat, m + 1 <= n, Placed(m)
        PROVE  Placed(m + 1)
    <2>1. m + 1 \in 1 .. n /\ (m + 1) - 1 = m /\ m \in 0 .. n
      BY <1>1, <1>7
    <2> DEFINE a == ends[m] b == size[m + 1] c == ends[m + 1]
    <2>2. a \in Nat /\ b \in Nat /\ c = a + b
      BY <1>3, <1>4, <2>1
    <2>3. \A j \in 1 .. c : f[m + 1][j] = IF j <= a THEN f[m][j] ELSE parts[m + 1][j - a]
      BY <1>4, <2>1
    <2>4. /\ \A k \in 1 .. m : \A l \in 1 .. size[k] :
                ends[k - 1] + l \in 1 .. a /\ f[m][ends[k - 1] + l] = parts[k][l]
          /\ \A j \in 1 .. a : \E k \in 1 .. m : \E l \in 1 .. size[k] : j = ends[k - 1] + l
      BY <1>7
    <2> HIDE DEF a, b, c
    <2>5. ASSUME NEW k \in 1 .. m + 1, NEW l \in 1 .. size[k]
          PROVE  ends[k - 1] + l \in 1 .. c /\ f[m + 1][ends[k - 1] + l] = parts[k][l]
      <3>1. CASE k \in 1 .. m
        <4>1. ends[k - 1] + l \in 1 .. a /\ f[m][ends[k - 1] + l] = parts[k][l]
          BY <2>4, <3>1
        <4>2. \A j \in 1 .. a : j \in 1 .. c /\ j <= a
          BY <2>2
        <4> QED BY <2>3, <4>1, <4>2
      <3>2. CASE k = m + 1
        <4>1. ends[k - 1] = a /\ l \in 1 .. b
          BY <2>1, <3>2 DEF a, b
        <4>2. a + l \in 1 .. c /\ ~(a + l <= a) /\ (a + l) - a = l
          BY <2>2, <4>1
        <4>3. f[m + 1][a + l] = parts[m + 1][l]
          BY <2>3, <4>2
        <4> QED BY <3>2, <4>1, <4>2, <4>3
      <3> QED BY <3>1, <3>2
    <2>6. ASSUME NEW j \in 1 .. c
          PROVE  \E k \in 1 .. m + 1 : \E l \in 1 .. size[k] : j = ends[k - 1] + l
      <3>1. CASE j <= a
        <4>1. j \in 1 .. a
          BY <2>2, <3>1
        <4>2. PICK k \in 1 .. m : \E l \in 1 .. size[k] : j = ends[k - 1] + l
          BY <2>4, <4>1
        <4> QED BY <4>2
      <3>2. CASE ~(j <= a)
        <4>1. j - a \in 1 .. b /\ j = a + (j - a)
          BY <2>2, <3>2
        <4>2. ends[(m + 1) - 1] = a /\ m + 1 \in 1 .. m + 1
          BY <2>1 DEF a
        <4> QED BY <4>1, <4>2 DEF b
      <3> QED BY <3>1, <3>2
    <2> QED BY <2>5, <2>6 DEF c
  <1>8. \A m \in Nat : m \in T => m + 1 \in T
    <2> HIDE DEF Placed
    <2> SUFFICES ASSUME NEW m \in Nat, m \in T, m + 1 <= n PROVE Placed(m + 1)
      OBVIOUS
    <2>1. m <= n
      BY <1>1
    <2> QED BY <1>7, <2>1
  <1> HIDE DEF Placed, T
  <1>9. n \in T
    BY <1>1, <1>6, <1>8, Induction
  <1>10. Placed(n)
    BY <1>1, <1>9 DEF T
  <1>11. n \in 0 .. n
    BY <1>1
  <1>12. \A k \in 1 .. n : ends[k] = ends[k - 1] + Len(parts[k])
    BY <1>3, <1>4
  <1>13. /\ Len(FlattenSeq(parts)) = ends[n]
         /\ \A k \in 1 .. n : \A l \in 1 .. Len(parts[k]) :
              ends[k - 1] + l \in 1 .. ends[n] /\ FlattenSeq(parts)[ends[k - 1] + l] = parts[k][l]
         /\ \A j \in 1 .. ends[n] : \E k \in 1 .. n : \E l \in 1 .. Len(parts[k]) : j = ends[k - 1] + l
    <2>1. Len(FlattenSeq(parts)) = ends[n]
      BY <1>2, <1>3, <1>11
    <2>2. /\ \A k \in 1 .. n : \A l \in 1 .. size[k] :
                ends[k - 1] + l \in 1 .. ends[n] /\ f[n][ends[k - 1] + l] = parts[k][l]
          /\ \A j \in 1 .. ends[n] : \E k \in 1 .. n : \E l \in 1 .. size[k] : j = ends[k - 1] + l
      BY <1>10 DEF Placed
    <2>3. \A k \in 1 .. n : size[k] = Len(parts[k])
      BY <1>3
    <2>4. \A k \in 1 .. n : \A l \in 1 .. Len(parts[k]) :
            ends[k - 1] + l \in 1 .. ends[n] /\ f[n][ends[k - 1] + l] = parts[k][l]
      <3> SUFFICES ASSUME NEW k \in 1 .. n, NEW l \in 1 .. Len(parts[k])
                   PROVE  ends[k - 1] + l \in 1 .. ends[n] /\ f[n][ends[k - 1] + l] = parts[k][l]
        OBVIOUS
      <3>1. l \in 1 .. size[k]
        BY <2>3
      <3> QED BY <2>2, <3>1
    <2>5. \A j \in 1 .. ends[n] : \E k \in 1 .. n : \E l \in 1 .. Len(parts[k]) : j = ends[k - 1] + l
      <3> SUFFICES ASSUME NEW j \in 1 .. ends[n]
                   PROVE  \E k \in 1 .. n : \E l \in 1 .. Len(parts[k]) : j = ends[k - 1] + l
        OBVIOUS
      <3>1. PICK k \in 1 .. n : \E l \in 1 .. size[k] : j = ends[k - 1] + l
        BY <2>2
      <3>2. size[k] = Len(parts[k])
        BY <2>3
      <3> QED BY <3>1, <3>2
    <2> DEFINE whole == f[n]
    <2>6. FlattenSeq(parts) = whole
      BY <1>2
    <2>7. \A k \in 1 .. n : \A l \in 1 .. Len(parts[k]) :
            ends[k - 1] + l \in 1 .. ends[n] /\ whole[ends[k - 1] + l] = parts[k][l]
      BY <2>4
    <2> HIDE DEF whole
    <2> QED BY <2>1, <2>5, <2>6, <2>7
  <1>14. n = Len(parts)
    BY DEF n
  <1>15. Ends(parts, FlattenSeq(parts), ends)
    BY <1>3, <1>5, <1>12, <1>13, <1>14 DEF Ends
  <1> QED BY <1>15

(* Parts of the same sizes whose elements correspond.                      *)
Mapped(parts, images, f) ==
  /\ Len(images) = Len(parts)
  /\ \A k \in 1 .. Len(parts) :
       /\ Len(images[k]) = Len(parts[k])
       /\ \A l \in 1 .. Len(parts[k]) : images[k][l] = f[parts[k][l]]

LEMMA FlattenMapped ==
  ASSUME NEW S, NEW parts \in Seq(Seq(S)), NEW R, NEW images \in Seq(Seq(R)), NEW f, Mapped(parts, images, f)
  PROVE  FlattenSeq(images) = [j \in 1 .. Len(FlattenSeq(parts)) |-> f[FlattenSeq(parts)[j]]]
  <1> DEFINE n == Len(parts)
             whole == FlattenSeq(parts)
             image == FlattenSeq(images)
  <1>1. n \in Nat
    BY LenProperties
  <1>2. PICK e : Ends(parts, whole, e)
    BY FlattenPlaces
  <1>3. PICK d : Ends(images, image, d)
    BY FlattenPlaces
  <1>4. /\ e \in [0 .. n -> Nat] /\ e[0] = 0 /\ \A k \in 1 .. n : e[k] = e[k - 1] + Len(parts[k])
        /\ Len(whole) = e[n]
        /\ \A k \in 1 .. n : \A l \in 1 .. Len(parts[k]) : whole[e[k - 1] + l] = parts[k][l]
        /\ \A j \in 1 .. Len(whole) : \E k \in 1 .. n : \E l \in 1 .. Len(parts[k]) : j = e[k - 1] + l
    BY <1>2 DEF Ends
  <1>5. /\ d \in [0 .. n -> Nat] /\ d[0] = 0 /\ \A k \in 1 .. n : d[k] = d[k - 1] + Len(images[k])
        /\ Len(image) = d[n]
        /\ \A k \in 1 .. n : \A l \in 1 .. Len(images[k]) : image[d[k - 1] + l] = images[k][l]
    BY <1>3 DEF Ends, Mapped
  <1>6. image \in Seq(R)
    BY FlattenType
  <1>7. /\ Len(images) = n
        /\ \A k \in 1 .. n : /\ Len(images[k]) = Len(parts[k])
                              /\ \A l \in 1 .. Len(parts[k]) : images[k][l] = f[parts[k][l]]
    BY DEF Mapped
  <1> HIDE DEF n, whole, image
  <1> DEFINE T == {k \in Nat : k <= n => e[k] = d[k]}
  <1>8. 0 \in T
    BY <1>4, <1>5
  <1>9. \A k \in Nat : k \in T => k + 1 \in T
    <2> SUFFICES ASSUME NEW k \in Nat, k \in T, k + 1 <= n PROVE e[k + 1] = d[k + 1]
      OBVIOUS
    <2>1. k + 1 \in 1 .. n /\ (k + 1) - 1 = k /\ k <= n
      BY <1>1
    <2>2. e[k] = d[k]
      BY <2>1
    <2> HIDE DEF T
    <2> QED BY <1>4, <1>5, <1>7, <2>1, <2>2
  <1> HIDE DEF T
  <1>10. \A k \in Nat : k \in T
    BY <1>8, <1>9, Induction
  <1>11. \A k \in 0 .. n : e[k] = d[k]
    BY <1>1, <1>10 DEF T
  <1>12. Len(image) = Len(whole) /\ n \in 0 .. n
    BY <1>1, <1>4, <1>5, <1>11
  <1>13. ASSUME NEW j \in 1 .. Len(whole)
         PROVE  image[j] = f[whole[j]]
    <2>1. PICK k \in 1 .. n : \E l \in 1 .. Len(parts[k]) : j = e[k - 1] + l
      BY <1>4
    <2>2. PICK l \in 1 .. Len(parts[k]) : j = e[k - 1] + l
      BY <2>1
    <2>3. k - 1 \in 0 .. n
      BY <1>1
    <2>4. d[k - 1] = e[k - 1] /\ l \in 1 .. Len(images[k])
      BY <1>7, <1>11, <2>3
    <2>5. image[d[k - 1] + l] = images[k][l] /\ whole[e[k - 1] + l] = parts[k][l]
      BY <1>4, <1>5, <2>4
    <2>6. images[k][l] = f[parts[k][l]]
      BY <1>7
    <2> QED BY <2>2, <2>4, <2>5, <2>6
  <1>14. image = [j \in 1 .. Len(image) |-> image[j]]
    BY <1>6, LenProperties
  <1>15. image = [j \in 1 .. Len(whole) |-> f[whole[j]]]
    BY <1>12, <1>13, <1>14
  <1> QED BY <1>15 DEF image, whole

(* Parts of two elements each.                                             *)
LEMMA FlattenPairs ==
  ASSUME NEW S, NEW parts \in Seq(Seq(S)),
         \A k \in 1 .. Len(parts) : Len(parts[k]) = 2
  PROVE  /\ Len(FlattenSeq(parts)) = 2 * Len(parts)
         /\ \A k \in 1 .. Len(parts) : /\ FlattenSeq(parts)[2 * k - 1] = parts[k][1]
                                       /\ FlattenSeq(parts)[2 * k] = parts[k][2]
  <1> DEFINE n == Len(parts)
             whole == FlattenSeq(parts)
  <1>1. n \in Nat
    BY LenProperties
  <1>2. PICK e : Ends(parts, whole, e)
    BY FlattenPlaces
  <1>3. /\ e \in [0 .. n -> Nat] /\ e[0] = 0 /\ \A k \in 1 .. n : e[k] = e[k - 1] + Len(parts[k])
        /\ Len(whole) = e[n]
        /\ \A k \in 1 .. n : \A l \in 1 .. Len(parts[k]) : whole[e[k - 1] + l] = parts[k][l]
    BY <1>2 DEF Ends
  <1>4. \A k \in 1 .. n : Len(parts[k]) = 2
    OBVIOUS
  <1> HIDE DEF n, whole
  <1>5. /\ \A k \in 1 .. n : e[k] = e[k - 1] + 2
        /\ \A k \in 1 .. n : \A l \in 1 .. 2 : whole[e[k - 1] + l] = parts[k][l]
    BY <1>3, <1>4
  <1> DEFINE T == {k \in Nat : k <= n => e[k] = 2 * k}
  <1>6. 0 \in T
    BY <1>3
  <1>7. \A k \in Nat : k \in T => k + 1 \in T
    <2> SUFFICES ASSUME NEW k \in Nat, k \in T, k + 1 <= n PROVE e[k + 1] = 2 * (k + 1)
      OBVIOUS
    <2>1. k + 1 \in 1 .. n /\ (k + 1) - 1 = k /\ k <= n
      BY <1>1
    <2>2. e[k] = 2 * k
      BY <2>1
    <2> QED BY <1>5, <2>1, <2>2
  <1> HIDE DEF T
  <1>8. \A k \in Nat : k \in T
    BY <1>6, <1>7, Induction
  <1>9. \A k \in 0 .. n : e[k] = 2 * k
    BY <1>1, <1>8 DEF T
  <1>10. Len(whole) = 2 * n
    BY <1>1, <1>3, <1>9
  <1>11. ASSUME NEW k \in 1 .. n
         PROVE  whole[2 * k - 1] = parts[k][1] /\ whole[2 * k] = parts[k][2]
    <2>1. k - 1 \in 0 .. n /\ 2 * (k - 1) + 1 = 2 * k - 1 /\ 2 * (k - 1) + 2 = 2 * k
      BY <1>1
    <2>2. e[k - 1] = 2 * (k - 1)
      BY <1>9, <2>1
    <2>3. whole[e[k - 1] + 1] = parts[k][1] /\ whole[e[k - 1] + 2] = parts[k][2]
      BY <1>5
    <2> QED BY <2>1, <2>2, <2>3
  <1> QED BY <1>10, <1>11 DEF n, whole

(* A set of positions in a sequence has a last one.                        *)
LEMMA LastPosition ==
  ASSUME NEW n \in Nat, NEW P \in SUBSET (1 .. n), P # {}
  PROVE  \E last \in P : \A k \in P : k <= last
  <1> DEFINE T == {m \in Nat : \A Q \in SUBSET (1 .. m) : Q # {} => \E last \in Q : \A k \in Q : k <= last}
  <1>1. 0 \in T
    <2>1. 1 .. 0 = {}
      OBVIOUS
    <2> QED BY <2>1
  <1>2. ASSUME NEW m \in Nat, m \in T, NEW Q \in SUBSET (1 .. m + 1), Q # {}
        PROVE  \E last \in Q : \A k \in Q : k <= last
    <2>1. CASE m + 1 \in Q
      <3>1. \A k \in Q : k <= m + 1
        OBVIOUS
      <3> QED BY <2>1, <3>1
    <2>2. CASE m + 1 \notin Q
      <3>1. Q \in SUBSET (1 .. m)
        BY <2>2
      <3> QED BY <1>2, <3>1
    <2> QED BY <2>1, <2>2
  <1>3. \A m \in Nat : m \in T => m + 1 \in T
    BY <1>2
  <1> HIDE DEF T
  <1>4. n \in T
    BY <1>1, <1>3, Induction
  <1> QED BY <1>4 DEF T

(* A layout fits its payload: each field has a place of its own in it, and  *)
(* decode takes the field from where encode has put it and no other's bits. *)
Fits(layout) ==
  /\ layout.size \in Nat /\ DOMAIN layout.decode = DOMAIN layout.encode
  /\ \A f \in DOMAIN layout.encode :
       LET to == layout.encode[f]
           from == layout.decode[f]
       IN /\ to[1] \in Nat /\ to[2] \in Nat /\ to[1] + to[2] <= layout.size
          /\ from[1] = to[1] /\ \A k \in 0 .. to[2] - 1 : k \in from[2]
          /\ \A k \in from[2] : k \in Nat /\ from[1] + k < layout.size
  /\ \A f, g \in DOMAIN layout.encode : f # g =>
       \A k \in layout.decode[f][2] :
         LET bit == layout.decode[f][1] + k
             to == layout.encode[g]
         IN bit < to[1] \/ to[1] + to[2] <= bit

LEMMA ValueFits == ASSUME NEW w \in Nat PROVE Fits(Value(w))
  BY DEF Fits, Value, Lowest
LEMMA EmptyFits == Fits(Empty)
  BY DEF Fits, Empty
LEMMA JTAGDataFits == Fits(JTAGData)
  BY DEF Fits, JTAGData, Lowest
LEMMA OmnibusAddressFits == Fits(OmnibusAddress)
  BY DEF Fits, OmnibusAddress, Lowest
LEMMA MADCSampleFits == Fits(MADCSample) /\ MADCSample.size = 24
  BY DEF Fits, MADCSample, Lowest
LEMMA SpikeFits == Fits(Spike) /\ Spike.size = 24
  BY DEF Fits, Spike, spike_size, Lowest
LEMMA SpikeToFPGAFits == Fits(SpikeToFPGA) /\ SpikeToFPGA.size = 16
  BY DEF Fits, SpikeToFPGA, spike_size, Lowest

LEMMA Products ==
  ASSUME NEW s \in {16, 24}, NEW n \in Nat
  PROVE  /\ n * s \in Nat
         /\ \A j \in 1 .. n : (n - j) * s \in Nat /\ (n - j) * s + s <= n * s
         /\ \A j, k \in 1 .. n : j < k => (n - k) * s + s <= (n - j) * s
  <1>1. CASE s = 16
    BY <1>1
  <1>2. CASE s = 24
    BY <1>2
  <1> QED BY <1>1, <1>2

LEMMA PackFits ==
  ASSUME NEW element, Fits(element), element.size \in {16, 24}, NEW n \in Nat
  PROVE  Fits(Pack(element, n))
  <1> DEFINE s == element.size
             fields == DOMAIN element.encode
             to(f) == element.encode[f]
             from(f) == element.decode[f]
             pack == Pack(element, n)
             packTo(f) == pack.encode[f]
             packFrom(f) == pack.decode[f]
  <1>1. /\ DOMAIN pack.encode = (1 .. n) \X fields /\ DOMAIN pack.decode = (1 .. n) \X fields
        /\ pack.size = n * s
        /\ \A j \in 1 .. n, f \in fields :
             /\ packTo(<<j, f>>)[1] = (n - j) * s + to(f)[1] /\ packTo(<<j, f>>)[2] = to(f)[2]
             /\ packFrom(<<j, f>>)[1] = (n - j) * s + from(f)[1] /\ packFrom(<<j, f>>)[2] = from(f)[2]
    <2>1. DOMAIN element.decode = fields
      BY DEF Fits
    <2> QED BY <2>1 DEF Pack, EncodePack, DecodePack
  <1>2. \A f \in fields :
          /\ to(f)[1] \in Nat /\ to(f)[2] \in Nat /\ to(f)[1] + to(f)[2] <= s
          /\ from(f)[1] = to(f)[1] /\ \A k \in 0 .. to(f)[2] - 1 : k \in from(f)[2]
          /\ \A k \in from(f)[2] : k \in Nat /\ from(f)[1] + k < s
    BY DEF Fits
  <1>3. \A f, g \in fields : f # g =>
          \A k \in from(f)[2] : from(f)[1] + k < to(g)[1] \/ to(g)[1] + to(g)[2] <= from(f)[1] + k
    BY DEF Fits
  <1>4. /\ n * s \in Nat
        /\ \A j \in 1 .. n : (n - j) * s \in Nat /\ (n - j) * s + s <= n * s
        /\ \A j, k \in 1 .. n : j < k => (n - k) * s + s <= (n - j) * s
    BY Products
  <1>5. s \in Nat
    OBVIOUS
  <1> HIDE DEF s, fields, to, from, packTo, packFrom
  <1> DEFINE base == [j \in 1 .. n |-> (n - j) * s]
             m == n * s
  <1>6. /\ m \in Nat
        /\ \A j \in 1 .. n : base[j] = (n - j) * s /\ base[j] \in Nat /\ base[j] + s <= m
        /\ \A j, k \in 1 .. n : j < k => base[k] + s <= base[j]
    BY <1>4
  <1> HIDE DEF base, m
  <1>7. ASSUME NEW j \in 1 .. n, NEW f \in fields
        PROVE  /\ packTo(<<j, f>>)[1] = base[j] + to(f)[1] /\ packTo(<<j, f>>)[2] = to(f)[2]
               /\ packFrom(<<j, f>>)[1] = base[j] + from(f)[1] /\ packFrom(<<j, f>>)[2] = from(f)[2]
    <2>1. base[j] = (n - j) * s
      BY <1>6
    <2>2. /\ packTo(<<j, f>>)[1] = (n - j) * s + to(f)[1] /\ packTo(<<j, f>>)[2] = to(f)[2]
          /\ packFrom(<<j, f>>)[1] = (n - j) * s + from(f)[1] /\ packFrom(<<j, f>>)[2] = from(f)[2]
      BY <1>1
    <2> QED BY <2>1, <2>2
  <1>8. pack.size = m
    BY <1>1 DEF m
  <1> HIDE DEF pack
  (* Each element has its fields in its own part of the pack ... *)
  <1>9. ASSUME NEW j \in 1 .. n, NEW f \in fields
        PROVE  LET at == packTo(<<j, f>>)
                   back == packFrom(<<j, f>>)
               IN /\ at[1] \in Nat /\ at[2] \in Nat /\ at[1] + at[2] <= m
                  /\ back[1] = at[1] /\ \A k \in 0 .. at[2] - 1 : k \in back[2]
                  /\ \A k \in back[2] : k \in Nat /\ back[1] + k < m
    <2> DEFINE b == base[j] a == to(f)[1] w == to(f)[2]
    <2>1. b \in Nat /\ a \in Nat /\ w \in Nat /\ b + s <= m /\ a + w <= s
      BY <1>2, <1>6
    <2>2. from(f)[1] = a /\ \A k \in from(f)[2] : k \in Nat /\ a + k < s
      BY <1>2
    <2>3. \A k \in 0 .. w - 1 : k \in from(f)[2]
      BY <1>2
    <2>4. /\ packTo(<<j, f>>)[1] = b + a /\ packTo(<<j, f>>)[2] = w
          /\ packFrom(<<j, f>>)[1] = b + a /\ packFrom(<<j, f>>)[2] = from(f)[2]
      BY <1>7, <2>2
    <2> HIDE DEF b, a, w
    <2>5. b + a \in Nat /\ (b + a) + w <= m
      BY <1>5, <1>6, <2>1
    <2>6. \A k \in from(f)[2] : k \in Nat /\ (b + a) + k < m
      BY <1>5, <1>6, <2>1, <2>2
    <2> QED BY <2>1, <2>3, <2>4, <2>5, <2>6
  (* ... and none is decoded from a place of another. *)
  <1>10. ASSUME NEW j \in 1 .. n, NEW f \in fields, NEW i \in 1 .. n, NEW g \in fields,
                <<j, f>> # <<i, g>>, NEW k \in packFrom(<<j, f>>)[2]
         PROVE  \/ packFrom(<<j, f>>)[1] + k < packTo(<<i, g>>)[1]
                \/ packTo(<<i, g>>)[1] + packTo(<<i, g>>)[2] <= packFrom(<<j, f>>)[1] + k
    <2> DEFINE b == base[j] a == from(f)[1] d == base[i] c == to(g)[1] v == to(g)[2]
    <2>1. k \in from(f)[2]
      BY <1>7, <1>10
    <2>2. /\ b \in Nat /\ a \in Nat /\ k \in Nat /\ a + k < s
          /\ d \in Nat /\ c \in Nat /\ v \in Nat /\ c + v <= s
      BY <1>2, <1>6, <2>1
    <2>3. packFrom(<<j, f>>)[1] = b + a /\ packTo(<<i, g>>)[1] = d + c /\ packTo(<<i, g>>)[2] = v
      BY <1>7
    <2>4. j = i => b = d /\ (a + k < c \/ c + v <= a + k)
      BY <1>3, <1>10, <2>1
    <2>5. (j < i => d + s <= b) /\ (i < j => b + s <= d)
      BY <1>6
    <2>6. j = i \/ j < i \/ i < j
      OBVIOUS
    <2> HIDE DEF b, a, d, c, v
    <2>7. (b + a) + k < d + c \/ (d + c) + v <= (b + a) + k
      BY <1>5, <2>2, <2>4, <2>5, <2>6
    <2> QED BY <2>3, <2>7
  <1>11. \A f \in DOMAIN pack.encode : \E j \in 1 .. n : \E g \in fields : f = <<j, g>>
    BY <1>1
  <1>12. /\ pack.size \in Nat /\ DOMAIN pack.decode = DOMAIN pack.encode
         /\ \A f \in DOMAIN pack.encode :
              LET at == packTo(f)
                  back == packFrom(f)
              IN /\ at[1] \in Nat /\ at[2] \in Nat /\ at[1] + at[2] <= pack.size
                 /\ back[1] = at[1] /\ \A k \in 0 .. at[2] - 1 : k \in back[2]
                 /\ \A k \in back[2] : k \in Nat /\ back[1] + k < pack.size
    BY <1>1, <1>6, <1>8, <1>9, <1>11
  <1>13. \A f, g \in DOMAIN pack.encode : f # g =>
           \A k \in packFrom(f)[2] : \/ packFrom(f)[1] + k < packTo(g)[1]
                                     \/ packTo(g)[1] + packTo(g)[2] <= packFrom(f)[1] + k
    BY <1>10, <1>11
  <1>14. Fits(pack)
    BY <1>12, <1>13 DEF Fits, packTo, packFrom
  <1> QED BY <1>14 DEF pack

(* Every layout of the dictionary fits.                                     *)
LEMMA LayoutsFit ==
  \A instruction \in DOMAIN Dictionary : Fits(Dictionary[instruction])
  <1> DEFINE entries == ToFPGADictionary \cup FromFPGADictionary
  <1>1. \A e \in ToFPGAJTAG \cup Timing \cup System \cup OmnibusToFPGA : Fits(e[2])
    BY ValueFits, EmptyFits, JTAGDataFits, OmnibusAddressFits DEF ToFPGAJTAG, Timing, System, OmnibusToFPGA
  <1>2. \A e \in JTAGFromHicann \cup OmnibusFromFPGA \cup FromFPGASystem \cup TimingFromFPGA : Fits(e[2])
    BY ValueFits DEF JTAGFromHicann, OmnibusFromFPGA, FromFPGASystem, TimingFromFPGA
  <1>3. \A n \in 1 .. 3 : Fits(MADCSamplePack[n]) /\ Fits(SpikePack[n]) /\ Fits(SpikePackToFPGA[n])
    BY PackFits, MADCSampleFits, SpikeFits, SpikeToFPGAFits
       DEF MADCSamplePack, SpikePack, SpikePackToFPGA, max_num_packed
  <1>4. \A e \in EventToFPGA \cup EventFromFPGA : Fits(e[2])
    BY <1>3 DEF EventToFPGA, EventFromFPGA
  <1>5. \A e \in entries : Fits(e[2])
    BY <1>1, <1>2, <1>4 DEF ToFPGADictionary, FromFPGADictionary
  <1> HIDE DEF entries
  <1>6. Dictionary = [i \in {e[1] : e \in entries} |-> (CHOOSE e \in entries : e[1] = i)[2]]
    BY DEF Dictionary, entries
  <1>7. ASSUME NEW i \in {e[1] : e \in entries} PROVE Fits(Dictionary[i])
    <2>1. \E e \in entries : e[1] = i
      OBVIOUS
    <2> DEFINE c == CHOOSE e \in entries : e[1] = i
    <2>2. c \in entries
      BY <2>1
    <2>3. Dictionary[i] = c[2]
      BY <1>6
    <2> HIDE DEF c
    <2> QED BY <1>5, <2>2, <2>3
  <1> QED BY <1>6, <1>7

(* Decoding inverts encoding: the fields of an instruction come back as     *)
(* they were.                                                               *)
THEOREM DecodeInvertsEncode ==
  ASSUME NEW instruction \in DOMAIN Dictionary, NEW payload, IsPayload(instruction, payload)
  PROVE  Decode(Encode(instruction, payload)) = payload
  <1> DEFINE layout == Dictionary[instruction]
             fields == DOMAIN layout.encode
             to(f) == layout.encode[f]
             from(f) == layout.decode[f]
             shifted(f) == {to(f)[1] + b : b \in payload[f]}
             shiftedAll == UNION {shifted(f) : f \in fields}
             bits == shiftedAll \cap Lowest(layout.size)
  <1>1. Fits(layout)
    BY LayoutsFit
  <1>2. /\ payload = [f \in fields |-> payload[f]]
        /\ \A f \in fields : payload[f] \subseteq 0 .. to(f)[2] - 1
    BY DEF IsPayload, Lowest
  <1>3. Decode(Encode(instruction, payload)) =
          [f \in fields |-> {b \in from(f)[2] : from(f)[1] + b \in bits}]
    <2>1. Encode(instruction, payload) = Message(instruction, bits)
      BY DEF Encode
    <2>2. DOMAIN layout.decode = fields
      BY <1>1 DEF Fits
    <2> HIDE DEF bits
    <2> QED BY <2>1, <2>2 DEF Decode, Message
  <1> HIDE DEF layout
  <1>4. ASSUME NEW f \in fields
        PROVE  {b \in from(f)[2] : from(f)[1] + b \in bits} = payload[f]
    <2> DEFINE a == to(f)[1] w == to(f)[2] m == layout.size kept == from(f)[2]
    <2>1. /\ a \in Nat /\ w \in Nat /\ m \in Nat /\ a + w <= m /\ payload[f] \subseteq 0 .. w - 1
          /\ from(f)[1] = a /\ \A k \in 0 .. w - 1 : k \in kept
          /\ \A k \in kept : k \in Nat /\ a + k < m
      BY <1>1, <1>2 DEF Fits
    <2> HIDE DEF a, w, m, kept
    <2>2. ASSUME NEW b \in payload[f]
          PROVE  b \in kept /\ a + b \in bits
      <3>1. b \in 0 .. w - 1
        BY <2>1
      <3>2. b \in kept /\ a + b \in 0 .. m - 1
        BY <2>1, <3>1
      <3>3. a + b \in shifted(f)
        BY DEF a
      <3>4. a + b \in shiftedAll
        BY <3>3
      <3> HIDE DEF shiftedAll
      <3> QED BY <3>2, <3>4 DEF m, Lowest
    <2>3. ASSUME NEW k \in kept, a + k \in bits
          PROVE  k \in payload[f]
      <3>1. PICK g \in fields : a + k \in shifted(g)
        BY <2>3
      <3>2. PICK b \in payload[g] : a + k = to(g)[1] + b
        BY <3>1
      <3> DEFINE d == to(g)[1] v == to(g)[2]
      <3>3. d \in Nat /\ v \in Nat /\ b \in 0 .. v - 1 /\ a + k = d + b /\ k \in Nat
        BY <1>1, <1>2, <2>1, <3>2 DEF Fits
      <3>4. f # g => a + k < d \/ d + v <= a + k
        BY <1>1, <2>1 DEF Fits, kept
      <3>5. f = g => d = a
        BY DEF a
      <3> HIDE DEF d, v
      <3>6. f = g
        BY <2>1, <3>3, <3>4
      <3>7. k = b
        BY <2>1, <3>3, <3>5, <3>6
      <3> QED BY <3>2, <3>6, <3>7
    <2> HIDE DEF bits
    <2>4. {b \in kept : a + b \in bits} = payload[f]
      BY <2>2, <2>3
    <2> QED BY <2>1, <2>4 DEF kept
  <1> HIDE DEF bits, from
  <1>5. Decode(Encode(instruction, payload)) = [f \in fields |-> payload[f]]
    BY <1>3, <1>4
  <1> QED BY <1>2, <1>5

----------------------------------------------------------------------------
(* LoopbackConnection. *)

LoopbackSpec == LoopbackInit /\ [][LoopbackNext]_loopbackVars

(* What the user may add, and the same encoded.                            *)
Sendable ==
  {m \in [instruction : DOMAIN Dictionary,
          payload : UNION {UNION {Payloads(i, k) : k \in 1 .. MaxMessages} : i \in DOMAIN Dictionary}] :
     IsPayload(m.instruction, m.payload)}
Encoded == {Encode(m.instruction, m.payload) : m \in Sendable}

LoopbackTypeOK ==
  /\ user \in {"using", "joining", "gone"}
  /\ worker \in {"check", "lock", "decode", "decoded", "clear", "ended"}
  /\ m_send_queue \in Seq(Sendable)
  /\ m_intermediate_queue \in Seq(Encoded) /\ m_receive_queue \in Seq(Encoded)
  /\ committed \in Seq(Sendable) /\ received \in Seq(Sendable)

(* Which mutexes the worker holds at which step. *)
InvMutexes ==
  /\ intermediate_mutex = IF worker \in {"decode", "decoded", "clear"} THEN "worker" ELSE "free"
  /\ receive_mutex = IF worker = "decoded" THEN "worker" ELSE "free"

LoopbackIInv == LoopbackTypeOK /\ InvMutexes /\ EchoedInOrder

(* What is decoded at once is decoded one by one.                          *)
LEMMA DecodedElements ==
  ASSUME NEW q \in Seq(Encoded)
  PROVE  /\ DecodeAll(q) \in Seq(Sendable)
         /\ Len(DecodeAll(q)) = Len(q)
         /\ \A k \in 1 .. Len(q) : DecodeAll(q)[k] = [instruction |-> q[k].instruction, payload |-> Decode(q[k])]
  <1>1. /\ Len(q) \in Nat /\ DOMAIN q = 1 .. Len(q)
        /\ \A k \in 1 .. Len(q) : q[k] \in Encoded
    BY LenProperties, ElementOfSeq
  <1>2. ASSUME NEW e \in Encoded
        PROVE  [instruction |-> e.instruction, payload |-> Decode(e)] \in Sendable
    <2>1. PICK m \in Sendable : e = Encode(m.instruction, m.payload)
      BY DEF Encoded
    <2>2. m.instruction \in DOMAIN Dictionary /\ IsPayload(m.instruction, m.payload)
      BY DEF Sendable
    <2>3. Decode(e) = m.payload
      BY <2>1, <2>2, DecodeInvertsEncode
    <2>4. e.instruction = m.instruction
      BY <2>1 DEF Encode, Message
    <2>5. m = [instruction |-> m.instruction, payload |-> m.payload]
      BY DEF Sendable
    <2> QED BY <2>3, <2>4, <2>5
  <1> DEFINE d(k) == [instruction |-> q[k].instruction, payload |-> Decode(q[k])]
  <1>3. \A k \in 1 .. Len(q) : d(k) \in Sendable
    BY <1>1, <1>2
  <1>4. DecodeAll(q) = [k \in 1 .. Len(q) |-> d(k)]
    BY <1>1 DEF DecodeAll
  <1> HIDE DEF d
  <1>5. [k \in 1 .. Len(q) |-> d(k)] \in Seq(Sendable)
    BY <1>1, <1>3, IsASeq
  <1>6. Len(DecodeAll(q)) = Len(q) /\ \A k \in 1 .. Len(q) : DecodeAll(q)[k] = d(k)
    BY <1>1, <1>4
  <1> QED BY <1>4, <1>5, <1>6 DEF d

LEMMA DecodeAllConcat ==
  ASSUME NEW q \in Seq(Encoded), NEW r \in Seq(Encoded)
  PROVE  DecodeAll(q \o r) = DecodeAll(q) \o DecodeAll(r)
  <1> DEFINE d(e) == [instruction |-> e.instruction, payload |-> Decode(e)]
             n == Len(q) m == Len(r)
  <1>1. /\ n \in Nat /\ m \in Nat /\ q \o r \in Seq(Encoded) /\ Len(q \o r) = n + m
        /\ \A k \in 1 .. n + m : (q \o r)[k] = IF k <= n THEN q[k] ELSE r[k - n]
    BY ConcatProperties, LenProperties
  <1>2. /\ DecodeAll(q \o r) \in Seq(Sendable) /\ Len(DecodeAll(q \o r)) = n + m
        /\ \A k \in 1 .. n + m : DecodeAll(q \o r)[k] = d((q \o r)[k])
    BY <1>1, DecodedElements
  <1>3. /\ DecodeAll(q) \in Seq(Sendable) /\ Len(DecodeAll(q)) = n
        /\ \A k \in 1 .. n : DecodeAll(q)[k] = d(q[k])
        /\ DecodeAll(r) \in Seq(Sendable) /\ Len(DecodeAll(r)) = m
        /\ \A k \in 1 .. m : DecodeAll(r)[k] = d(r[k])
    BY DecodedElements
  <1> DEFINE u == DecodeAll(q) v == DecodeAll(r) w == DecodeAll(q \o r)
  <1> HIDE DEF u, v, w, d, n, m
  <1>4. /\ u \o v \in Seq(Sendable) /\ Len(u \o v) = n + m
        /\ \A k \in 1 .. n + m : (u \o v)[k] = IF k <= n THEN u[k] ELSE v[k - n]
    BY <1>3, ConcatProperties DEF u, v
  <1>5. ASSUME NEW k \in 1 .. n + m PROVE w[k] = (u \o v)[k]
    <2>1. CASE k <= n
      <3>1. k \in 1 .. n
        BY <1>1, <2>1
      <3> QED BY <1>1, <1>2, <1>3, <1>4, <2>1, <3>1 DEF u, v, w
    <2>2. CASE ~(k <= n)
      <3>1. k - n \in 1 .. m
        BY <1>1, <2>2
      <3> QED BY <1>1, <1>2, <1>3, <1>4, <2>2, <3>1 DEF u, v, w
    <2> QED BY <2>1, <2>2
  <1>6. w \in Seq(Sendable) /\ Len(w) = n + m
    BY <1>2 DEF w
  <1>7. w = u \o v
    BY <1>4, <1>5, <1>6, SeqEqual
  <1> QED BY <1>7 DEF u, v, w

(* Messages that are encoded and decoded are the same as before.           *)
EncodeAll(messages) == [k \in DOMAIN messages |-> Encode(messages[k].instruction, messages[k].payload)]

LEMMA DecodeAllInvertsEncodeAll ==
  ASSUME NEW q \in Seq(Sendable)
  PROVE  EncodeAll(q) \in Seq(Encoded) /\ DecodeAll(EncodeAll(q)) = q
  <1>1. /\ Len(q) \in Nat /\ DOMAIN q = 1 .. Len(q)
        /\ \A k \in 1 .. Len(q) : q[k] \in Sendable
    BY LenProperties, ElementOfSeq
  <1> DEFINE e(k) == Encode(q[k].instruction, q[k].payload)
  <1>2. EncodeAll(q) = [k \in 1 .. Len(q) |-> e(k)]
    BY <1>1 DEF EncodeAll
  <1>3. \A k \in 1 .. Len(q) : e(k) \in Encoded
    BY <1>1 DEF Encoded
  <1> HIDE DEF e
  <1>4. EncodeAll(q) \in Seq(Encoded)
    BY <1>1, <1>2, <1>3, IsASeq
  <1>5. Len(EncodeAll(q)) = Len(q) /\ \A k \in 1 .. Len(q) : EncodeAll(q)[k] = e(k)
    BY <1>1, <1>2
  <1>6. /\ DecodeAll(EncodeAll(q)) \in Seq(Sendable)
        /\ Len(DecodeAll(EncodeAll(q))) = Len(q)
        /\ \A k \in 1 .. Len(q) : DecodeAll(EncodeAll(q))[k] = [instruction |-> e(k).instruction, payload |-> Decode(e(k))]
    BY <1>4, <1>5, DecodedElements
  <1>7. ASSUME NEW k \in 1 .. Len(q)
        PROVE  DecodeAll(EncodeAll(q))[k] = q[k]
    <2>1. q[k] \in Sendable
      BY <1>1
    <2>2. q[k].instruction \in DOMAIN Dictionary /\ IsPayload(q[k].instruction, q[k].payload)
      BY <2>1 DEF Sendable
    <2>3. Decode(e(k)) = q[k].payload
      BY <2>2, DecodeInvertsEncode DEF e
    <2>4. e(k).instruction = q[k].instruction
      BY DEF e, Encode, Message
    <2>5. q[k] = [instruction |-> q[k].instruction, payload |-> q[k].payload]
      BY <2>1 DEF Sendable
    <2> QED BY <1>6, <2>3, <2>4, <2>5
  <1>8. DecodeAll(EncodeAll(q)) = q
    BY <1>6, <1>7, SeqEqual
  <1> QED BY <1>4, <1>8

LEMMA LoopbackInitial == LoopbackInit => LoopbackIInv
  <1> SUFFICES ASSUME LoopbackInit PROVE LoopbackIInv
    OBVIOUS
  <1>1. LoopbackTypeOK
    BY EmptySeq DEF LoopbackInit, LoopbackTypeOK
  <1>2. InvMutexes
    BY DEF LoopbackInit, InvMutexes
  <1>3. <<>> \in Seq(Encoded)
    BY EmptySeq
  <1>4. DecodeAll(<<>>) \in Seq(Sendable) /\ Len(DecodeAll(<<>>)) = 0
    BY <1>3, DecodedElements, EmptySeq
  <1>5. DecodeAll(<<>>) = <<>>
    BY <1>4, EmptySeq
  <1>6. EchoedInOrder
    BY <1>5, ConcatEmptySeq, EmptySeq DEF LoopbackInit, EchoedInOrder
  <1> QED BY <1>1, <1>2, <1>6 DEF LoopbackIInv

LEMMA LoopbackStep ==
  ASSUME LoopbackIInv, [LoopbackNext]_loopbackVars
  PROVE  LoopbackIInv'
  <1> USE DEF queues, mutexes, history
  <1> DEFINE clearing == IF worker \in {"decoded", "clear"} THEN <<>> ELSE m_intermediate_queue
  <1>1. /\ LoopbackTypeOK /\ InvMutexes
        /\ committed = received \o DecodeAll(m_receive_queue) \o DecodeAll(clearing)
    BY DEF LoopbackIInv, EchoedInOrder
  <1>2. clearing \in Seq(Encoded) /\ <<>> \in Seq(Encoded)
    BY <1>1, EmptySeq DEF LoopbackTypeOK
  <1>3. /\ DecodeAll(m_receive_queue) \in Seq(Sendable) /\ DecodeAll(clearing) \in Seq(Sendable)
        /\ DecodeAll(<<>>) = <<>>
    <2>1. DecodeAll(<<>>) \in Seq(Sendable) /\ Len(DecodeAll(<<>>)) = 0
      BY <1>2, DecodedElements, EmptySeq
    <2>2. DecodeAll(<<>>) = <<>>
      BY <2>1, EmptySeq
    <2> QED BY <1>1, <1>2, <2>2, DecodedElements DEF LoopbackTypeOK
  <1>4. CASE UNCHANGED loopbackVars
    BY <1>1, <1>4 DEF loopbackVars, LoopbackIInv, LoopbackTypeOK, InvMutexes, EchoedInOrder, DecodeAll
  <1>5. CASE \E instruction \in DOMAIN Dictionary :
               \E payload \in Payloads(instruction, Added + 1) : AddMessage(instruction, payload)
    <2>1. PICK instruction \in DOMAIN Dictionary : \E payload \in Payloads(instruction, Added + 1) : AddMessage(instruction, payload)
      BY <1>5
    <2>2. PICK payload \in Payloads(instruction, Added + 1) : AddMessage(instruction, payload)
      BY <2>1
    <2> DEFINE m == [instruction |-> instruction, payload |-> payload]
    <2>3. Added + 1 \in 1 .. MaxMessages
      <3>1. Len(m_send_queue) \in Nat /\ Len(committed) \in Nat
        BY <1>1, LenProperties DEF LoopbackTypeOK
      <3> QED BY <2>2, <3>1, MessagesAssumption DEF AddMessage, Added
    <2>4. IsPayload(instruction, payload)
      BY <2>3, PayloadsAssumption
    <2>5. m \in Sendable
      BY <2>3, <2>4 DEF Sendable
    <2>6. Append(m_send_queue, m) \in Seq(Sendable)
      BY <1>1, <2>5, AppendProperties DEF LoopbackTypeOK
    <2>7. LoopbackTypeOK'
      BY <1>1, <2>2, <2>6 DEF LoopbackTypeOK, AddMessage
    <2>8. InvMutexes' /\ EchoedInOrder'
      BY <1>1, <2>2 DEF InvMutexes, AddMessage, EchoedInOrder, DecodeAll
    <2> QED BY <2>7, <2>8 DEF LoopbackIInv
  <1>6. CASE Commit
    <2>1. /\ m_intermediate_queue' = m_intermediate_queue \o EncodeAll(m_send_queue)
          /\ m_send_queue' = <<>> /\ committed' = committed \o m_send_queue
          /\ UNCHANGED <<user, worker, m_receive_queue, intermediate_mutex, receive_mutex, received>>
      BY <1>6 DEF Commit, EncodeAll
    <2>2. /\ m_intermediate_queue \in Seq(Encoded) /\ m_send_queue \in Seq(Sendable) /\ committed \in Seq(Sendable)
          /\ received \in Seq(Sendable)
      BY <1>1 DEF LoopbackTypeOK
    <2>3. EncodeAll(m_send_queue) \in Seq(Encoded) /\ DecodeAll(EncodeAll(m_send_queue)) = m_send_queue
      BY <2>2, DecodeAllInvertsEncodeAll
    <2>4. LoopbackTypeOK'
      BY <1>1, <2>1, <2>2, <2>3, ConcatProperties, EmptySeq DEF LoopbackTypeOK
    <2>5. clearing = m_intermediate_queue /\ worker \notin {"decoded", "clear"}
      BY <1>1, <1>6 DEF InvMutexes, Commit
    <2>6. DecodeAll(m_intermediate_queue') = DecodeAll(m_intermediate_queue) \o m_send_queue
      BY <2>1, <2>2, <2>3, DecodeAllConcat
    <2> DEFINE a == received \o DecodeAll(m_receive_queue)
               b == DecodeAll(m_intermediate_queue)
    <2>7. a \in Seq(Sendable) /\ b \in Seq(Sendable) /\ committed = a \o b
      BY <1>1, <1>3, <2>2, <2>5, ConcatProperties
    <2>8. (a \o b) \o m_send_queue = a \o (b \o m_send_queue)
      <3> HIDE DEF a, b
      <3> QED BY <2>2, <2>7, ConcatAssociative
    <2>9. EchoedInOrder'
      <3>1. committed' = a \o DecodeAll(m_intermediate_queue')
        BY <2>1, <2>6, <2>7, <2>8
      <3> QED BY <2>1, <2>5, <3>1 DEF EchoedInOrder, DecodeAll
    <2>10. InvMutexes'
      BY <1>1, <2>1 DEF InvMutexes
    <2> QED BY <2>4, <2>9, <2>10 DEF LoopbackIInv
  <1>7. CASE ReceiveAllLooped
    <2>1. /\ received' = received \o DecodeAll(m_receive_queue) /\ m_receive_queue' = <<>>
          /\ UNCHANGED <<user, worker, m_send_queue, m_intermediate_queue, intermediate_mutex, receive_mutex, committed>>
      BY <1>7 DEF ReceiveAllLooped
    <2>2. received' \in Seq(Sendable) /\ received' \o <<>> = received'
      BY <1>1, <1>3, <2>1, ConcatProperties, ConcatEmptySeq DEF LoopbackTypeOK
    <2>3. LoopbackTypeOK' /\ InvMutexes'
      BY <1>1, <1>2, <2>1, <2>2 DEF LoopbackTypeOK, InvMutexes
    <2>4. committed' = received' \o DecodeAll(m_receive_queue') \o DecodeAll(clearing)
      BY <1>1, <1>3, <2>1, <2>2
    <2>5. EchoedInOrder'
      BY <2>1, <2>4 DEF EchoedInOrder, DecodeAll
    <2> QED BY <2>3, <2>5 DEF LoopbackIInv
  <1>8. CASE Destruct \/ Joined
    BY <1>1, <1>8 DEF Destruct, Joined, LoopbackIInv, LoopbackTypeOK, InvMutexes, EchoedInOrder, DecodeAll
  <1>9. CASE CheckRun \/ LockIntermediate
    BY <1>1, <1>9 DEF CheckRun, LockIntermediate, WorkerStep, LoopbackIInv, LoopbackTypeOK, InvMutexes, EchoedInOrder, DecodeAll
  <1>10. CASE LockReceiveAndDecode
    <2>1. /\ worker = "decode" /\ worker' = "decoded" /\ receive_mutex' = "worker"
          /\ m_receive_queue' = m_receive_queue \o m_intermediate_queue
          /\ UNCHANGED <<user, m_send_queue, m_intermediate_queue, intermediate_mutex, committed, received>>
      BY <1>10 DEF LockReceiveAndDecode, WorkerStep
    <2>2. m_receive_queue \in Seq(Encoded) /\ m_intermediate_queue \in Seq(Encoded) /\ received \in Seq(Sendable)
      BY <1>1 DEF LoopbackTypeOK
    <2>3. LoopbackTypeOK' /\ InvMutexes'
      BY <1>1, <2>1, <2>2, ConcatProperties DEF LoopbackTypeOK, InvMutexes
    <2>4. DecodeAll(m_receive_queue') = DecodeAll(m_receive_queue) \o DecodeAll(m_intermediate_queue)
      BY <2>1, <2>2, DecodeAllConcat
    <2>5. /\ DecodeAll(m_receive_queue) \in Seq(Sendable) /\ DecodeAll(m_intermediate_queue) \in Seq(Sendable)
          /\ clearing = m_intermediate_queue
      BY <1>3, <2>1, <2>2, DecodedElements
    <2> DEFINE a == DecodeAll(m_receive_queue) b == DecodeAll(m_intermediate_queue)
    <2>6. committed = received \o (a \o b) /\ received \o (a \o b) \in Seq(Sendable)
      <3>1. committed = (received \o a) \o b
        BY <1>1, <2>5
      <3> HIDE DEF a, b
      <3>2. a \in Seq(Sendable) /\ b \in Seq(Sendable)
        BY <2>5 DEF a, b
      <3>3. (received \o a) \o b = received \o (a \o b)
        BY <2>2, <3>2, ConcatAssociative
      <3>4. a \o b \in Seq(Sendable)
        BY <3>2, ConcatProperties
      <3>5. received \o (a \o b) \in Seq(Sendable)
        BY <2>2, <3>4, ConcatProperties
      <3> QED BY <3>1, <3>3, <3>5
    <2>7. committed' = received' \o DecodeAll(m_receive_queue') \o DecodeAll(<<>>)
      BY <1>3, <2>1, <2>4, <2>6, ConcatEmptySeq
    <2>8. EchoedInOrder'
      BY <2>1, <2>7 DEF EchoedInOrder, DecodeAll
    <2> QED BY <2>3, <2>8 DEF LoopbackIInv
  <1>11. CASE UnlockReceive
    BY <1>1, <1>11 DEF UnlockReceive, WorkerStep, LoopbackIInv, LoopbackTypeOK, InvMutexes, EchoedInOrder, DecodeAll
  <1>12. CASE ClearAndUnlock
    <2>1. /\ worker = "clear" /\ worker' = "check" /\ m_intermediate_queue' = <<>> /\ intermediate_mutex' = "free"
          /\ UNCHANGED <<user, m_send_queue, m_receive_queue, receive_mutex, committed, received>>
      BY <1>12 DEF ClearAndUnlock, WorkerStep
    <2>2. LoopbackTypeOK' /\ InvMutexes'
      BY <1>1, <1>2, <2>1 DEF LoopbackTypeOK, InvMutexes
    <2>3. EchoedInOrder'
      BY <1>1, <2>1 DEF EchoedInOrder, DecodeAll
    <2> QED BY <2>2, <2>3 DEF LoopbackIInv
  <1> QED BY <1>4, <1>5, <1>6, <1>7, <1>8, <1>9, <1>10, <1>11, <1>12 DEF LoopbackNext, Worker

(* The inductive invariant: what commit sent and receive_all has not        *)
(* returned lies in the two queues, whoever holds their mutexes.            *)
THEOREM LoopbackInvariance == LoopbackSpec => []LoopbackIInv
  <1>1. LoopbackInit => LoopbackIInv
    BY LoopbackInitial
  <1>2. LoopbackIInv /\ [LoopbackNext]_loopbackVars => LoopbackIInv'
    BY LoopbackStep
  <1> QED BY <1>1, <1>2, PTL DEF LoopbackSpec

(* Whatever is added comes back as it was, once and in order.              *)
THEOREM Echoed == LoopbackSpec => []EchoedInOrder
  <1>1. LoopbackIInv => EchoedInOrder
    BY DEF LoopbackIInv
  <1> QED BY <1>1, LoopbackInvariance, PTL

----------------------------------------------------------------------------
(* MultiConnection. *)

MultiSpec == MultiInit /\ [][MultiNext]_multiVars

Messages == [instruction : DOMAIN Dictionary, bits : SUBSET Nat]
Halt == Message("system::Loopback", HaltBits)

(* The answers to a message list and the halt behind it.                    *)
AnswersTo(messages) == FlattenSeq([k \in DOMAIN messages |-> Responses(messages[k])])
Answers(messages) == AnswersTo(Append(messages, Halt))

Running == [stage : {"launch", "join", "destroy"}, joined : 0 .. Size, snapshot : BOOLEAN,
            messages : [Index -> Program]]

Connections == [m_receive_queue : Seq(Messages), m_halt : BOOLEAN,
                m_mutex : {Free} \cup {<<t>> : t \in Thread}, clean : BOOLEAN]
Tasks == [stage : {"none", "lock", "run", "receive", "done", "failed"}, clean : BOOLEAN, responses : Seq(Messages)]

MultiTypeOK ==
  /\ connection \in [Index -> Connections]
  /\ call \in [Thread -> {NoCall} \cup Running]
  /\ task \in [Thread -> [Index -> Tasks]]
  /\ result = [t \in Thread |-> result[t]]

(* The tasks of a call are launched from the first to the last, and those   *)
(* that were joined are done.                                               *)
InvStages ==
  \A t \in Thread :
    /\ call[t] = NoCall => \A i \in Index : task[t][i].stage = "none"
    /\ call[t].stage = "launch" =>
         \E n \in 0 .. Size - 1 : \A i \in Index : task[t][i].stage # "none" <=> i <= n
    /\ \A k \in 1 .. call[t].joined : task[t][k].stage = "done"

(* A connection is locked by the thread that executes on it.                *)
InvLocked ==
  \A t \in Thread : \A i \in Index :
    connection[i].m_mutex = <<t>> <=> task[t][i].stage \in {"run", "receive"}

(* Unless an execution threw, nothing is left on a connection that is not   *)
(* locked, and on one that is locked and in what was received are the       *)
(* answers to the message list.                                             *)
InvQueues ==
  /\ \A i \in Index : connection[i].m_mutex = Free /\ connection[i].clean => connection[i].m_receive_queue = <<>>
  /\ \A t \in Thread : \A i \in Index : task[t][i].clean =>
       /\ task[t][i].stage \in {"run", "receive"} => connection[i].m_receive_queue = Answers(call[t].messages[i])
       /\ task[t][i].stage = "done" => task[t][i].responses = Answers(call[t].messages[i])

(* What a call returns that returns it well.                                *)
IsResult(r) ==
  LET answers == [i \in Index |-> Answers(r.messages[i])]
  IN r.status = "ok" /\ r.clean =>
       /\ r.messages \in [Index -> Program]
       /\ IF r.snapshot THEN Enough(answers, r.messages) /\ r.value = Transform(answers, r.messages)
          ELSE r.value = answers
InvResults == \A t \in Thread : IsResult(result[t])

MultiIInv == MultiTypeOK /\ InvStages /\ InvLocked /\ InvQueues /\ InvResults

LEMMA InDictionary ==
  {"system::Loopback", "from_fpga_system::Loopback", "jtag_from_hicann::Data", "omnibus_from_fpga::Data"}
    \subseteq DOMAIN Dictionary
  <1> DEFINE entries == ToFPGADictionary \cup FromFPGADictionary
  <1>1. DOMAIN Dictionary = {e[1] : e \in entries}
    BY DEF Dictionary
  <1>2. <<"system::Loopback", Value(1)>> \in entries
    BY DEF ToFPGADictionary, System
  <1>3. <<"from_fpga_system::Loopback", Value(1)>> \in entries
    BY DEF FromFPGADictionary, FromFPGASystem
  <1>4. <<"jtag_from_hicann::Data", Value(33)>> \in entries
    BY DEF FromFPGADictionary, JTAGFromHicann
  <1>5. <<"omnibus_from_fpga::Data", Value(32)>> \in entries
    BY DEF FromFPGADictionary, OmnibusFromFPGA
  <1> HIDE DEF entries
  <1> QED BY <1>1, <1>2, <1>3, <1>4, <1>5

LEMMA HaltIsMessage == Halt \in Messages
  BY InDictionary DEF Halt, Messages, Message, HaltBits

LEMMA ResponsesType ==
  ASSUME NEW message \in Messages
  PROVE  Responses(message) \in Seq(Messages)
  <1>1. CASE message.instruction = "system::Loopback"
    <2>1. Responses(message) = <<Message("from_fpga_system::Loopback", message.bits)>>
      BY <1>1 DEF Responses
    <2>2. Message("from_fpga_system::Loopback", message.bits) \in Messages
      BY InDictionary DEF Messages, Message
    <2> QED BY <2>1, <2>2
  <1>2. CASE message.instruction = "to_fpga_jtag::Data" /\ JTAGData.size - 8 \in message.bits
    <2>1. Responses(message) = <<Message("jtag_from_hicann::Data", {})>>
      BY <1>2 DEF Responses
    <2>2. Message("jtag_from_hicann::Data", {}) \in Messages
      BY InDictionary DEF Messages, Message
    <2> QED BY <2>1, <2>2
  <1>3. CASE message.instruction = "omnibus_to_fpga::Address" /\ 4 * (8 + 1) \in message.bits
    <2> DEFINE address == Decode(message).address
    <2>1. Responses(message) =
            IF address \in DOMAIN Register THEN <<Message("omnibus_from_fpga::Data", Register[address])>> ELSE <<>>
      BY <1>3 DEF Responses
    <2>2. CASE address \in DOMAIN Register
      <3>1. Register[address] \subseteq Nat
        BY <2>2, RegisterAssumption
      <3>2. Message("omnibus_from_fpga::Data", Register[address]) \in Messages
        BY <3>1, InDictionary DEF Messages, Message
      <3> QED BY <2>1, <2>2, <3>2
    <2>3. CASE address \notin DOMAIN Register
      BY <2>1, <2>3, EmptySeq
    <2> QED BY <2>2, <2>3
  <1>4. CASE /\ message.instruction # "system::Loopback"
             /\ ~(message.instruction = "to_fpga_jtag::Data" /\ JTAGData.size - 8 \in message.bits)
             /\ ~(message.instruction = "omnibus_to_fpga::Address" /\ 4 * (8 + 1) \in message.bits)
    <2>1. Responses(message) = <<>>
      BY <1>4 DEF Responses
    <2> QED BY <2>1, EmptySeq
  <1> QED BY <1>1, <1>2, <1>3, <1>4

LEMMA AnswersType ==
  ASSUME NEW messages \in Seq(Messages)
  PROVE  /\ AnswersTo(messages) \in Seq(Messages)
         /\ Answers(messages) \in Seq(Messages)
  <1>1. ASSUME NEW q \in Seq(Messages) PROVE AnswersTo(q) \in Seq(Messages)
    <2>1. /\ Len(q) \in Nat /\ DOMAIN q = 1 .. Len(q)
          /\ \A k \in 1 .. Len(q) : q[k] \in Messages
      BY LenProperties, ElementOfSeq
    <2>2. \A k \in 1 .. Len(q) : Responses(q[k]) \in Seq(Messages)
      BY <2>1, ResponsesType
    <2> DEFINE parts == [k \in 1 .. Len(q) |-> Responses(q[k])]
    <2>3. parts \in Seq(Seq(Messages))
      BY <2>1, <2>2, IsASeq
    <2>4. AnswersTo(q) = FlattenSeq(parts)
      BY <2>1 DEF AnswersTo
    <2> QED BY <2>3, <2>4, FlattenType
  <1>2. Append(messages, Halt) \in Seq(Messages)
    BY HaltIsMessage, AppendProperties
  <1> QED BY <1>1, <1>2 DEF Answers

LEMMA ProgramMessages ==
  ASSUME NEW m \in [Index -> Program], NEW i \in Index
  PROVE  m[i] \in Seq(Messages)
  BY ProgramAssumption DEF Messages

LEMMA MultiInitial == MultiInit => MultiIInv
  <1> SUFFICES ASSUME MultiInit PROVE MultiIInv
    OBVIOUS
  <1>1. MultiTypeOK
    BY EmptySeq DEF MultiInit, MultiTypeOK, NoTask, Connections, Tasks
  <1>2. InvStages
    BY DEF MultiInit, InvStages, NoTask, NoCall
  <1>3. InvLocked
    BY DEF MultiInit, InvLocked, NoTask, Free
  <1>4. InvQueues
    BY DEF MultiInit, InvQueues, NoTask, Free
  <1>5. InvResults
    BY DEF MultiInit, InvResults, IsResult, NoResult
  <1> QED BY <1>1, <1>2, <1>3, <1>4, <1>5 DEF MultiIInv

LEMMA TheirMessages ==
  ASSUME NEW messages \in Calls, Len(messages) = Size
  PROVE  messages \in [Index -> Program]
  <1>1. CASE messages \in [Index -> Program]
    BY <1>1
  <1>2. CASE \E p \in Program : messages = <<p>>
    <2>1. PICK p \in Program : messages = <<p>>
      BY <1>2
    <2>2. Size = 1
      BY <2>1
    <2> QED BY <2>1, <2>2 DEF Index
  <1> QED BY <1>1, <1>2 DEF Calls

(* A thread that executes has messages for each connection.                 *)
LEMMA ItsMessages ==
  ASSUME MultiTypeOK, InvStages, NEW t \in Thread, NEW i \in Index, task[t][i].stage # "none"
  PROVE  call[t] \in Running /\ call[t].messages[i] \in Seq(Messages)
  <1>1. call[t] # NoCall
    BY DEF InvStages
  <1>2. call[t] \in Running
    BY <1>1 DEF MultiTypeOK
  <1> QED BY <1>2, ProgramMessages DEF Running

LEMMA ExecuteStep ==
  ASSUME MultiIInv, NEW t \in Thread, NEW messages \in Calls, NEW snapshot \in BOOLEAN,
         Execute(t, messages, snapshot)
  PROVE  MultiIInv'
  <1>1. /\ MultiTypeOK /\ InvStages /\ InvLocked /\ InvQueues /\ InvResults
        /\ call[t] = NoCall /\ UNCHANGED <<connection, task>>
    BY DEF MultiIInv, Execute
  <1>2. \A i \in Index : task[t][i].stage = "none"
    BY <1>1 DEF InvStages
  <1>3. InvLocked'
    BY <1>1 DEF InvLocked
  <1>4. CASE Len(messages) = Size
    <2> DEFINE c == [stage |-> "launch", joined |-> 0, snapshot |-> snapshot, messages |-> messages]
    <2>1. call' = [call EXCEPT ![t] = c] /\ result' = [result EXCEPT ![t] = NoResult]
      BY <1>4 DEF Execute
    <2>2. messages \in [Index -> Program]
      BY <1>4, TheirMessages
    <2>3. c \in Running
      BY <2>2, SizeAssumption DEF Running
    <2>4. call'[t] = c /\ \A u \in Thread : u # t => call'[u] = call[u]
      BY <1>1, <2>1 DEF MultiTypeOK
    <2>5. MultiTypeOK'
      BY <1>1, <2>1, <2>3 DEF MultiTypeOK
    <2>6. InvStages'
      <3> SUFFICES ASSUME NEW u \in Thread
                   PROVE  /\ call'[u] = NoCall => \A i \in Index : task'[u][i].stage = "none"
                          /\ call'[u].stage = "launch" =>
                               \E n \in 0 .. Size - 1 : \A i \in Index : task'[u][i].stage # "none" <=> i <= n
                          /\ \A k \in 1 .. call'[u].joined : task'[u][k].stage = "done"
        BY DEF InvStages
      <3>1. CASE u # t
        BY <1>1, <2>4, <3>1 DEF InvStages
      <3>2. CASE u = t
        <4>1. c.stage = "launch" /\ c.joined = 0
          OBVIOUS
        <4>2. \A i \in Index : task[t][i].stage # "none" <=> i <= 0
          BY <1>2 DEF Index
        <4>3. 0 \in 0 .. Size - 1
          BY SizeAssumption
        <4>4. call'[u] # NoCall
          BY <2>4, <3>2 DEF NoCall
        <4> HIDE DEF c
        <4> QED BY <1>1, <2>4, <3>2, <4>1, <4>2, <4>3, <4>4
      <3> QED BY <3>1, <3>2
    <2>7. InvQueues'
      BY <1>1, <1>2, <2>4 DEF InvQueues
    <2>8. InvResults'
      BY <1>1, <2>1 DEF InvResults, IsResult, NoResult, MultiTypeOK
    <2> QED BY <1>3, <2>5, <2>6, <2>7, <2>8 DEF MultiIInv
  <1>5. CASE Len(messages) # Size
    <2>1. UNCHANGED call /\ result' = [result EXCEPT ![t] = [NoResult EXCEPT !.status = "invalid"]]
      BY <1>5 DEF Execute
    <2>2. MultiTypeOK'
      BY <1>1, <2>1 DEF MultiTypeOK
    <2>3. InvStages' /\ InvQueues'
      BY <1>1, <2>1 DEF InvStages, InvQueues
    <2>4. InvResults'
      BY <1>1, <2>1 DEF InvResults, IsResult, NoResult, MultiTypeOK
    <2> QED BY <1>3, <2>2, <2>3, <2>4 DEF MultiIInv
  <1> QED BY <1>4, <1>5

LEMMA LaunchStep ==
  ASSUME MultiIInv, NEW t \in Thread, Launch(t)
  PROVE  MultiIInv'
  <1>1. /\ MultiTypeOK /\ InvStages /\ InvLocked /\ InvQueues /\ InvResults
        /\ call[t].stage = "launch" /\ UNCHANGED <<connection, result, calls>>
    BY DEF MultiIInv, Launch
  <1>2. PICK n \in 0 .. Size - 1 : \A i \in Index : task[t][i].stage # "none" <=> i <= n
    BY <1>1 DEF InvStages
  <1> DEFINE i == n + 1
             launched == {k \in Index : task[t][k].stage # "none"}
  <1>3. Cardinality(launched) + 1 = i /\ i \in Index
    <2>1. launched = 1 .. n
      BY <1>2, SizeAssumption DEF Index
    <2>2. Cardinality(1 .. n) = n
      BY FS_Interval
    <2>3. Cardinality(launched) = n
      BY <2>1, <2>2
    <2>4. n + 1 \in Index
      BY SizeAssumption DEF Index
    <2> QED BY <2>3, <2>4
  <1>4. /\ task' = [task EXCEPT ![t][i].stage = "lock"]
        /\ call' = [call EXCEPT ![t].stage = IF i = Size THEN "join" ELSE @]
    BY <1>3 DEF Launch
  <1>5. task[t][i].stage = "none"
    BY <1>2, <1>3 DEF Index
  <1> HIDE DEF i, launched
  <1>6. /\ task'[t][i] = [task[t][i] EXCEPT !.stage = "lock"]
        /\ \A u \in Thread, j \in Index : u # t \/ j # i => task'[u][j] = task[u][j]
    BY <1>1, <1>3, <1>4 DEF MultiTypeOK
  <1>7. task'[t][i].stage = "lock"
    BY <1>1, <1>3, <1>6 DEF MultiTypeOK, Tasks
  <1>8. call[t] \in Running
    BY <1>1 DEF MultiTypeOK, NoCall
  <1>9. /\ call'[t] = [call[t] EXCEPT !.stage = IF i = Size THEN "join" ELSE "launch"]
        /\ \A u \in Thread : u # t => call'[u] = call[u]
    BY <1>1, <1>4 DEF MultiTypeOK
  <1>10. /\ call'[t] \in Running /\ call'[t].messages = call[t].messages /\ call'[t].joined = call[t].joined
         /\ call'[t].stage = IF i = Size THEN "join" ELSE "launch"
    BY <1>8, <1>9 DEF Running
  <1>11. MultiTypeOK'
    <2>1. task' \in [Thread -> [Index -> Tasks]]
      <3>1. [task[t][i] EXCEPT !.stage = "lock"] \in Tasks
        <4>1. task[t][i] \in Tasks
          BY <1>1, <1>3 DEF MultiTypeOK
        <4> QED BY <4>1 DEF Tasks
      <3> QED BY <1>1, <1>3, <1>4, <3>1 DEF MultiTypeOK
    <2>2. call' \in [Thread -> {NoCall} \cup Running]
      BY <1>1, <1>4, <1>9, <1>10 DEF MultiTypeOK
    <2> QED BY <1>1, <2>1, <2>2 DEF MultiTypeOK
  <1>12. InvStages'
    <2> SUFFICES ASSUME NEW u \in Thread
                 PROVE  /\ call'[u] = NoCall => \A j \in Index : task'[u][j].stage = "none"
                        /\ call'[u].stage = "launch" =>
                             \E m \in 0 .. Size - 1 : \A j \in Index : task'[u][j].stage # "none" <=> j <= m
                        /\ \A k \in 1 .. call'[u].joined : task'[u][k].stage = "done"
      BY DEF InvStages
    <2>1. CASE u # t
      <3>1. call'[u].joined \in 0 .. Size
        <4>1. call'[u] \in {NoCall} \cup Running
          BY <1>11 DEF MultiTypeOK
        <4>2. NoCall.joined = 0
          BY DEF NoCall
        <4>3. \A c \in Running : c.joined \in 0 .. Size
          BY DEF Running
        <4> QED BY <4>1, <4>2, <4>3, SizeAssumption
      <3>2. \A k \in 1 .. call'[u].joined : k \in Index
        BY <3>1, SizeAssumption DEF Index
      <3> QED BY <1>1, <1>6, <1>9, <2>1, <3>2 DEF InvStages
    <2>2. CASE u = t
      <3>1. call'[t] # NoCall
        BY <1>10 DEF NoCall, Running
      <3>2. ASSUME call'[t].stage = "launch"
            PROVE  i \in 0 .. Size - 1 /\ \A j \in Index : task'[t][j].stage # "none" <=> j <= i
        <4>1. i # Size
          BY <1>10, <3>2
        <4>2. i \in 0 .. Size - 1
          BY <1>3, <4>1, SizeAssumption DEF Index
        <4>3. \A j \in Index : task'[t][j].stage # "none" <=> j <= i
          <5> SUFFICES ASSUME NEW j \in Index PROVE task'[t][j].stage # "none" <=> j <= i
            OBVIOUS
          <5>1. CASE j = i
            BY <1>3, <1>7, <5>1 DEF Index
          <5>2. CASE j # i
            <6>1. task[t][j].stage # "none" <=> j <= n
              BY <1>2
            <6>2. task'[t][j] = task[t][j]
              BY <1>6, <5>2
            <6>3. j <= n <=> j <= i
              BY <5>2, SizeAssumption DEF i, Index
            <6> QED BY <6>1, <6>2, <6>3
          <5> QED BY <5>1, <5>2
        <4> QED BY <4>2, <4>3
      <3>3. ASSUME NEW k \in 1 .. call'[t].joined PROVE task'[t][k].stage = "done"
        <4>1. task[t][k].stage = "done" /\ k \in Index
          BY <1>1, <1>8, <1>10, SizeAssumption DEF InvStages, Running, Index
        <4> QED BY <1>5, <1>6, <4>1
      <3> QED BY <2>2, <3>1, <3>2, <3>3
    <2> QED BY <2>1, <2>2
  <1>13. InvLocked'
    BY <1>1, <1>5, <1>6, <1>7 DEF InvLocked
  <1>14. InvQueues'
    <2>1. \A u \in Thread : call'[u].messages = call[u].messages
      BY <1>9, <1>10
    <2>2. \A u \in Thread : \A j \in Index : task'[u][j].stage # "lock" =>
             task'[u][j] = task[u][j] /\ Answers(call'[u].messages[j]) = Answers(call[u].messages[j])
      BY <1>6, <1>7, <2>1
    <2> QED BY <1>1, <2>2 DEF InvQueues
  <1>15. InvResults'
    BY <1>1 DEF InvResults
  <1> QED BY <1>11, <1>12, <1>13, <1>14, <1>15 DEF MultiIInv

(* The steps of a task on a connection: the task changes, and nothing else  *)
(* of the calls.                                                            *)
Works(t, i, x, c) ==
  /\ task' = [task EXCEPT ![t][i] = x] /\ connection' = [connection EXCEPT ![i] = c]
  /\ UNCHANGED <<call, result, calls>>

LEMMA WorkStep ==
  ASSUME MultiIInv, NEW t \in Thread, NEW i \in Index, NEW x \in Tasks, NEW c \in Connections,
         task[t][i].stage \in {"lock", "run", "receive"}, x.stage # "none",
         Works(t, i, x, c)
  PROVE  /\ MultiTypeOK' /\ InvStages' /\ InvResults'
         /\ task'[t][i] = x /\ \A u \in Thread, j \in Index : u # t \/ j # i => task'[u][j] = task[u][j]
         /\ connection'[i] = c /\ \A j \in Index : j # i => connection'[j] = connection[j]
  <1>1. /\ MultiTypeOK /\ InvStages /\ InvResults
        /\ task' = [task EXCEPT ![t][i] = x] /\ connection' = [connection EXCEPT ![i] = c]
        /\ UNCHANGED <<call, result, calls>>
    BY DEF MultiIInv, Works
  <1>2. /\ task' \in [Thread -> [Index -> Tasks]]
        /\ task'[t][i] = x /\ \A u \in Thread, j \in Index : u # t \/ j # i => task'[u][j] = task[u][j]
    BY <1>1 DEF MultiTypeOK
  <1>3. /\ connection' \in [Index -> Connections]
        /\ connection'[i] = c /\ \A j \in Index : j # i => connection'[j] = connection[j]
    BY <1>1 DEF MultiTypeOK
  <1>4. MultiTypeOK'
    BY <1>1, <1>2, <1>3 DEF MultiTypeOK
  <1>5. InvResults'
    BY <1>1 DEF InvResults
  <1>6. \A u \in Thread : \A j \in Index : task'[u][j].stage # "none" <=> task[u][j].stage # "none"
    BY <1>2
  <1>7. \A u \in Thread : \A j \in Index : task[u][j].stage = "done" => task'[u][j].stage = "done"
    BY <1>2
  <1>8. InvStages'
    <2> SUFFICES ASSUME NEW u \in Thread
                 PROVE  /\ call[u] = NoCall => \A j \in Index : task'[u][j].stage = "none"
                        /\ call[u].stage = "launch" =>
                             \E n \in 0 .. Size - 1 : \A j \in Index : task'[u][j].stage # "none" <=> j <= n
                        /\ \A k \in 1 .. call[u].joined : task'[u][k].stage = "done"
      BY <1>1 DEF InvStages
    <2>1. call[u] = NoCall => \A j \in Index : task'[u][j].stage = "none"
      BY <1>1, <1>6 DEF InvStages
    <2>2. ASSUME call[u].stage = "launch"
          PROVE  \E n \in 0 .. Size - 1 : \A j \in Index : task'[u][j].stage # "none" <=> j <= n
      <3>1. PICK n \in 0 .. Size - 1 : \A j \in Index : task[u][j].stage # "none" <=> j <= n
        BY <1>1, <2>2 DEF InvStages
      <3> QED BY <1>6, <3>1
    <2>3. ASSUME NEW k \in 1 .. call[u].joined PROVE task'[u][k].stage = "done"
      <3>1. call[u] = NoCall => call[u].joined = 0
        BY DEF NoCall
      <3>2. call[u] \in Running => call[u].joined \in 0 .. Size
        BY DEF Running
      <3>3. k \in Index
        BY <1>1, <3>1, <3>2, SizeAssumption DEF MultiTypeOK, Index
      <3> QED BY <1>1, <1>7, <3>3 DEF InvStages
    <2> QED BY <2>1, <2>2, <2>3
  <1> QED BY <1>2, <1>3, <1>4, <1>5, <1>8

(* A task adds to a connection that nobody else uses.                       *)
LEMMA LockAndAddStep ==
  ASSUME MultiIInv, NEW t \in Thread, NEW i \in Index, LockAndAdd(t, i)
  PROVE  MultiIInv'
  <1> DEFINE halted == Append(call[t].messages[i], Halt)
             answers == Answers(call[t].messages[i])
             x == [task[t][i] EXCEPT !.stage = "run", !.clean = connection[i].clean]
             c == [Add(connection[i], halted) EXCEPT !.m_mutex = <<t>>]
             halts == connection[i].m_halt \/ \E k \in DOMAIN halted : IsHalt(halted[k])
  <1>1. /\ MultiTypeOK /\ InvStages /\ InvLocked /\ InvQueues
        /\ task[t][i].stage = "lock" /\ connection[i].m_mutex = Free
    BY DEF MultiIInv, LockAndAdd
  <1>2. task[t][i] \in Tasks /\ connection[i] \in Connections
    BY <1>1 DEF MultiTypeOK
  <1>3. answers \in Seq(Messages)
    BY <1>1, ItsMessages, AnswersType
  <1>4. /\ x \in Tasks /\ x.stage = "run" /\ x.clean = connection[i].clean
    BY <1>2 DEF Tasks, Connections
  <1>5. c = [[connection[i] EXCEPT !.m_receive_queue = connection[i].m_receive_queue \o answers, !.m_halt = halts]
               EXCEPT !.m_mutex = <<t>>]
    BY DEF Add, Answers, AnswersTo
  <1>6. halts \in BOOLEAN
    OBVIOUS
  <1>7. connection[i].m_receive_queue \o answers \in Seq(Messages)
    BY <1>2, <1>3, ConcatProperties DEF Connections
  <1> HIDE DEF answers, halts
  <1>8. c \in Connections /\ c.m_mutex = <<t>> /\ c.clean = connection[i].clean
        /\ c.m_receive_queue = connection[i].m_receive_queue \o answers
    BY <1>2, <1>5, <1>7, <1>6 DEF Connections
  <1>9. Works(t, i, x, c)
    BY DEF Works, LockAndAdd, Halt
  <1> HIDE DEF x, c
  <1>10. /\ MultiTypeOK' /\ InvStages' /\ InvResults'
         /\ task'[t][i] = x /\ \A u \in Thread, j \in Index : u # t \/ j # i => task'[u][j] = task[u][j]
         /\ connection'[i] = c /\ \A j \in Index : j # i => connection'[j] = connection[j]
    BY <1>1, <1>4, <1>8, <1>9, WorkStep
  <1>11. task'[t][i] = x /\ connection'[i] = c
    BY <1>10
  <1>12. connection'[i].m_mutex = <<t>>
    BY <1>8, <1>11
  <1>13. \A u \in Thread : task[u][i].stage \notin {"run", "receive"}
    BY <1>1 DEF InvLocked, Free
  <1>14. InvLocked'
    <2> SUFFICES ASSUME NEW u \in Thread, NEW j \in Index
                 PROVE  connection'[j].m_mutex = <<u>> <=> task'[u][j].stage \in {"run", "receive"}
      BY DEF InvLocked
    <2>1. CASE j # i
      BY <1>1, <1>10, <2>1 DEF InvLocked
    <2>2. CASE j = i /\ u = t
      <3>1. connection'[j].m_mutex = <<u>>
        BY <1>12, <2>2
      <3>2. task'[u][j].stage = "run"
        BY <1>4, <1>11, <2>2
      <3> QED BY <3>1, <3>2
    <2>3. CASE j = i /\ u # t
      <3>1. connection'[j].m_mutex = <<t>> /\ <<t>> # <<u>>
        BY <1>12, <2>3
      <3>2. task'[u][j] = task[u][j]
        BY <1>10, <2>3
      <3> QED BY <1>13, <2>3, <3>1, <3>2
    <2> QED BY <2>1, <2>2, <2>3
  <1>15. InvQueues'
    <2>1. \A j \in Index : connection'[j].m_mutex = Free /\ connection'[j].clean => connection'[j].m_receive_queue = <<>>
      <3> SUFFICES ASSUME NEW j \in Index, connection'[j].m_mutex = Free, connection'[j].clean
                   PROVE  connection'[j].m_receive_queue = <<>>
        OBVIOUS
      <3>1. <<t>> # Free
        BY DEF Free
      <3>2. j # i
        BY <1>12, <3>1
      <3> QED BY <1>1, <1>10, <3>2 DEF InvQueues
    <2>2. x.clean => c.m_receive_queue = answers
      <3> SUFFICES ASSUME x.clean PROVE c.m_receive_queue = answers
        OBVIOUS
      <3>1. connection[i].m_receive_queue = <<>>
        BY <1>1, <1>4 DEF InvQueues
      <3> QED BY <1>3, <1>8, <3>1, ConcatEmptySeq
    <2>3. UNCHANGED call
      BY DEF LockAndAdd
    <2>4. ASSUME NEW u \in Thread, NEW j \in Index, task'[u][j].clean
          PROVE  /\ task'[u][j].stage \in {"run", "receive"} =>
                      connection'[j].m_receive_queue = Answers(call'[u].messages[j])
                 /\ task'[u][j].stage = "done" => task'[u][j].responses = Answers(call'[u].messages[j])
      <3>1. CASE u = t /\ j = i
        <4>1. task'[u][j] = x /\ connection'[j] = c
          BY <1>11, <3>1
        <4>2. Answers(call'[u].messages[j]) = answers
          BY <2>3, <3>1 DEF answers
        <4> QED BY <1>4, <2>2, <2>4, <4>1, <4>2
      <3>2. CASE ~(u = t /\ j = i)
        <4>1. task'[u][j] = task[u][j]
          BY <1>10, <3>2
        <4>2. CASE j = i
          BY <1>1, <1>13, <2>3, <2>4, <4>1, <4>2 DEF InvQueues
        <4>3. CASE j # i
          BY <1>1, <1>10, <2>3, <2>4, <4>1, <4>3 DEF InvQueues
        <4> QED BY <4>2, <4>3
      <3> QED BY <3>1, <3>2
    <2> QED BY <2>1, <2>4 DEF InvQueues
  <1> QED BY <1>10, <1>14, <1>15 DEF MultiIInv

(* What a task does with the connection it has locked leaves the others     *)
(* alone.                                                                   *)
LEMMA LockedStep ==
  ASSUME MultiIInv, NEW t \in Thread, NEW i \in Index, NEW x \in Tasks, NEW c \in Connections,
         task[t][i].stage \in {"run", "receive"},
         IF x.stage = "receive" THEN c.m_mutex = <<t>>
         ELSE x.stage \in {"done", "failed"} /\ c.m_mutex = Free /\ (c.clean => c.m_receive_queue = <<>>),
         x.clean => /\ x.stage = "receive" => c.m_receive_queue = Answers(call[t].messages[i])
                    /\ x.stage = "done" => x.responses = Answers(call[t].messages[i]),
         Works(t, i, x, c)
  PROVE  MultiIInv'
  <1>1. MultiTypeOK /\ InvLocked /\ InvQueues
    BY DEF MultiIInv
  <1>2. /\ MultiTypeOK' /\ InvStages' /\ InvResults'
        /\ task'[t][i] = x /\ \A u \in Thread, j \in Index : u # t \/ j # i => task'[u][j] = task[u][j]
        /\ connection'[i] = c /\ \A j \in Index : j # i => connection'[j] = connection[j]
    BY WorkStep
  <1>3. \A u \in Thread : u # t => task[u][i].stage \notin {"run", "receive"}
    BY <1>1 DEF InvLocked
  <1>4. InvLocked'
    <2> SUFFICES ASSUME NEW u \in Thread, NEW j \in Index
                 PROVE  connection'[j].m_mutex = <<u>> <=> task'[u][j].stage \in {"run", "receive"}
      BY DEF InvLocked
    <2>1. CASE j # i
      BY <1>1, <1>2, <2>1 DEF InvLocked
    <2>2. CASE j = i /\ u = t
      BY <1>2, <2>2 DEF Free
    <2>3. CASE j = i /\ u # t
      BY <1>2, <1>3, <2>3 DEF Free
    <2> QED BY <2>1, <2>2, <2>3
  <1>5. InvQueues'
    <2>1. \A j \in Index : connection'[j].m_mutex = Free /\ connection'[j].clean => connection'[j].m_receive_queue = <<>>
      BY <1>1, <1>2 DEF InvQueues, Free
    <2>2. UNCHANGED call
      BY DEF Works
    <2>3. ASSUME NEW u \in Thread, NEW j \in Index, task'[u][j].clean
          PROVE  /\ task'[u][j].stage \in {"run", "receive"} =>
                      connection'[j].m_receive_queue = Answers(call'[u].messages[j])
                 /\ task'[u][j].stage = "done" => task'[u][j].responses = Answers(call'[u].messages[j])
      <3>1. CASE u = t /\ j = i
        BY <1>2, <2>2, <2>3, <3>1
      <3>2. CASE ~(u = t /\ j = i)
        <4>1. task'[u][j] = task[u][j]
          BY <1>2, <3>2
        <4>2. CASE j = i
          BY <1>1, <1>3, <2>2, <2>3, <3>2, <4>1, <4>2 DEF InvQueues
        <4>3. CASE j # i
          BY <1>1, <1>2, <2>2, <2>3, <4>1, <4>3 DEF InvQueues
        <4> QED BY <4>2, <4>3
      <3> QED BY <3>1, <3>2
    <2> QED BY <2>1, <2>3 DEF InvQueues
  <1> QED BY <1>2, <1>4, <1>5 DEF MultiIInv

LEMMA RunStep ==
  ASSUME MultiIInv, NEW t \in Thread, NEW i \in Index, Run(t, i)
  PROVE  MultiIInv'
  <1>1. /\ MultiTypeOK /\ InvLocked /\ InvQueues /\ task[t][i].stage = "run"
        /\ connection[i].m_mutex = <<t>>
    BY DEF MultiIInv, Run, InvLocked
  <1>2. task[t][i] \in Tasks /\ connection[i] \in Connections
    BY <1>1 DEF MultiTypeOK
  <1>3. CASE /\ connection' = [connection EXCEPT ![i] = RunUntilHalt(@)]
             /\ task' = [task EXCEPT ![t][i].stage = "receive"]
             /\ UNCHANGED <<call, result, calls>>
    <2> DEFINE x == [task[t][i] EXCEPT !.stage = "receive"]
               c == [connection[i] EXCEPT !.m_halt = FALSE]
    <2>1. /\ x \in Tasks /\ x.stage = "receive" /\ x.clean = task[t][i].clean
          /\ c \in Connections /\ c.m_mutex = <<t>> /\ c.m_receive_queue = connection[i].m_receive_queue
      BY <1>1, <1>2 DEF Tasks, Connections
    <2>2. Works(t, i, x, c)
      BY <1>1, <1>3 DEF Works, RunUntilHalt, MultiTypeOK
    <2> HIDE DEF x, c
    <2>3. x.clean => c.m_receive_queue = Answers(call[t].messages[i])
      BY <1>1, <2>1 DEF InvQueues
    <2> QED BY <1>1, <2>1, <2>2, <2>3, LockedStep
  <1>4. CASE /\ connection' = [connection EXCEPT ![i] = [@ EXCEPT !.m_mutex = Free, !.clean = FALSE]]
             /\ task' = [task EXCEPT ![t][i].stage = "failed"]
             /\ UNCHANGED <<call, result, calls>>
    <2> DEFINE x == [task[t][i] EXCEPT !.stage = "failed"]
               c == [connection[i] EXCEPT !.m_mutex = Free, !.clean = FALSE]
    <2>1. x \in Tasks /\ x.stage = "failed" /\ c \in Connections /\ c.m_mutex = Free /\ c.clean = FALSE
      BY <1>2 DEF Tasks, Connections
    <2>2. Works(t, i, x, c)
      BY <1>1, <1>4 DEF Works, MultiTypeOK
    <2> HIDE DEF x, c
    <2> QED BY <1>1, <2>1, <2>2, LockedStep
  <1> QED BY <1>3, <1>4 DEF Run

LEMMA ReceiveAndUnlockStep ==
  ASSUME MultiIInv, NEW t \in Thread, NEW i \in Index, ReceiveAndUnlock(t, i)
  PROVE  MultiIInv'
  <1>1. MultiTypeOK /\ InvLocked /\ InvQueues /\ task[t][i].stage = "receive"
    BY DEF MultiIInv, ReceiveAndUnlock
  <1>2. task[t][i] \in Tasks /\ connection[i] \in Connections
    BY <1>1 DEF MultiTypeOK
  <1> DEFINE x == [task[t][i] EXCEPT !.stage = "done", !.responses = connection[i].m_receive_queue]
             c == [ReceiveAll(connection[i]) EXCEPT !.m_mutex = Free]
  <1>3. /\ x \in Tasks /\ x.stage = "done" /\ x.clean = task[t][i].clean
        /\ x.responses = connection[i].m_receive_queue
    BY <1>2 DEF Tasks, Connections
  <1>4. c \in Connections /\ c.m_mutex = Free /\ c.m_receive_queue = <<>>
    BY <1>2, EmptySeq DEF Connections, ReceiveAll
  <1>5. Works(t, i, x, c)
    BY DEF Works, ReceiveAndUnlock
  <1> HIDE DEF x, c
  <1>6. x.clean => x.responses = Answers(call[t].messages[i])
    BY <1>1, <1>3 DEF InvQueues
  <1> QED BY <1>1, <1>3, <1>4, <1>5, <1>6, LockedStep

LEMMA ReturnStep ==
  ASSUME MultiIInv, NEW t \in Thread, NEW status, NEW value, Return(t, status, value),
         UNCHANGED connection,
         \A i \in Index : task[t][i].stage \in {"done", "failed"},
         IsResult([messages |-> call[t].messages, snapshot |-> call[t].snapshot, status |-> status,
                   value |-> value, clean |-> \A i \in Index : task[t][i].clean])
  PROVE  MultiIInv'
  <1> DEFINE r == [messages |-> call[t].messages, snapshot |-> call[t].snapshot, status |-> status,
                   value |-> value, clean |-> \A i \in Index : task[t][i].clean]
  <1>1. IsResult(r)
    OBVIOUS
  <1>2. /\ MultiTypeOK /\ InvStages /\ InvLocked /\ InvQueues /\ InvResults
        /\ result' = [result EXCEPT ![t] = r] /\ call' = [call EXCEPT ![t] = NoCall]
        /\ task' = [task EXCEPT ![t] = [i \in Index |-> NoTask]]
    BY DEF MultiIInv, Return
  <1> HIDE DEF r
  <1>3. [i \in Index |-> NoTask] \in [Index -> Tasks]
    BY EmptySeq DEF NoTask, Tasks
  <1>4. /\ \A i \in Index : task'[t][i] = NoTask
        /\ \A u \in Thread : u # t => task'[u] = task[u]
        /\ call'[t] = NoCall /\ \A u \in Thread : u # t => call'[u] = call[u]
    BY <1>2 DEF MultiTypeOK
  <1>5. MultiTypeOK'
    BY <1>2, <1>3 DEF MultiTypeOK
  <1>6. InvStages'
    <2> SUFFICES ASSUME NEW u \in Thread
                 PROVE  /\ call'[u] = NoCall => \A i \in Index : task'[u][i].stage = "none"
                        /\ call'[u].stage = "launch" =>
                             \E n \in 0 .. Size - 1 : \A i \in Index : task'[u][i].stage # "none" <=> i <= n
                        /\ \A k \in 1 .. call'[u].joined : task'[u][k].stage = "done"
      BY DEF InvStages
    <2>1. CASE u = t
      BY <1>4, <2>1 DEF NoCall, NoTask
    <2>2. CASE u # t
      BY <1>2, <1>4, <2>2 DEF InvStages
    <2> QED BY <2>1, <2>2
  <1>7. InvLocked'
    BY <1>2, <1>4 DEF InvLocked, NoTask
  <1>8. InvQueues'
    <2>1. \A i \in Index : connection'[i].m_mutex = Free /\ connection'[i].clean => connection'[i].m_receive_queue = <<>>
      BY <1>2 DEF InvQueues
    <2>2. ASSUME NEW u \in Thread, NEW i \in Index, task'[u][i].clean
          PROVE  /\ task'[u][i].stage \in {"run", "receive"} =>
                      connection'[i].m_receive_queue = Answers(call'[u].messages[i])
                 /\ task'[u][i].stage = "done" => task'[u][i].responses = Answers(call'[u].messages[i])
      <3>1. CASE u = t
        BY <1>4, <3>1 DEF NoTask
      <3>2. CASE u # t
        BY <1>2, <1>4, <2>2, <3>2 DEF InvQueues
      <3> QED BY <3>1, <3>2
    <2> QED BY <2>1, <2>2 DEF InvQueues
  <1>9. InvResults'
    <2>1. result'[t] = r /\ \A u \in Thread : u # t => result'[u] = result[u]
      BY <1>2 DEF MultiTypeOK
    <2> QED BY <1>1, <1>2, <2>1 DEF InvResults
  <1> QED BY <1>5, <1>6, <1>7, <1>8, <1>9 DEF MultiIInv

LEMMA FailedResult ==
  ASSUME NEW messages, NEW snapshot, NEW value, NEW clean
  PROVE  IsResult([messages |-> messages, snapshot |-> snapshot, status |-> "failed", value |-> value, clean |-> clean])
  BY DEF IsResult

(* The futures are waited for from the first to the last.                   *)
LEMMA JoinStep ==
  ASSUME MultiIInv, NEW t \in Thread, call[t].stage = "join", UNCHANGED <<connection, task, result, calls>>,
         \/ /\ call[t].joined < Size /\ task[t][call[t].joined + 1].stage = "done"
            /\ call' = [call EXCEPT ![t].joined = call[t].joined + 1]
         \/ call' = [call EXCEPT ![t].stage = "destroy"]
  PROVE  MultiIInv'
  <1>1. MultiTypeOK /\ InvStages /\ InvLocked /\ InvQueues /\ InvResults
    BY DEF MultiIInv
  <1>2. call[t] \in Running /\ call[t].joined \in 0 .. Size
    BY <1>1 DEF MultiTypeOK, NoCall, Running
  <1>3. /\ call'[t] \in Running /\ call'[t].stage \in {"join", "destroy"} /\ call'[t].messages = call[t].messages
        /\ \/ call'[t].joined = call[t].joined
           \/ call'[t].joined = call[t].joined + 1 /\ task[t][call[t].joined + 1].stage = "done"
        /\ \A u \in Thread : u # t => call'[u] = call[u]
    <2>1. CASE /\ call[t].joined < Size /\ task[t][call[t].joined + 1].stage = "done"
               /\ call' = [call EXCEPT ![t].joined = call[t].joined + 1]
      <3>1. call[t].joined + 1 \in 0 .. Size
        BY <1>2, <2>1, SizeAssumption
      <3>2. call'[t] = [call[t] EXCEPT !.joined = call[t].joined + 1]
        BY <1>1, <2>1 DEF MultiTypeOK
      <3> QED BY <1>1, <1>2, <2>1, <3>1, <3>2 DEF MultiTypeOK, Running
    <2>2. CASE call' = [call EXCEPT ![t].stage = "destroy"]
      BY <1>1, <1>2, <2>2 DEF MultiTypeOK, Running
    <2> QED BY <2>1, <2>2
  <1>4. MultiTypeOK'
    <2>1. call' = [u \in Thread |-> call'[u]]
      BY <1>1 DEF MultiTypeOK
    <2>2. \A u \in Thread : call'[u] \in {NoCall} \cup Running
      BY <1>1, <1>3 DEF MultiTypeOK
    <2>3. call' \in [Thread -> {NoCall} \cup Running]
      BY <2>1, <2>2
    <2> QED BY <1>1, <2>3 DEF MultiTypeOK
  <1>5. InvStages'
    <2> SUFFICES ASSUME NEW u \in Thread
                 PROVE  /\ call'[u] = NoCall => \A i \in Index : task[u][i].stage = "none"
                        /\ call'[u].stage = "launch" =>
                             \E n \in 0 .. Size - 1 : \A i \in Index : task[u][i].stage # "none" <=> i <= n
                        /\ \A k \in 1 .. call'[u].joined : task[u][k].stage = "done"
      BY DEF InvStages
    <2>1. CASE u = t
      <3>1. call'[t] # NoCall /\ call'[t].stage # "launch"
        BY <1>3 DEF NoCall
      <3>2. ASSUME NEW k \in 1 .. call'[t].joined PROVE task[t][k].stage = "done"
        BY <1>1, <1>2, <1>3 DEF InvStages
      <3> QED BY <2>1, <3>1, <3>2
    <2>2. CASE u # t
      BY <1>1, <1>3, <2>2 DEF InvStages
    <2> QED BY <2>1, <2>2
  <1>6. InvLocked' /\ InvResults'
    BY <1>1 DEF InvLocked, InvResults
  <1>7. InvQueues'
    <2>1. \A u \in Thread : \A i \in Index : Answers(call'[u].messages[i]) = Answers(call[u].messages[i])
      BY <1>3
    <2> QED BY <1>1, <2>1 DEF InvQueues
  <1> QED BY <1>4, <1>5, <1>6, <1>7 DEF MultiIInv

LEMMA GetStep ==
  ASSUME MultiIInv, NEW t \in Thread, Get(t)
  PROVE  MultiIInv'
  <1> DEFINE collected == [k \in Index |-> task[t][k].responses]
             messages == call[t].messages
             answers == [k \in Index |-> Answers(messages[k])]
  <1>1. /\ MultiTypeOK /\ InvStages /\ InvQueues /\ call[t].stage = "join" /\ UNCHANGED <<connection, calls>>
    BY DEF MultiIInv, Get
  <1>2. call[t] \in Running
    BY <1>1 DEF MultiTypeOK, NoCall
  <1>3. CASE /\ UNCHANGED <<task, result>>
             /\ \/ /\ call[t].joined < Size /\ task[t][call[t].joined + 1].stage = "done"
                   /\ call' = [call EXCEPT ![t].joined = call[t].joined + 1]
                \/ call' = [call EXCEPT ![t].stage = "destroy"]
    BY <1>1, <1>3, JoinStep
  <1>4. ASSUME call[t].joined = Size
        PROVE  /\ \A i \in Index : task[t][i].stage = "done"
               /\ (\A i \in Index : task[t][i].clean) => collected = answers
    <2>1. \A i \in Index : task[t][i].stage = "done"
      BY <1>1, <1>4 DEF InvStages, Index
    <2>2. ASSUME \A i \in Index : task[t][i].clean
          PROVE  collected = answers
      BY <1>1, <2>1, <2>2 DEF InvQueues
    <2> QED BY <2>1, <2>2
  <1>5. messages \in [Index -> Program]
    BY <1>2 DEF Running
  <1> HIDE DEF collected
  <1>6. CASE call[t].joined = Size /\ ~call[t].snapshot /\ Return(t, "ok", collected)
    <2> DEFINE r == [messages |-> call[t].messages, snapshot |-> call[t].snapshot, status |-> "ok",
                     value |-> collected, clean |-> \A i \in Index : task[t][i].clean]
    <2>1. IsResult(r)
      BY <1>4, <1>5, <1>6 DEF IsResult
    <2> QED BY <1>1, <1>4, <1>6, <2>1, ReturnStep
  <1>7. CASE /\ call[t].joined = Size /\ call[t].snapshot /\ Enough(collected, messages)
             /\ Return(t, "ok", Transform(collected, messages))
    <2> DEFINE r == [messages |-> call[t].messages, snapshot |-> call[t].snapshot, status |-> "ok",
                     value |-> Transform(collected, messages), clean |-> \A i \in Index : task[t][i].clean]
    <2>1. IsResult(r)
      BY <1>4, <1>5, <1>7 DEF IsResult
    <2> QED BY <1>1, <1>4, <1>7, <2>1, ReturnStep
  <1>8. CASE call[t].joined = Size /\ Return(t, "failed", <<>>)
    BY <1>1, <1>4, <1>8, FailedResult, ReturnStep
  <1> QED BY <1>3, <1>6, <1>7, <1>8 DEF Get, collected

LEMMA DestroyStep ==
  ASSUME MultiIInv, NEW t \in Thread, Destroy(t)
  PROVE  MultiIInv'
  BY FailedResult, ReturnStep DEF Destroy

LEMMA MultiStep ==
  ASSUME MultiIInv, [MultiNext]_multiVars
  PROVE  MultiIInv'
  <1>1. CASE UNCHANGED multiVars
    BY <1>1 DEF multiVars, MultiIInv, MultiTypeOK, InvStages, InvLocked, InvQueues, InvResults
  <1>2. ASSUME NEW t \in Thread, NEW messages \in Calls, NEW snapshot \in BOOLEAN, Execute(t, messages, snapshot)
        PROVE  MultiIInv'
    BY <1>2, ExecuteStep
  <1>3. ASSUME NEW t \in Thread, Launch(t) \/ Get(t) \/ Destroy(t)
        PROVE  MultiIInv'
    BY <1>3, LaunchStep, GetStep, DestroyStep
  <1>4. ASSUME NEW t \in Thread, NEW i \in Index, LockAndAdd(t, i) \/ Run(t, i) \/ ReceiveAndUnlock(t, i)
        PROVE  MultiIInv'
    BY <1>4, LockAndAddStep, RunStep, ReceiveAndUnlockStep
  <1> QED BY <1>1, <1>2, <1>3, <1>4 DEF MultiNext

(* Executions on the connections of a MultiConnection are serialised, and   *)
(* what a call returns are the answers to its own messages.                 *)
THEOREM MultiInvariance == MultiSpec => []MultiIInv
  <1>1. MultiInit => MultiIInv
    BY MultiInitial
  <1>2. MultiIInv /\ [MultiNext]_multiVars => MultiIInv'
    BY MultiStep
  <1> QED BY <1>1, <1>2, PTL DEF MultiSpec

(* The layouts of the instructions that ask for an answer.                  *)
LEMMA Layouts ==
  /\ "omnibus_to_fpga::Address" \in DOMAIN Dictionary /\ Dictionary["omnibus_to_fpga::Address"] = OmnibusAddress
  /\ "to_fpga_jtag::Data" \in DOMAIN Dictionary /\ Dictionary["to_fpga_jtag::Data"] = JTAGData
  <1> DEFINE entries == ToFPGADictionary \cup FromFPGADictionary
             layout(instruction) == (CHOOSE e \in entries : e[1] = instruction)[2]
  <1>1. Dictionary = [instruction \in {e[1] : e \in entries} |-> layout(instruction)]
    BY DEF Dictionary
  <1>2. /\ <<"omnibus_to_fpga::Address", OmnibusAddress>> \in entries
        /\ <<"to_fpga_jtag::Data", JTAGData>> \in entries
    BY DEF ToFPGADictionary, OmnibusToFPGA, ToFPGAJTAG
  <1>3. ASSUME NEW e \in entries
        PROVE  /\ e[1] = "omnibus_to_fpga::Address" => e[2] = OmnibusAddress
               /\ e[1] = "to_fpga_jtag::Data" => e[2] = JTAGData
    <2>1. CASE e \in ToFPGAJTAG \cup OmnibusToFPGA
      BY <2>1 DEF ToFPGAJTAG, OmnibusToFPGA
    <2>2. CASE e \in Timing \cup System \cup EventToFPGA
      BY <2>2 DEF Timing, System, EventToFPGA
    <2>3. CASE e \in FromFPGADictionary
      BY <2>3 DEF FromFPGADictionary, JTAGFromHicann, OmnibusFromFPGA, FromFPGASystem, TimingFromFPGA, EventFromFPGA
    <2> QED BY <2>1, <2>2, <2>3 DEF ToFPGADictionary
  <1> HIDE DEF entries
  <1>4. layout("omnibus_to_fpga::Address") = OmnibusAddress /\ layout("to_fpga_jtag::Data") = JTAGData
    BY <1>2, <1>3
  <1>5. "omnibus_to_fpga::Address" \in {e[1] : e \in entries} /\ "to_fpga_jtag::Data" \in {e[1] : e \in entries}
    BY <1>2
  <1> HIDE DEF layout
  <1> QED BY <1>1, <1>4, <1>5

LEMMA OneBit ==
  ASSUME NEW bits, NEW at \in Nat
  PROVE  {b \in Lowest(1) : at + b \in bits} = IF at \in bits THEN {0} ELSE {}
  BY DEF Lowest

LEMMA AskedBits ==
  ASSUME NEW m
  PROVE  /\ m.instruction = "omnibus_to_fpga::Address" => Decode(m).is_read = IF 36 \in m.bits THEN {0} ELSE {}
         /\ m.instruction = "to_fpga_jtag::Data" => Decode(m).keep_response = IF 48 \in m.bits THEN {0} ELSE {}
  <1>1. ASSUME m.instruction = "omnibus_to_fpga::Address"
        PROVE  Decode(m).is_read = IF 36 \in m.bits THEN {0} ELSE {}
    <2>1. Dictionary[m.instruction].decode = OmnibusAddress.decode
      BY <1>1, Layouts
    <2>2. "is_read" \in DOMAIN OmnibusAddress.decode /\ OmnibusAddress.decode["is_read"] = <<36, Lowest(1)>>
      BY DEF OmnibusAddress
    <2>3. Decode(m)["is_read"] = {b \in Lowest(1) : 36 + b \in m.bits}
      BY <2>1, <2>2 DEF Decode
    <2> QED BY <2>3, OneBit
  <1>2. ASSUME m.instruction = "to_fpga_jtag::Data"
        PROVE  Decode(m).keep_response = IF 48 \in m.bits THEN {0} ELSE {}
    <2>1. Dictionary[m.instruction].decode = JTAGData.decode
      BY <1>2, Layouts
    <2>2. "keep_response" \in DOMAIN JTAGData.decode /\ JTAGData.decode["keep_response"] = <<48, Lowest(1)>>
      BY DEF JTAGData
    <2>3. Decode(m)["keep_response"] = {b \in Lowest(1) : 48 + b \in m.bits}
      BY <2>1, <2>2 DEF Decode
    <2> QED BY <2>3, OneBit
  <1> QED BY <1>1, <1>2

(* The mock answers the messages that ask for it, and no others.            *)
LEMMA AskedAnswered ==
  ASSUME NEW m
  PROVE  Responses(m) = IF Asks(m) THEN <<Answer(m)>> ELSE <<>>
  <1>1. JTAGData.size - 8 = 48 /\ 4 * (8 + 1) = 36
    BY DEF JTAGData
  <1>2. CASE m.instruction = "system::Loopback"
    BY <1>2 DEF Responses, Asks, Answer
  <1>3. CASE m.instruction = "to_fpga_jtag::Data"
    <2>1. Asks(m) <=> 48 \in m.bits
      BY <1>3, AskedBits DEF Asks
    <2> QED BY <1>1, <1>3, <2>1 DEF Responses, Answer
  <1>4. CASE m.instruction = "omnibus_to_fpga::Address"
    <2>1. Asks(m) <=> 36 \in m.bits /\ Decode(m).address \in DOMAIN Register
      BY <1>4, AskedBits DEF Asks
    <2> QED BY <1>1, <1>4, <2>1 DEF Responses, Answer
  <1>5. CASE m.instruction \notin {"system::Loopback", "to_fpga_jtag::Data", "omnibus_to_fpga::Address"}
    BY <1>5 DEF Responses, Asks
  <1> QED BY <1>2, <1>3, <1>4, <1>5

(* So its answers are, one by one, those that were asked for.               *)
LEMMA AnswersInOrder ==
  ASSUME NEW messages \in Seq(Messages)
  PROVE  AnswersTo(messages) =
           [k \in DOMAIN Selected(messages, Asks) |-> Answer(Selected(messages, Asks)[k])]
  <1> DEFINE n == Len(messages)
             parts == [k \in 1 .. n |-> IF Asks(messages[k]) THEN <<messages[k]>> ELSE <<>>]
             images == [k \in 1 .. n |-> Responses(messages[k])]
             f == [m \in Messages |-> Answer(m)]
  <1>1. /\ n \in Nat /\ DOMAIN messages = 1 .. n
        /\ \A k \in 1 .. n : messages[k] \in Messages
    BY LenProperties, ElementOfSeq
  <1>2. AnswersTo(messages) = FlattenSeq(images) /\ Selected(messages, Asks) = FlattenSeq(parts)
    BY <1>1 DEF AnswersTo, Selected
  <1>3. \A k \in 1 .. n : (IF Asks(messages[k]) THEN <<messages[k]>> ELSE <<>>) \in Seq(Messages)
    BY <1>1
  <1>4. parts \in Seq(Seq(Messages))
    BY <1>1, <1>3, IsASeq
  <1>5. \A k \in 1 .. n : Responses(messages[k]) \in Seq(Messages)
    BY <1>1, ResponsesType
  <1>6. images \in Seq(Seq(Messages))
    BY <1>1, <1>5, IsASeq
  <1>7. Len(parts) = n /\ Len(images) = n
    BY <1>1
  <1>8. ASSUME NEW k \in 1 .. n
        PROVE  /\ Len(images[k]) = Len(parts[k])
               /\ \A l \in 1 .. Len(parts[k]) : images[k][l] = f[parts[k][l]]
    <2>1. images[k] = (IF Asks(messages[k]) THEN <<Answer(messages[k])>> ELSE <<>>)
          /\ parts[k] = (IF Asks(messages[k]) THEN <<messages[k]>> ELSE <<>>)
      BY AskedAnswered
    <2>2. f[messages[k]] = Answer(messages[k])
      BY <1>1
    <2> HIDE DEF images, parts, f
    <2> QED BY <2>1, <2>2
  <1> HIDE DEF images, parts, f
  <1>9. FlattenSeq(images) = [j \in 1 .. Len(FlattenSeq(parts)) |-> f[FlattenSeq(parts)[j]]]
    <2>1. Mapped(parts, images, f)
      BY <1>7, <1>8 DEF Mapped
    <2> QED BY <1>4, <1>6, <2>1, FlattenMapped
  <1> DEFINE whole == FlattenSeq(parts)
  <1>10. whole \in Seq(Messages)
    BY <1>4, FlattenType
  <1>11. /\ DOMAIN whole = 1 .. Len(whole)
         /\ \A j \in 1 .. Len(whole) : whole[j] \in Messages
    BY <1>10, LenProperties, ElementOfSeq
  <1> HIDE DEF whole
  <1>12. [j \in 1 .. Len(whole) |-> f[whole[j]]] = [j \in DOMAIN whole |-> Answer(whole[j])]
    BY <1>11 DEF f
  <1> QED BY <1>2, <1>9, <1>12 DEF whole

LEMMA SelectedAsks ==
  ASSUME NEW messages \in Seq(Messages)
  PROVE  Selected(Append(messages, Halt), Asks) = Append(Selected(messages, Asks), Halt)
  <1> DEFINE n == Len(messages)
             part(m) == IF Asks(m) THEN <<m>> ELSE <<>>
             parts == [k \in 1 .. n |-> part(messages[k])]
             more == Append(messages, Halt)
  <1>1. /\ n \in Nat /\ DOMAIN messages = 1 .. n
        /\ \A k \in 1 .. n : messages[k] \in Messages
    BY LenProperties, ElementOfSeq
  <1>2. \A m \in Messages : part(m) \in Seq(Messages)
    OBVIOUS
  <1>3. part(Halt) = <<Halt>> /\ <<Halt>> \in Seq(Messages)
    BY HaltIsMessage DEF Asks, Halt, Message
  <1>4. /\ more \in Seq(Messages) /\ Len(more) = n + 1 /\ DOMAIN more = 1 .. n + 1
        /\ more[n + 1] = Halt /\ \A k \in 1 .. n : more[k] = messages[k]
    <2>1. /\ more \in Seq(Messages) /\ Len(more) = n + 1
          /\ more[n + 1] = Halt /\ \A k \in 1 .. n : more[k] = messages[k]
      BY HaltIsMessage, AppendProperties
    <2> QED BY <2>1, LenProperties
  <1>5. Selected(messages, Asks) = FlattenSeq(parts)
    BY <1>1 DEF Selected
  <1>6. Selected(more, Asks) = FlattenSeq([k \in 1 .. n + 1 |-> part(more[k])])
    BY <1>4 DEF Selected
  <1> HIDE DEF more, part
  <1>7. parts \in Seq(Seq(Messages)) /\ Len(parts) = n
    <2>1. \A k \in 1 .. n : part(messages[k]) \in Seq(Messages)
      BY <1>1, <1>2
    <2> QED BY <1>1, <2>1, IsASeq
  <1>8. [k \in 1 .. n + 1 |-> part(more[k])] = Append(parts, <<Halt>>)
    <2> DEFINE both == [k \in 1 .. n + 1 |-> part(more[k])]
    <2>1. /\ Append(parts, <<Halt>>) \in Seq(Seq(Messages)) /\ Len(Append(parts, <<Halt>>)) = n + 1
          /\ Append(parts, <<Halt>>)[n + 1] = <<Halt>>
          /\ \A k \in 1 .. n : Append(parts, <<Halt>>)[k] = parts[k]
      BY <1>3, <1>7, AppendProperties
    <2>2. \A k \in 1 .. n + 1 : part(more[k]) \in Seq(Messages)
      BY <1>2, <1>4, ElementOfSeq
    <2>3. both \in Seq(Seq(Messages)) /\ Len(both) = n + 1
      BY <1>1, <2>2, IsASeq
    <2>4. \A k \in 1 .. n : parts[k] = part(messages[k])
      OBVIOUS
    <2>5. \A k \in 1 .. n + 1 : both[k] = part(more[k])
      OBVIOUS
    <2> HIDE DEF both, parts, n
    <2>6. ASSUME NEW k \in 1 .. n + 1 PROVE both[k] = Append(parts, <<Halt>>)[k]
      <3>1. CASE k = n + 1
        BY <1>3, <1>4, <2>1, <2>5, <3>1
      <3>2. CASE k # n + 1
        <4>1. k \in 1 .. n
          BY <1>1, <3>2
        <4> QED BY <1>4, <2>1, <2>4, <2>5, <4>1
      <3> QED BY <3>1, <3>2
    <2>7. both = Append(parts, <<Halt>>)
      BY <2>1, <2>3, <2>6, SeqEqual
    <2> QED BY <2>7 DEF both
  <1>9. FlattenSeq(parts) \in Seq(Messages)
    BY <1>7, FlattenType
  <1>10. FlattenSeq(Append(parts, <<Halt>>)) = FlattenSeq(parts) \o <<Halt>>
    BY <1>3, <1>7, FlattenAppend
  <1> HIDE DEF parts
  <1>11. FlattenSeq(parts) \o <<Halt>> = Append(FlattenSeq(parts), Halt)
    BY <1>9, HaltIsMessage, AppendIsConcat
  <1> QED BY <1>5, <1>6, <1>8, <1>10, <1>11 DEF more

LEMMA OrdinaryAnswers ==
  ASSUME NEW messages \in Seq(Messages)
  PROVE  LET asked == Append(Selected(messages, Asks), Message("system::Loopback", HaltBits))
         IN Answers(messages) = [k \in DOMAIN asked |-> Answer(asked[k])]
  <1>1. Append(messages, Halt) \in Seq(Messages)
    BY HaltIsMessage, AppendProperties
  <1>2. Answers(messages) = [k \in DOMAIN Selected(Append(messages, Halt), Asks) |->
                               Answer(Selected(Append(messages, Halt), Asks)[k])]
    BY <1>1, AnswersInOrder DEF Answers
  <1> QED BY <1>2, SelectedAsks DEF Halt

(* What is selected has the property, and all that has it is selected.      *)
Picked(q, P) == FlattenSeq([k \in 1 .. Len(q) |-> IF q[k] \in P THEN <<q[k]>> ELSE <<>>])

LEMMA PickedElements ==
  ASSUME NEW S, NEW q \in Seq(S), NEW P
  PROVE  /\ Picked(q, P) \in Seq(P)
         /\ \A k \in 1 .. Len(q) : q[k] \in P => \E j \in 1 .. Len(Picked(q, P)) : Picked(q, P)[j] = q[k]
  <1> DEFINE n == Len(q)
             part(k) == IF q[k] \in P THEN <<q[k]>> ELSE <<>>
             parts == [k \in 1 .. n |-> part(k)]
             whole == FlattenSeq(parts)
  <1>1. n \in Nat
    BY LenProperties
  <1>2. \A k \in 1 .. n : part(k) \in Seq(P)
    <2> SUFFICES ASSUME NEW k \in 1 .. n PROVE part(k) \in Seq(P)
      OBVIOUS
    <2>1. CASE q[k] \in P
      BY <2>1
    <2>2. CASE q[k] \notin P
      BY <2>2, EmptySeq
    <2> QED BY <2>1, <2>2
  <1>3. Picked(q, P) = whole
    BY DEF Picked
  <1>4. \A k \in 1 .. n : q[k] \in P => part(k) = <<q[k]>>
    OBVIOUS
  <1> HIDE DEF part, n
  <1>5. parts \in Seq(Seq(P)) /\ Len(parts) = n /\ \A k \in 1 .. n : parts[k] = part(k)
    BY <1>1, <1>2, IsASeq
  <1> HIDE DEF parts
  <1>6. whole \in Seq(P)
    BY <1>5, FlattenType
  <1>7. PICK e : Ends(parts, whole, e)
    BY <1>5, FlattenPlaces
  <1> HIDE DEF whole
  <1>8. ASSUME NEW k \in 1 .. n, q[k] \in P
        PROVE  \E j \in 1 .. Len(whole) : whole[j] = q[k]
    <2>1. parts[k] = <<q[k]>>
      BY <1>4, <1>5, <1>8
    <2>2. 1 \in 1 .. Len(parts[k]) /\ parts[k][1] = q[k]
      BY <2>1
    <2>3. e[k - 1] + 1 \in 1 .. Len(whole) /\ whole[e[k - 1] + 1] = parts[k][1]
      BY <1>5, <1>7, <2>2 DEF Ends
    <2> QED BY <2>2, <2>3
  <1> QED BY <1>3, <1>6, <1>8 DEF n

Reads == {m \in Messages : IsRead(m)}
ReadAnswers == {m \in Messages : IsReadData(m)}

LEMMA SelectedReads ==
  ASSUME NEW messages \in Seq(Messages), NEW answers \in Seq(Messages)
  PROVE  /\ Selected(messages, IsRead) = Picked(messages, Reads)
         /\ Selected(answers, IsReadData) = Picked(answers, ReadAnswers)
  <1>1. /\ DOMAIN messages = 1 .. Len(messages) /\ DOMAIN answers = 1 .. Len(answers)
        /\ \A k \in 1 .. Len(messages) : messages[k] \in Messages
        /\ \A k \in 1 .. Len(answers) : answers[k] \in Messages
    BY LenProperties, ElementOfSeq
  <1>2. /\ \A k \in 1 .. Len(messages) : IsRead(messages[k]) <=> messages[k] \in Reads
        /\ \A k \in 1 .. Len(answers) : IsReadData(answers[k]) <=> answers[k] \in ReadAnswers
    BY <1>1 DEF Reads, ReadAnswers
  <1>3. [k \in DOMAIN messages |-> IF IsRead(messages[k]) THEN <<messages[k]>> ELSE <<>>]
          = [k \in 1 .. Len(messages) |-> IF messages[k] \in Reads THEN <<messages[k]>> ELSE <<>>]
    BY <1>1, <1>2
  <1>4. [k \in DOMAIN answers |-> IF IsReadData(answers[k]) THEN <<answers[k]>> ELSE <<>>]
          = [k \in 1 .. Len(answers) |-> IF answers[k] \in ReadAnswers THEN <<answers[k]>> ELSE <<>>]
    BY <1>1, <1>2
  <1> QED BY <1>3, <1>4 DEF Selected, Picked

(* What is decoded of an Omnibus address fits its fields.                   *)
LEMMA AddressIsPayload ==
  ASSUME NEW m, m.instruction = "omnibus_to_fpga::Address"
  PROVE  IsPayload(m.instruction, Decode(m))
  <1> DEFINE to == OmnibusAddress.encode
             from == OmnibusAddress.decode
  <1>1. Dictionary[m.instruction].encode = to /\ Dictionary[m.instruction].decode = from
    BY Layouts
  <1>2. DOMAIN from = DOMAIN to /\ \A f \in DOMAIN to : from[f][2] = Lowest(to[f][2])
    BY DEF OmnibusAddress
  <1> HIDE DEF to, from
  <1>3. Decode(m) = [f \in DOMAIN to |-> {b \in from[f][2] : from[f][1] + b \in m.bits}]
    BY <1>1, <1>2 DEF Decode
  <1>4. \A f \in DOMAIN to : Decode(m)[f] \subseteq Lowest(to[f][2])
    BY <1>2, <1>3
  <1>5. Decode(m) = [f \in DOMAIN to |-> Decode(m)[f]]
    BY <1>3
  <1> QED BY <1>1, <1>4, <1>5 DEF IsPayload

(* What each element of a sequence is replaced by, with one element more.   *)
Images(q, f) == [k \in 1 .. Len(q) |-> f[q[k]]]
Replaces(f, S, V) == f \in [S -> Seq(V)]

LEMMA ImagesAppend ==
  ASSUME NEW S, NEW V, NEW f, Replaces(f, S, V), NEW q \in Seq(S), NEW m \in S
  PROVE  /\ FlattenSeq(Images(q, f)) \in Seq(V)
         /\ FlattenSeq(Images(Append(q, m), f)) = FlattenSeq(Images(q, f)) \o f[m]
  <1> DEFINE n == Len(q)
             more == Append(q, m)
             parts == Images(q, f)
             longer == Images(more, f)
             appended == Append(parts, f[m])
  <1>1. n \in Nat /\ (\A k \in 1 .. n : q[k] \in S) /\ \A e \in S : f[e] \in Seq(V)
    BY LenProperties, ElementOfSeq DEF Replaces
  <1>2. Len(more) = n + 1 /\ more[n + 1] = m /\ \A k \in 1 .. n : more[k] = q[k]
    BY AppendProperties
  <1>3. \A k \in 1 .. n : f[q[k]] \in Seq(V)
    BY <1>1
  <1>4. parts \in Seq(Seq(V)) /\ Len(parts) = n /\ \A k \in 1 .. n : parts[k] = f[q[k]]
    BY <1>1, <1>3, IsASeq DEF Images
  <1>5. longer = [k \in 1 .. n + 1 |-> f[more[k]]]
    BY <1>2 DEF Images
  <1>6. \A k \in 1 .. n + 1 : f[more[k]] \in Seq(V)
    <2>1. \A k \in 1 .. n + 1 : k = n + 1 \/ k \in 1 .. n
      BY <1>1
    <2> QED BY <1>1, <1>2, <1>3, <2>1
  <1>7. longer \in Seq(Seq(V)) /\ Len(longer) = n + 1 /\ \A k \in 1 .. n + 1 : longer[k] = f[more[k]]
    BY <1>1, <1>5, <1>6, IsASeq
  <1> HIDE DEF parts, longer, more, n
  <1>8. /\ appended \in Seq(Seq(V)) /\ Len(appended) = n + 1
        /\ appended[n + 1] = f[m] /\ \A k \in 1 .. n : appended[k] = parts[k]
    BY <1>1, <1>4, AppendProperties
  <1> HIDE DEF appended
  <1>9. ASSUME NEW k \in 1 .. n + 1 PROVE longer[k] = appended[k]
    <2>1. longer[k] = f[more[k]]
      BY <1>7
    <2>2. CASE k = n + 1
      BY <1>2, <1>8, <2>1, <2>2
    <2>3. CASE k \in 1 .. n
      <3>1. more[k] = q[k] /\ parts[k] = f[q[k]] /\ appended[k] = parts[k]
        BY <1>2, <1>4, <1>8, <2>3
      <3> QED BY <2>1, <3>1
    <2> QED BY <1>1, <2>2, <2>3
  <1>10. longer = appended
    BY <1>7, <1>8, <1>9, SeqEqual
  <1>11. FlattenSeq(parts) \in Seq(V)
    BY <1>4, FlattenType
  <1>12. FlattenSeq(Append(parts, f[m])) = FlattenSeq(parts) \o f[m]
    BY <1>1, <1>4, FlattenAppend
  <1> QED BY <1>10, <1>11, <1>12 DEF appended, parts, longer, more

LEMMA PickedAppend ==
  ASSUME NEW S, NEW q \in Seq(S), NEW m \in S, NEW P
  PROVE  Picked(Append(q, m), P) = IF m \in P THEN Append(Picked(q, P), m) ELSE Picked(q, P)
  <1> DEFINE f == [e \in S |-> IF e \in P THEN <<e>> ELSE <<>>]
             more == Append(q, m)
  <1>1. \A e \in S : (IF e \in P THEN <<e>> ELSE <<>>) \in Seq(S)
    <2> SUFFICES ASSUME NEW e \in S PROVE (IF e \in P THEN <<e>> ELSE <<>>) \in Seq(S)
      OBVIOUS
    <2>1. <<e>> \in Seq(S)
      OBVIOUS
    <2> QED BY <2>1, EmptySeq
  <1>2. Replaces(f, S, S)
    BY <1>1 DEF Replaces
  <1>3. ASSUME NEW r \in Seq(S) PROVE Picked(r, P) = FlattenSeq(Images(r, f))
    <2>1. \A k \in 1 .. Len(r) : r[k] \in S
      BY ElementOfSeq
    <2>2. Images(r, f) = [k \in 1 .. Len(r) |-> IF r[k] \in P THEN <<r[k]>> ELSE <<>>]
      BY <2>1 DEF Images
    <2> QED BY <2>2 DEF Picked
  <1>4. more \in Seq(S)
    BY AppendProperties
  <1>5. f[m] = IF m \in P THEN <<m>> ELSE <<>>
    OBVIOUS
  <1> HIDE DEF f, more
  <1>6. Picked(q, P) \in Seq(S) /\ Picked(more, P) = Picked(q, P) \o f[m]
    <2>1. FlattenSeq(Images(q, f)) \in Seq(S) /\ FlattenSeq(Images(more, f)) = FlattenSeq(Images(q, f)) \o f[m]
      BY <1>2, ImagesAppend DEF more
    <2> QED BY <1>3, <1>4, <2>1
  <1>7. Picked(q, P) \o <<>> = Picked(q, P) /\ Picked(q, P) \o <<m>> = Append(Picked(q, P), m)
    BY <1>6, ConcatEmptySeq, AppendIsConcat
  <1> QED BY <1>5, <1>6, <1>7 DEF more

LEMMA AnswersAppend ==
  ASSUME NEW q \in Seq(Messages), NEW m \in Messages
  PROVE  AnswersTo(Append(q, m)) = AnswersTo(q) \o Responses(m)
  <1> DEFINE f == [e \in Messages |-> Responses(e)]
             more == Append(q, m)
  <1>1. Replaces(f, Messages, Messages)
    BY ResponsesType DEF Replaces
  <1>2. ASSUME NEW r \in Seq(Messages) PROVE AnswersTo(r) = FlattenSeq(Images(r, f))
    <2>1. DOMAIN r = 1 .. Len(r) /\ \A k \in 1 .. Len(r) : r[k] \in Messages
      BY LenProperties, ElementOfSeq
    <2>2. Images(r, f) = [k \in DOMAIN r |-> Responses(r[k])]
      BY <2>1 DEF Images
    <2> QED BY <2>2 DEF AnswersTo
  <1>3. more \in Seq(Messages)
    BY AppendProperties
  <1>4. f[m] = Responses(m)
    OBVIOUS
  <1> HIDE DEF f, more
  <1>5. FlattenSeq(Images(Append(q, m), f)) = FlattenSeq(Images(q, f)) \o f[m]
    BY <1>1, ImagesAppend
  <1> QED BY <1>2, <1>3, <1>4, <1>5 DEF more

(* There are no more data than reads, and where there are as many, each is  *)
(* that of its read.                                                        *)
Own(read, answer) ==
  Decode(read).address \in DOMAIN Register /\ answer.bits = Register[Decode(read).address]
Aligned(messages) ==
  LET addresses == Picked(messages, Reads)
      data == Picked(AnswersTo(messages), ReadAnswers)
  IN /\ Len(data) <= Len(addresses)
     /\ Len(data) = Len(addresses) => \A j \in 1 .. Len(addresses) : Own(addresses[j], data[j])

LEMMA AlignedAppend ==
  ASSUME NEW q \in Seq(Messages), NEW m \in Messages, Aligned(q)
  PROVE  Aligned(Append(q, m))
  <1> DEFINE more == Append(q, m)
             addresses == Picked(q, Reads)
             data == Picked(AnswersTo(q), ReadAnswers)
             moreAddresses == Picked(more, Reads)
             moreData == Picked(AnswersTo(more), ReadAnswers)
  <1>1. AnswersTo(q) \in Seq(Messages)
    BY AnswersType
  <1>2. addresses \in Seq(Reads) /\ data \in Seq(ReadAnswers)
    BY <1>1, PickedElements
  <1>3. Len(addresses) \in Nat /\ Len(data) \in Nat
    BY <1>2, LenProperties
  <1>4. /\ Len(data) <= Len(addresses)
        /\ Len(data) = Len(addresses) => \A j \in 1 .. Len(addresses) : Own(addresses[j], data[j])
    BY DEF Aligned
  <1>5. AnswersTo(more) = AnswersTo(q) \o Responses(m)
    BY AnswersAppend
  <1>6. moreAddresses = IF m \in Reads THEN Append(addresses, m) ELSE addresses
    BY PickedAppend
  <1>7. Responses(m) = IF Asks(m) THEN <<Answer(m)>> ELSE <<>>
    BY AskedAnswered
  <1>8. ASSUME NEW e \in Messages, Responses(m) = <<e>>
        PROVE  moreData = IF e \in ReadAnswers THEN Append(data, e) ELSE data
    <2>1. AnswersTo(more) = Append(AnswersTo(q), e)
      BY <1>1, <1>5, <1>8, AppendIsConcat
    <2> QED BY <1>1, <2>1, PickedAppend
  <1>9. ASSUME Responses(m) = <<>>
        PROVE  moreData = data
    BY <1>1, <1>5, <1>9, ConcatEmptySeq
  <1>10. Asks(m) => Answer(m) \in Messages
    <2>1. Responses(m) \in Seq(Messages)
      BY ResponsesType
    <2>2. ASSUME Asks(m) PROVE Answer(m) \in Messages
      <3>1. <<Answer(m)>> \in Seq(Messages)
        BY <1>7, <2>1, <2>2
      <3> QED BY <3>1, ElementOfSeq
    <2> QED BY <2>2
  <1> HIDE DEF addresses, data, moreAddresses, moreData, more
  <1>11. CASE m \in Reads /\ Decode(m).address \in DOMAIN Register
    <2>1. m.instruction = "omnibus_to_fpga::Address" /\ Asks(m)
      BY <1>11, AskedBits DEF Reads, IsRead, IsAddress, Asks
    <2>2. Answer(m) = Message("omnibus_from_fpga::Data", Register[Decode(m).address])
      BY <2>1 DEF Answer
    <2>3. Answer(m) \in ReadAnswers /\ Own(m, Answer(m))
      BY <1>10, <1>11, <2>1, <2>2 DEF ReadAnswers, IsReadData, Message, Own
    <2>4. moreAddresses = Append(addresses, m) /\ moreData = Append(data, Answer(m))
      BY <1>6, <1>7, <1>8, <1>10, <1>11, <2>1, <2>3
    <2>5. /\ Len(moreAddresses) = Len(addresses) + 1 /\ moreAddresses[Len(addresses) + 1] = m
          /\ \A j \in 1 .. Len(addresses) : moreAddresses[j] = addresses[j]
      BY <1>2, <1>11, <2>4, AppendProperties
    <2>6. /\ Len(moreData) = Len(data) + 1 /\ moreData[Len(data) + 1] = Answer(m)
          /\ \A j \in 1 .. Len(data) : moreData[j] = data[j]
      BY <1>2, <2>3, <2>4, AppendProperties
    <2>7. ASSUME Len(moreData) = Len(moreAddresses), NEW j \in 1 .. Len(moreAddresses)
          PROVE  Own(moreAddresses[j], moreData[j])
      <3>1. Len(data) = Len(addresses)
        BY <1>3, <2>5, <2>6, <2>7
      <3>2. j = Len(addresses) + 1 \/ j \in 1 .. Len(addresses)
        BY <1>3, <2>5
      <3> QED BY <1>4, <2>3, <2>5, <2>6, <3>1, <3>2
    <2>8. Len(moreData) <= Len(moreAddresses)
      BY <1>3, <1>4, <2>5, <2>6
    <2> QED BY <2>7, <2>8 DEF Aligned, moreAddresses, moreData, more
  <1>12. CASE m \in Reads /\ Decode(m).address \notin DOMAIN Register
    <2>1. ~Asks(m)
      BY <1>12 DEF Reads, IsRead, IsAddress, Asks
    <2>2. moreAddresses = Append(addresses, m) /\ moreData = data
      BY <1>6, <1>7, <1>9, <1>12, <2>1
    <2>3. Len(moreAddresses) = Len(addresses) + 1
      BY <1>2, <1>12, <2>2, AppendProperties
    <2>4. Len(moreData) <= Len(moreAddresses) /\ Len(moreData) # Len(moreAddresses)
      BY <1>3, <1>4, <2>2, <2>3
    <2> QED BY <2>4 DEF Aligned, moreAddresses, moreData, more
  <1>13. CASE m \notin Reads
    <2>1. Asks(m) => m.instruction \in {"system::Loopback", "to_fpga_jtag::Data"}
      BY <1>13 DEF Reads, IsRead, IsAddress, Asks
    <2>2. Asks(m) => Answer(m) \notin ReadAnswers
      BY <2>1 DEF Answer, Message, ReadAnswers, IsReadData
    <2>3. moreAddresses = addresses /\ moreData = data
      BY <1>6, <1>7, <1>8, <1>9, <1>10, <1>13, <2>2
    <2> QED BY <1>4, <2>3 DEF Aligned, moreAddresses, moreData, more
  <1> QED BY <1>11, <1>12, <1>13

LEMMA AllAligned == \A messages \in Seq(Messages) : Aligned(messages)
  <1> DEFINE T == {n \in Nat : \A q \in Seq(Messages) : Len(q) = n => Aligned(q)}
  <1>1. 0 \in T
    <2> SUFFICES ASSUME NEW q \in Seq(Messages), Len(q) = 0 PROVE Aligned(q)
      OBVIOUS
    <2>1. q = <<>> /\ DOMAIN q = {}
      BY EmptySeq, LenProperties
    <2>2. AnswersTo(q) = FlattenSeq(<<>>) /\ Picked(q, Reads) = FlattenSeq(<<>>)
      BY <2>1 DEF AnswersTo, Picked
    <2>3. FlattenSeq(<<>>) = <<>>
      <3> DEFINE none == <<>>
      <3>1. none \in Seq(Seq(Messages)) /\ Len(none) = 0
        OBVIOUS
      <3> HIDE DEF none
      <3>2. PICK joined \in [0 .. Len(none) -> Seq(Messages)] :
              joined[0] = <<>> /\ FlattenSeq(none) = joined[Len(none)]
        BY <3>1, Flatten
      <3> QED BY <3>1, <3>2 DEF none
    <2>4. Picked(<<>>, ReadAnswers) = <<>>
      BY <2>3 DEF Picked
    <2> QED BY <2>2, <2>3, <2>4 DEF Aligned
  <1>2. ASSUME NEW n \in Nat, n \in T PROVE n + 1 \in T
    <2> SUFFICES ASSUME NEW q \in Seq(Messages), Len(q) = n + 1 PROVE Aligned(q)
      OBVIOUS
    <2> DEFINE front == [k \in 1 .. n |-> q[k]]
               more == Append(front, q[n + 1])
    <2>1. \A k \in 1 .. n + 1 : q[k] \in Messages
      BY ElementOfSeq
    <2>2. \A k \in 1 .. n : k \in 1 .. n + 1
      OBVIOUS
    <2>3. front \in Seq(Messages) /\ Len(front) = n
      BY <2>1, <2>2, IsASeq
    <2>4. q[n + 1] \in Messages
      BY <2>1
    <2>5. /\ more \in Seq(Messages) /\ Len(more) = n + 1
          /\ more[n + 1] = q[n + 1] /\ \A k \in 1 .. n : more[k] = front[k]
      BY <2>3, <2>4, AppendProperties
    <2>6. \A k \in 1 .. n : front[k] = q[k]
      OBVIOUS
    <2> HIDE DEF front, more
    <2>7. \A k \in 1 .. n + 1 : more[k] = q[k]
      <3>1. \A k \in 1 .. n + 1 : k = n + 1 \/ k \in 1 .. n
        OBVIOUS
      <3> QED BY <2>5, <2>6, <3>1
    <2>8. more = q
      BY <2>5, <2>7, SeqEqual
    <2>9. Aligned(front)
      BY <1>2, <2>3
    <2> QED BY <2>3, <2>4, <2>8, <2>9, AlignedAppend DEF more
  <1>3. \A n \in Nat : n \in T
    <2> HIDE DEF T
    <2> QED BY <1>1, <1>2, Induction
  <1> QED BY <1>3, LenProperties

(* The write for a read has the read's address.                             *)
LEMMA AsWriteWrites ==
  ASSUME NEW m \in Reads
  PROVE  /\ IsAddress(AsWrite(m)) /\ ~IsRead(AsWrite(m))
         /\ Decode(AsWrite(m)).address = Decode(m).address
  <1> DEFINE i == m.instruction
             layout == Dictionary[i]
             fields == layout.encode
             payload == [Decode(m) EXCEPT !.is_read = {}]
  <1>1. i = "omnibus_to_fpga::Address"
    BY DEF Reads, IsRead, IsAddress
  <1>2. i \in DOMAIN Dictionary /\ Dictionary[i] = OmnibusAddress
    BY <1>1, Layouts
  <1>3. "is_read" \in DOMAIN fields /\ "address" \in DOMAIN fields
    BY <1>2 DEF OmnibusAddress
  <1>4. IsPayload(i, Decode(m))
    BY <1>1, AddressIsPayload
  <1> HIDE DEF i
  <1>5. /\ Decode(m) = [f \in DOMAIN fields |-> Decode(m)[f]]
        /\ \A f \in DOMAIN fields : Decode(m)[f] \subseteq Lowest(fields[f][2])
    BY <1>4 DEF IsPayload
  <1> HIDE DEF fields
  <1>6. /\ DOMAIN payload = DOMAIN fields
        /\ payload = [f \in DOMAIN fields |-> payload[f]]
        /\ payload["is_read"] = {} /\ \A f \in DOMAIN fields : f # "is_read" => payload[f] = Decode(m)[f]
    BY <1>3, <1>5
  <1> HIDE DEF payload
  <1>7. \A f \in DOMAIN fields : payload[f] \subseteq Lowest(fields[f][2])
    BY <1>5, <1>6
  <1>8. IsPayload(i, payload)
    BY <1>6, <1>7 DEF IsPayload, fields
  <1>9. Decode(Encode(i, payload)) = payload
    BY <1>2, <1>8, DecodeInvertsEncode
  <1>10. AsWrite(m) = Encode(i, payload)
    BY DEF AsWrite, i, payload
  <1>11. AsWrite(m).instruction = i
    BY <1>10 DEF Encode, Message
  <1>12. Decode(AsWrite(m)) = payload
    BY <1>9, <1>10
  <1> QED BY <1>1, <1>3, <1>6, <1>11, <1>12 DEF IsAddress, IsRead

(* The program of a snapshot: address and data in turn, and a barrier.      *)
Writes(addresses, data) ==
  FlattenSeq([j \in DOMAIN addresses |-> <<AsWrite(addresses[j]), AsWriteData(data[j])>>]) \o <<Barrier>>

LEMMA WritesPlaces ==
  ASSUME NEW A, NEW addresses \in Seq(A), NEW data
  PROVE  LET n == Len(addresses)
             w == Writes(addresses, data)
         IN /\ n \in Nat /\ DOMAIN w = 1 .. 2 * n + 1 /\ Len(w) = 2 * n + 1
            /\ w[2 * n + 1] = Barrier
            /\ \A j \in 1 .. n : w[2 * j - 1] = AsWrite(addresses[j]) /\ w[2 * j] = AsWriteData(data[j])
  <1> DEFINE n == Len(addresses)
             a(j) == AsWrite(addresses[j])
             d(j) == AsWriteData(data[j])
             V == {a(j) : j \in 1 .. n} \cup {d(j) : j \in 1 .. n} \cup {Barrier}
             parts == [j \in 1 .. n |-> <<a(j), d(j)>>]
             w == Writes(addresses, data)
             pairs == FlattenSeq(parts)
  <1>1. n \in Nat /\ DOMAIN addresses = 1 .. n
    BY LenProperties
  <1>2. w = pairs \o <<Barrier>>
    BY <1>1 DEF Writes
  <1>3. \A j \in 1 .. n : a(j) \in V /\ d(j) \in V
    OBVIOUS
  <1>4. Barrier \in V
    OBVIOUS
  <1> HIDE DEF a, d, V, n, w
  <1>5. \A j \in 1 .. n : <<a(j), d(j)>> \in Seq(V)
    BY <1>3
  <1>6. parts \in Seq(Seq(V)) /\ Len(parts) = n
    BY <1>1, <1>5, IsASeq
  <1>7. \A j \in 1 .. n : Len(parts[j]) = 2 /\ parts[j][1] = a(j) /\ parts[j][2] = d(j)
    OBVIOUS
  <1> HIDE DEF parts
  <1>8. pairs \in Seq(V)
    BY <1>6, FlattenType
  <1>9. /\ Len(pairs) = 2 * n
        /\ \A j \in 1 .. n : pairs[2 * j - 1] = a(j) /\ pairs[2 * j] = d(j)
    BY <1>6, <1>7, FlattenPairs
  <1> HIDE DEF pairs
  <1>10. /\ w = Append(pairs, Barrier) /\ w \in Seq(V) /\ Len(w) = 2 * n + 1
         /\ w[2 * n + 1] = Barrier /\ \A k \in 1 .. 2 * n : w[k] = pairs[k]
    BY <1>2, <1>4, <1>8, <1>9, AppendIsConcat, AppendProperties
  <1>11. DOMAIN w = 1 .. 2 * n + 1
    BY <1>10, LenProperties
  <1>12. \A j \in 1 .. n : 2 * j - 1 \in 1 .. 2 * n /\ 2 * j \in 1 .. 2 * n
    BY <1>1
  <1>13. \A j \in 1 .. n : w[2 * j - 1] = a(j) /\ w[2 * j] = d(j)
    BY <1>9, <1>10, <1>12
  <1> QED BY <1>1, <1>10, <1>11, <1>13 DEF a, d, n, w

(* The answers to a program are those to its messages and the halt, which   *)
(* is not a read.                                                           *)
LEMMA EnoughAreOwn ==
  ASSUME NEW messages \in Seq(Messages),
         Len(Selected(Answers(messages), IsReadData)) >= Len(Selected(messages, IsRead))
  PROVE  LET addresses == Selected(messages, IsRead)
             data == Selected(Answers(messages), IsReadData)
         IN Len(data) = Len(addresses) /\ \A j \in 1 .. Len(addresses) : Own(addresses[j], data[j])
  <1>1. Append(messages, Halt) \in Seq(Messages) /\ Answers(messages) \in Seq(Messages)
    BY HaltIsMessage, AppendProperties, AnswersType
  <1>2. Halt \notin Reads
    BY DEF Halt, Message, Reads, IsRead, IsAddress
  <1>3. Picked(Append(messages, Halt), Reads) = Picked(messages, Reads)
    BY <1>2, HaltIsMessage, PickedAppend
  <1>4. /\ Selected(messages, IsRead) = Picked(Append(messages, Halt), Reads)
        /\ Selected(Answers(messages), IsReadData) = Picked(AnswersTo(Append(messages, Halt)), ReadAnswers)
    BY <1>1, <1>3, SelectedReads DEF Answers
  <1>5. Aligned(Append(messages, Halt))
    BY <1>1, AllAligned
  <1>6. /\ Picked(Append(messages, Halt), Reads) \in Seq(Reads)
        /\ Picked(AnswersTo(Append(messages, Halt)), ReadAnswers) \in Seq(ReadAnswers)
    BY <1>1, PickedElements DEF Answers
  <1>7. Len(Selected(messages, IsRead)) \in Nat /\ Len(Selected(Answers(messages), IsReadData)) \in Nat
    BY <1>4, <1>6, LenProperties
  <1> QED BY <1>4, <1>5, <1>7 DEF Aligned

(* A snapshot writes the registers that it read, each with its data.        *)
LEMMA SnapshotWrites ==
  ASSUME NEW messages \in Seq(Messages),
         Len(Selected(Answers(messages), IsReadData)) >= Len(Selected(messages, IsRead))
  PROVE  LET w == Writes(Selected(messages, IsRead), Selected(Answers(messages), IsReadData))
             read == {Decode(m).address : m \in {q \in ToSet(messages) : IsRead(q)}}
         IN /\ read \subseteq DOMAIN Register
            /\ Registers(w) = [a \in read |-> Register[a]] /\ Last(w) = Barrier
  <1> DEFINE addresses == Selected(messages, IsRead)
             answers == Answers(messages)
             data == Selected(answers, IsReadData)
             n == Len(addresses)
             w == Writes(addresses, data)
             read == {Decode(m).address : m \in {q \in ToSet(messages) : IsRead(q)}}
             at(j) == Decode(addresses[j]).address
             sets(k) == IsAddress(w[k]) /\ ~IsRead(w[k])
             address(k) == Decode(w[k]).address
  <1>1. /\ addresses = Picked(messages, Reads) /\ addresses \in Seq(Reads)
        /\ data = Picked(answers, ReadAnswers) /\ data \in Seq(ReadAnswers)
    BY AnswersType, SelectedReads, PickedElements
  <1>2. /\ n \in Nat /\ DOMAIN w = 1 .. 2 * n + 1 /\ Len(w) = 2 * n + 1
        /\ w[2 * n + 1] = Barrier
        /\ \A j \in 1 .. n : w[2 * j - 1] = AsWrite(addresses[j]) /\ w[2 * j] = AsWriteData(data[j])
    BY <1>1, WritesPlaces
  <1>3. Len(data) \in Nat /\ Len(data) >= n
    BY <1>1, LenProperties
  <1>4. \A m \in ReadAnswers : AsWriteData(m).bits = m.bits /\ ~IsAddress(AsWriteData(m))
    BY DEF ReadAnswers, AsWriteData, Message, IsAddress
  <1>5. ~IsAddress(Barrier)
    BY DEF Barrier, Message, IsAddress
  <1> HIDE DEF w
  <1>6. \A j \in 1 .. n : Own(addresses[j], data[j])
    BY EnoughAreOwn
  <1> HIDE DEF data
  <1>7. \A j \in 1 .. n : addresses[j] \in Reads /\ data[j] \in ReadAnswers
    BY <1>1, <1>2, <1>3, ElementOfSeq
  <1> HIDE DEF addresses, n
  (* Which elements are writes of addresses, and of which. *)
  <1>8. \A j \in 1 .. n : sets(2 * j - 1) /\ address(2 * j - 1) = at(j)
    <2>1. ASSUME NEW j \in 1 .. n PROVE sets(2 * j - 1) /\ address(2 * j - 1) = at(j)
      <3>1. w[2 * j - 1] = AsWrite(addresses[j]) /\ addresses[j] \in Reads
        BY <1>2, <1>7
      <3> QED BY <3>1, AsWriteWrites
    <2> QED BY <2>1
  <1>9. ASSUME NEW k \in 1 .. 2 * n + 1, sets(k)
        PROVE  \E j \in 1 .. n : k = 2 * j - 1
    <2> DEFINE j == (k + 1) \div 2
    <2>1. k = 2 * j - 1 \/ k = 2 * j
      OBVIOUS
    <2>2. CASE k = 2 * j
      <3>1. j \in 1 .. n
        BY <1>2, <2>2
      <3> HIDE DEF j
      <3>2. w[k] = AsWriteData(data[j]) /\ data[j] \in ReadAnswers
        BY <1>2, <1>7, <2>2, <3>1
      <3>3. ~IsAddress(w[k])
        BY <1>4, <3>2
      <3> QED BY <1>9, <3>3
    <2>3. CASE k = 2 * j - 1 /\ j \in 1 .. n
      BY <2>3
    <2>4. CASE k = 2 * j - 1 /\ j \notin 1 .. n
      <3>1. k = 2 * n + 1
        BY <1>2, <2>4
      <3> QED BY <1>2, <1>5, <1>9, <3>1
    <2> QED BY <2>1, <2>2, <2>3, <2>4
  (* So the registers are those that were read. *)
  <1> HIDE DEF sets, address, at
  <1> DEFINE places == {k \in DOMAIN w : sets(k)}
             registers == {address(k) : k \in places}
  <1>10. \A j \in 1 .. n : 2 * j - 1 \in places
    <2>1. \A j \in 1 .. n : 2 * j - 1 \in DOMAIN w
      BY <1>2
    <2> QED BY <1>8, <2>1
  <1>11. \A k \in places : \E j \in 1 .. n : k = 2 * j - 1
    BY <1>2, <1>9
  <1>12. registers = {at(j) : j \in 1 .. n}
    BY <1>8, <1>10, <1>11
  <1> HIDE DEF places, registers
  <1>13. {at(j) : j \in 1 .. n} = read
    <2>1. /\ ToSet(messages) = {messages[k] : k \in 1 .. Len(messages)}
          /\ \A k \in 1 .. Len(messages) : messages[k] \in Messages
      BY LenProperties, ElementOfSeq DEF ToSet
    <2>2. ASSUME NEW j \in 1 .. n PROVE at(j) \in read
      (* What was selected is one of the messages. *)
      <3>1. \E k \in 1 .. Len(messages) : addresses[j] = messages[k]
        <4> DEFINE P == Reads \cap ToSet(messages)
        <4>1. addresses = Picked(messages, P)
          <5>1. \A k \in 1 .. Len(messages) : messages[k] \in Reads <=> messages[k] \in P
            BY <2>1
          <5> QED BY <1>1, <5>1 DEF Picked
        <4>2. Picked(messages, P) \in Seq(P)
          BY PickedElements
        <4>3. addresses[j] \in P
          BY <1>2, <4>1, <4>2, ElementOfSeq DEF n
        <4> QED BY <2>1, <4>3
      <3>2. PICK k \in 1 .. Len(messages) : addresses[j] = messages[k]
        BY <3>1
      <3>3. IsRead(messages[k]) /\ messages[k] \in ToSet(messages)
        BY <1>7, <2>1, <3>2 DEF Reads
      <3> QED BY <3>2, <3>3 DEF at
    <2>3. ASSUME NEW m \in ToSet(messages), IsRead(m) PROVE \E j \in 1 .. n : addresses[j] = m
      <3>1. PICK k \in 1 .. Len(messages) : messages[k] = m
        BY <2>1
      <3>2. m \in Reads
        BY <2>1, <2>3, <3>1 DEF Reads
      <3> QED BY <1>1, <3>1, <3>2, PickedElements DEF n
    <2> QED BY <2>2, <2>3 DEF at
  <1>14. read \subseteq DOMAIN Register
    BY <1>6, <1>13 DEF Own, at
  (* Each has its last write, with its data behind it. *)
  <1> DEFINE IsLast(k, a) == /\ sets(k) /\ address(k) = a
                             /\ \A j \in DOMAIN w : sets(j) /\ address(j) = a => j <= k
             last(a) == CHOOSE k \in DOMAIN w : IsLast(k, a)
  <1>15. ASSUME NEW a \in registers
         PROVE  w[last(a) + 1].bits = Register[a]
    <2> DEFINE P == {k \in DOMAIN w : sets(k) /\ address(k) = a}
    <2>1. P # {} /\ P \in SUBSET (1 .. 2 * n + 1)
      BY <1>2, <1>15 DEF registers, places
    <2>2. 2 * n + 1 \in Nat
      BY <1>2
    <2>3. \E k \in P : \A j \in P : j <= k
      BY <2>1, <2>2, LastPosition
    <2>4. \E k \in DOMAIN w : IsLast(k, a)
      BY <2>3
    <2>5. last(a) \in DOMAIN w /\ IsLast(last(a), a)
      BY <2>4
    <2>6. last(a) \in places
      BY <2>5 DEF places
    <2> HIDE DEF last
    <2>7. PICK j \in 1 .. n : last(a) = 2 * j - 1
      BY <1>11, <2>6
    <2>8. last(a) + 1 = 2 * j
      BY <2>7
    <2>9. w[2 * j] = AsWriteData(data[j]) /\ data[j] \in ReadAnswers
      BY <1>2, <1>7
    <2>10. data[j].bits = Register[at(j)] /\ at(j) = a
      <3>1. address(last(a)) = a
        BY <2>5
      <3>2. address(2 * j - 1) = at(j)
        BY <1>8
      <3> QED BY <1>6, <2>7, <3>1, <3>2 DEF Own, at
    <2> QED BY <1>4, <2>8, <2>9, <2>10
  <1>16. Registers(w) = [a \in registers |-> w[last(a) + 1].bits]
    BY DEF Registers, registers, places, sets, address
  <1> HIDE DEF last, read
  <1>17. Registers(w) = [a \in read |-> Register[a]]
    BY <1>12, <1>13, <1>15, <1>16
  <1>18. Last(w) = Barrier
    BY <1>2 DEF Last
  <1> QED BY <1>17, <1>18, <1>14 DEF w, read, addresses, data

(* Each call returns the answers to what it asked for and no others, and a  *)
(* snapshot the program that writes what was read, for any number of        *)
(* connections and of threads that execute on them.                         *)
THEOREM TheirAnswers == MultiSpec => []CallsGetTheirAnswers
  <1>1. ASSUME MultiIInv PROVE CallsGetTheirAnswers
    <2> SUFFICES ASSUME NEW t \in Thread, NEW i \in Index, result[t].status = "ok", result[t].clean
                 PROVE  LET r == result[t]
                            asked == Append(Selected(r.messages[i], Asks), Message("system::Loopback", HaltBits))
                            read == {Decode(m).address : m \in {q \in ToSet(r.messages[i]) : IsRead(q)}}
                        IN IF r.snapshot
                           THEN /\ read \subseteq DOMAIN Register
                                /\ Registers(r.value[i]) = [a \in read |-> Register[a]]
                                /\ Last(r.value[i]) = Barrier
                           ELSE r.value[i] = [k \in DOMAIN asked |-> Answer(asked[k])]
      BY DEF CallsGetTheirAnswers
    <2> DEFINE r == result[t]
               m == r.messages[i]
               answers == [j \in Index |-> Answers(r.messages[j])]
    <2>1. /\ r.messages \in [Index -> Program]
          /\ IF r.snapshot THEN Enough(answers, r.messages) /\ r.value = Transform(answers, r.messages)
             ELSE r.value = answers
      BY <1>1 DEF MultiIInv, InvResults, IsResult
    <2>2. m \in Seq(Messages)
      BY <2>1, ProgramMessages
    <2>3. answers[i] = Answers(m) /\ Answers(m) \in Seq(Messages)
      BY <2>2, AnswersType
    <2>4. CASE ~r.snapshot
      <3>1. r.value[i] = Answers(m)
        BY <2>1, <2>3, <2>4
      <3> QED BY <2>2, <2>4, <3>1, OrdinaryAnswers
    <2>5. CASE r.snapshot
      <3>1. Len(Selected(Answers(m), IsReadData)) >= Len(Selected(m, IsRead))
        BY <2>1, <2>3, <2>5 DEF Enough
      <3>2. r.value[i] = Writes(Selected(m, IsRead), Selected(Answers(m), IsReadData))
        BY <2>1, <2>3, <2>5 DEF Transform, Writes
      <3> DEFINE w == Writes(Selected(m, IsRead), Selected(Answers(m), IsReadData))
                 read == {Decode(q).address : q \in {e \in ToSet(m) : IsRead(e)}}
      <3>3. /\ read \subseteq DOMAIN Register
            /\ Registers(w) = [a \in read |-> Register[a]] /\ Last(w) = Barrier
        <4> HIDE DEF m
        <4> QED BY <2>2, <3>1, SnapshotWrites
      <3> QED BY <2>5, <3>2, <3>3
    <2> QED BY <2>4, <2>5
  <1> QED BY <1>1, MultiInvariance, PTL
----------------------------------------------------------------------------
(* Numbers and their bits. *)

(* Division with remainder.                                                 *)
LEMMA Division ==
  ASSUME NEW n \in Nat, NEW m \in Nat, m > 0
  PROVE  /\ n \div m \in Nat /\ n % m \in 0 .. m - 1
         /\ n = m * (n \div m) + (n % m)
  OBVIOUS

(* Quotient and remainder are the only such numbers.                        *)
LEMMA Remainder ==
  ASSUME NEW n \in Nat, NEW m \in Nat, m > 0, NEW q \in Nat, NEW r \in Nat, r < m, n = m * q + r
  PROVE  q = n \div m /\ r = n % m
  OBVIOUS

(* A set of numbers has a least one.                                        *)
LEMMA Least ==
  ASSUME NEW Z \in SUBSET Nat, Z # {}
  PROVE  \E k \in Z : \A m \in Z : k <= m
  <1>1. PICK k \in Z : \A m \in Z : <<m, k>> \notin OpToRel(<, Nat)
    BY NatLessThanWellFounded, WFMin
  <1>2. ASSUME NEW m \in Z, m < k PROVE FALSE
    <2>1. <<m, k>> \in OpToRel(<, Nat)
      BY <1>2 DEF OpToRel
    <2> QED BY <1>1, <2>1
  <1>3. \A m \in Z : k <= m
    BY <1>2
  <1> QED BY <1>3

(* Rounding up does not round down, and rounds to a multiple.               *)
LEMMA RoundsUp ==
  ASSUME NEW n \in Nat, NEW m \in Nat, m > 0
  PROVE  /\ RoundUp(n, m) \in Nat /\ RoundUp(n, m) >= n
         /\ \E k \in Nat : RoundUp(n, m) = m * k
  <1> DEFINE d == (n + m - 1) \div m
             r == (n + m - 1) % m
  <1>1. n + m - 1 \in Nat
    OBVIOUS
  <1>2. d \in Nat /\ r \in 0 .. m - 1 /\ n + m - 1 = m * d + r
    BY <1>1, Division
  <1>3. RoundUp(n, m) = m * d
    BY DEF RoundUp
  <1> HIDE DEF d, r
  <1>4. m * d \in Nat
    BY <1>2
  <1>5. m * d >= n
    <2> DEFINE x == m * d
    <2>1. x \in Nat /\ n + m - 1 = x + r
      BY <1>2, <1>4
    <2> HIDE DEF x
    <2> QED BY <1>2, <2>1 DEF x
  <1> QED BY <1>2, <1>3, <1>4, <1>5

(* A number shifted right: each time halved, to zero once it is as often.   *)
LEMMA Shifted ==
  ASSUME NEW n \in Nat, NEW depth \in Nat
  PROVE  /\ Shifts(n, depth) \in [0 .. depth -> Nat]
         /\ Shifts(n, depth)[0] = n
         /\ \A k \in 1 .. depth : Shifts(n, depth)[k] = Shifts(n, depth)[k - 1] \div 2
  <1> DEFINE Halves(d, f) == f = [k \in 0 .. d |-> IF k = 0 THEN n ELSE f[k - 1] \div 2]
             T == {d \in Nat : \E f : Halves(d, f) /\ \A k \in 0 .. d : f[k] \in Nat}
  <1>1. 0 \in T
    <2> DEFINE f == [k \in 0 .. 0 |-> n]
    <2>1. Halves(0, f) /\ \A k \in 0 .. 0 : f[k] \in Nat
      OBVIOUS
    <2> QED BY <2>1
  <1>2. ASSUME NEW d \in Nat, d \in T PROVE d + 1 \in T
    <2>1. PICK f : Halves(d, f) /\ \A k \in 0 .. d : f[k] \in Nat
      BY <1>2
    <2> DEFINE g == [k \in 0 .. d + 1 |-> IF k <= d THEN f[k] ELSE f[d] \div 2]
    <2>2. f[d] \div 2 \in Nat
      BY <2>1, Division
    <2>3. \A k \in 0 .. d + 1 : g[k] \in Nat
      BY <2>1, <2>2
    <2>4. ASSUME NEW k \in 0 .. d + 1 PROVE g[k] = IF k = 0 THEN n ELSE g[k - 1] \div 2
      <3>1. CASE k <= d
        <4>1. k \in 0 .. d /\ g[k] = f[k] /\ (k # 0 => k - 1 \in 0 .. d /\ g[k - 1] = f[k - 1])
          BY <3>1
        <4>2. f[k] = IF k = 0 THEN n ELSE f[k - 1] \div 2
          BY <2>1, <4>1
        <4> QED BY <4>1, <4>2
      <3>2. CASE k = d + 1
        <4>1. k # 0 /\ k - 1 = d /\ g[d] = f[d] /\ g[k] = f[d] \div 2
          BY <3>2
        <4> QED BY <4>1
      <3> QED BY <3>1, <3>2
    <2>5. Halves(d + 1, g)
      BY <2>4
    <2> HIDE DEF g, Halves
    <2> QED BY <2>3, <2>5
  <1>3. depth \in T
    <2> HIDE DEF T
    <2> QED BY <1>1, <1>2, Induction
  <1> DEFINE shifted == CHOOSE f : Halves(depth, f)
  <1>4. Halves(depth, shifted)
    BY <1>3
  <1>5. Shifts(n, depth) = shifted
    BY DEF Shifts
  <1> HIDE DEF shifted, T
  <1>6. \A k \in 0 .. depth : shifted[k] = IF k = 0 THEN n ELSE shifted[k - 1] \div 2
    BY <1>4
  <1> DEFINE U == {k \in Nat : k <= depth => shifted[k] \in Nat}
  <1>7. 0 \in U
    BY <1>6
  <1>8. ASSUME NEW k \in Nat, k \in U PROVE k + 1 \in U
    <2> SUFFICES ASSUME k + 1 <= depth PROVE shifted[k + 1] \in Nat
      OBVIOUS
    <2>1. k <= depth /\ k + 1 \in 0 .. depth /\ k + 1 # 0 /\ (k + 1) - 1 = k
      OBVIOUS
    <2>2. shifted[k + 1] = shifted[k] \div 2
      BY <1>6, <2>1
    <2>3. shifted[k] \in Nat
      BY <1>8, <2>1
    <2> QED BY <2>2, <2>3, Division
  <1>9. \A k \in Nat : k \in U
    <2> HIDE DEF U
    <2> QED BY <1>7, <1>8, Induction
  <1>10. \A k \in 0 .. depth : shifted[k] \in Nat
    BY <1>9
  <1>11. shifted = [k \in 0 .. depth |-> IF k = 0 THEN n ELSE shifted[k - 1] \div 2]
    BY <1>4
  <1>12. shifted \in [0 .. depth -> Nat]
    BY <1>10, <1>11
  <1> QED BY <1>5, <1>6, <1>12

(* The number of bits of a number is a number of shifts that leave nothing. *)
LEMMA BitsOfNumber ==
  ASSUME NEW n \in Nat
  PROVE  NumBits(n) \in 0 .. n /\ Shifts(n, n)[NumBits(n)] = 0
  <1> DEFINE s == Shifts(n, n)
             T == {k \in Nat : k <= n => s[k] <= n - k}
             Z == {k \in Nat : k <= n /\ s[k] = 0}
  <1>1. s \in [0 .. n -> Nat] /\ s[0] = n /\ \A k \in 1 .. n : s[k] = s[k - 1] \div 2
    BY Shifted
  <1> HIDE DEF s
  <1>2. 0 \in T
    BY <1>1
  <1>3. ASSUME NEW k \in Nat, k \in T PROVE k + 1 \in T
    <2> SUFFICES ASSUME k + 1 <= n PROVE s[k + 1] <= n - (k + 1)
      OBVIOUS
    <2>1. k \in 0 .. n /\ k + 1 \in 1 .. n /\ (k + 1) - 1 = k
      OBVIOUS
    <2>2. s[k + 1] = s[k] \div 2 /\ s[k] \in Nat /\ s[k] <= n - k
      BY <1>1, <1>3, <2>1
    <2> QED BY <2>2
  <1>4. \A k \in Nat : k \in T
    <2> HIDE DEF T
    <2> QED BY <1>2, <1>3, Induction
  <1>5. n \in Z
    BY <1>1, <1>4
  <1>6. PICK k \in Z : \A m \in Z : k <= m
    BY <1>5, Least
  <1>7. \A j \in 0 .. k - 1 : s[j] # 0
    BY <1>6
  <1>8. k \in 0 .. n /\ s[k] = 0
    BY <1>6
  <1>9. NumBits(n) = CHOOSE i \in 0 .. n : s[i] = 0 /\ \A j \in 0 .. i - 1 : s[j] # 0
    BY DEF NumBits, s
  <1> QED BY <1>7, <1>8, <1>9 DEF s

(* A smaller number is used up sooner, and stays so.                        *)
LEMMA ShiftedOut ==
  ASSUME NEW n \in Nat, NEW h \in 0 .. n, NEW width \in Nat, NumBits(n) < width
  PROVE  Shifts(h, width)[width - 1] = 0 /\ Shifts(h, width)[width] = 0
  <1> DEFINE s == Shifts(n, n)
             t == Shifts(h, width)
             b == NumBits(n)
             T == {k \in Nat : k <= b => t[k] <= s[k]}
             U == {k \in Nat : b <= k /\ k <= width => t[k] = 0}
  <1>1. /\ s \in [0 .. n -> Nat] /\ s[0] = n
        /\ \A k \in 1 .. n : s[k] = s[k - 1] \div 2
        /\ t \in [0 .. width -> Nat] /\ t[0] = h
        /\ \A k \in 1 .. width : t[k] = t[k - 1] \div 2
    <2>1. h \in Nat
      OBVIOUS
    <2> QED BY <2>1, Shifted
  <1>2. b \in 0 .. n /\ s[b] = 0
    BY BitsOfNumber
  <1>3. b < width
    OBVIOUS
  <1> HIDE DEF s, t, b
  <1>4. 0 \in T
    BY <1>1
  <1>5. ASSUME NEW k \in Nat, k \in T PROVE k + 1 \in T
    <2> SUFFICES ASSUME k + 1 <= b PROVE t[k + 1] <= s[k + 1]
      OBVIOUS
    <2>1. /\ k <= b /\ k \in 0 .. n /\ k \in 0 .. width
          /\ k + 1 \in 1 .. n /\ k + 1 \in 1 .. width /\ (k + 1) - 1 = k
      BY <1>2, <1>3
    <2>2. t[k + 1] = t[k] \div 2 /\ s[k + 1] = s[k] \div 2 /\ t[k] \in Nat /\ s[k] \in Nat /\ t[k] <= s[k]
      BY <1>1, <1>5, <2>1
    <2> QED BY <2>2
  <1>6. \A k \in Nat : k \in T
    <2> HIDE DEF T
    <2> QED BY <1>4, <1>5, Induction
  <1>7. t[b] = 0
    <2>1. b \in Nat /\ t[b] <= s[b] /\ t[b] \in Nat
      BY <1>1, <1>2, <1>3, <1>6
    <2> QED BY <1>2, <2>1
  <1>8. 0 \in U
    BY <1>2, <1>7
  <1>9. ASSUME NEW k \in Nat, k \in U PROVE k + 1 \in U
    <2> SUFFICES ASSUME b <= k + 1, k + 1 <= width PROVE t[k + 1] = 0
      OBVIOUS
    <2>1. CASE b = k + 1
      BY <1>7, <2>1
    <2>2. CASE b <= k
      <3>1. k + 1 \in 1 .. width /\ (k + 1) - 1 = k /\ t[k] = 0
        BY <1>9, <2>2
      <3>2. t[k + 1] = t[k] \div 2
        BY <1>1, <3>1
      <3> QED BY <3>1, <3>2
    <2> QED BY <1>2, <2>1, <2>2
  <1>10. \A k \in Nat : k \in U
    <2> HIDE DEF U
    <2> QED BY <1>8, <1>9, Induction
  <1>11. width - 1 \in Nat /\ b <= width - 1
    BY <1>2, <1>3
  <1> QED BY <1>2, <1>3, <1>10, <1>11 DEF t

(* The value of bits, from the highest on.                                  *)
LEMMA Values ==
  ASSUME NEW width \in Nat, NEW bits \in [1 .. width -> Bit], Len(bits) = width
  PROVE  \E value : /\ value[0] = 0
                    /\ \A k \in 1 .. width : value[k] = 2 * value[k - 1] + bits[k]
                    /\ ValueOf(bits) = value[width]
  <1> DEFINE Sums(d, f) == f = [k \in 0 .. d |-> IF k = 0 THEN 0 ELSE 2 * f[k - 1] + bits[k]]
             T == {d \in Nat : \E f : Sums(d, f)}
  <1>1. 0 \in T
    <2> DEFINE f == [k \in 0 .. 0 |-> 0]
    <2>1. Sums(0, f)
      OBVIOUS
    <2> QED BY <2>1
  <1>2. ASSUME NEW d \in Nat, d \in T PROVE d + 1 \in T
    <2>1. PICK f : Sums(d, f)
      BY <1>2
    <2> DEFINE next == 2 * f[d] + bits[d + 1]
               g == [k \in 0 .. d + 1 |-> IF k <= d THEN f[k] ELSE next]
    <2>2. ASSUME NEW k \in 0 .. d + 1 PROVE g[k] = IF k = 0 THEN 0 ELSE 2 * g[k - 1] + bits[k]
      <3>1. CASE k <= d
        <4>1. k \in 0 .. d /\ g[k] = f[k] /\ (k # 0 => k - 1 \in 0 .. d /\ g[k - 1] = f[k - 1])
          BY <3>1
        <4>2. f[k] = IF k = 0 THEN 0 ELSE 2 * f[k - 1] + bits[k]
          BY <2>1, <4>1
        <4> QED BY <4>1, <4>2
      <3>2. CASE k = d + 1
        <4>1. k # 0 /\ k - 1 = d /\ g[d] = f[d] /\ g[k] = next
          BY <3>2
        <4> QED BY <3>2, <4>1
      <3> QED BY <3>1, <3>2
    <2>3. Sums(d + 1, g)
      BY <2>2
    <2> HIDE DEF g, Sums
    <2> QED BY <2>3
  <1>3. width \in T
    <2> HIDE DEF T
    <2> QED BY <1>1, <1>2, Induction
  <1> DEFINE value == CHOOSE f : Sums(width, f)
  <1>4. Sums(width, value)
    BY <1>3
  <1>5. ValueOf(bits) = value[width]
    BY DEF ValueOf
  <1> HIDE DEF value, T
  <1>6. \A k \in 0 .. width : value[k] = IF k = 0 THEN 0 ELSE 2 * value[k - 1] + bits[k]
    BY <1>4
  <1> QED BY <1>5, <1>6

(* The value of the bits of a number is the number, if they are enough.     *)
LEMMA BitsKeepValue ==
  ASSUME NEW h \in Nat, NEW width \in Nat, width > 0, Shifts(h, width)[width] = 0
  PROVE  /\ Bits(h, width) \in Seq(Bit) /\ Len(Bits(h, width)) = width
         /\ Bits(h, width)[1] = Shifts(h, width)[width - 1] % 2
         /\ ValueOf(Bits(h, width)) = h
  <1> DEFINE s == Shifts(h, width)
             bits == Bits(h, width)
  <1>1. /\ s \in [0 .. width -> Nat] /\ s[0] = h /\ s[width] = 0
        /\ \A k \in 1 .. width : s[k] = s[k - 1] \div 2
    BY Shifted
  <1>2. bits = [i \in 1 .. width |-> s[width - i] % 2]
    BY DEF Bits
  <1> HIDE DEF s, bits
  <1>3. \A i \in 1 .. width : width - i \in 0 .. width /\ s[width - i] % 2 \in Bit
    <2> SUFFICES ASSUME NEW i \in 1 .. width PROVE width - i \in 0 .. width /\ s[width - i] % 2 \in Bit
      OBVIOUS
    <2>1. width - i \in 0 .. width
      OBVIOUS
    <2>2. s[width - i] \in Nat
      BY <1>1, <2>1
    <2> QED BY <2>1, <2>2 DEF Bit
  <1>4. bits \in [1 .. width -> Bit] /\ Len(bits) = width /\ bits \in Seq(Bit)
    BY <1>2, <1>3
  <1>5. PICK value : /\ value[0] = 0
                     /\ \A k \in 1 .. width : value[k] = 2 * value[k - 1] + bits[k]
                     /\ ValueOf(bits) = value[width]
    BY <1>4, Values
  <1> DEFINE T == {k \in Nat : k <= width => value[k] = s[width - k]}
  <1>6. 0 \in T
    BY <1>1, <1>5
  <1>7. ASSUME NEW k \in Nat, k \in T PROVE k + 1 \in T
    <2> SUFFICES ASSUME k + 1 <= width PROVE value[k + 1] = s[width - (k + 1)]
      OBVIOUS
    <2> DEFINE j == width - (k + 1)
    <2>1. k <= width /\ k + 1 \in 1 .. width /\ (k + 1) - 1 = k /\ j \in 0 .. width /\ j + 1 \in 1 .. width
      OBVIOUS
    <2>2. value[k + 1] = 2 * value[k] + bits[k + 1]
      BY <1>5, <2>1
    <2>3. bits[k + 1] = s[j] % 2
      BY <1>2, <2>1
    <2>4. value[k] = s[j + 1] /\ width - k = j + 1
      BY <1>7, <2>1
    <2>5. s[j + 1] = s[j] \div 2 /\ s[j] \in Nat
      <3>1. (j + 1) - 1 = j
        OBVIOUS
      <3> QED BY <1>1, <2>1, <3>1
    <2> HIDE DEF j
    <2>6. s[j] = 2 * (s[j] \div 2) + (s[j] % 2)
      BY <2>5
    <2> QED BY <2>2, <2>3, <2>4, <2>5, <2>6 DEF j
  <1>8. \A k \in Nat : k \in T
    <2> HIDE DEF T
    <2> QED BY <1>6, <1>7, Induction
  <1>9. value[width] = s[0]
    BY <1>8
  <1>10. bits[1] = s[width - 1] % 2
    BY <1>2
  <1> QED BY <1>1, <1>4, <1>5, <1>9, <1>10 DEF s, bits
----------------------------------------------------------------------------
(* The layout of messages. *)

(* The messages of a parameter set.                                         *)
MessagesOf(p) ==
  UNION {{[header |-> h, payload |-> bits] : bits \in PayloadsOf(p.dictionary[h + 1])} :
           h \in 0 .. Len(p.dictionary) - 1}

(* What divides PHY words and messages.                                     *)
Granule(p) == IF p.phyword % p.subword = 0 THEN p.subword ELSE p.phyword

(* A number that another divides is its product with the quotient.          *)
LEMMA Divides ==
  ASSUME NEW n \in Nat, NEW m \in Nat, m > 0, n % m = 0
  PROVE  \E k \in Nat : n = m * k
  <1>1. n \div m \in Nat /\ n = m * (n \div m) + (n % m)
    BY Division
  <1> DEFINE k == n \div m
  <1>2. k \in Nat /\ n = m * k + 0
    BY <1>1
  <1> HIDE DEF k
  <1>3. m * k + 0 = m * k
    BY <1>2
  <1> QED BY <1>2, <1>3

(* Words, subwords and headers have positive sizes, and granules divide     *)
(* both.                                                                    *)
LEMMA WordSizes ==
  ASSUME NEW p \in Parameter
  PROVE  /\ p.phyword \in Nat /\ p.phyword > 0 /\ p.subword \in Nat /\ p.subword > 0
         /\ Len(p.dictionary) - 1 \in Nat /\ NumBits(Len(p.dictionary) - 1) < HeaderWidth(p)
         /\ HeaderWidth(p) \in Nat /\ HeaderWidth(p) > 0
         /\ Granule(p) \in Nat /\ Granule(p) > 0 /\ \E k \in Nat : p.phyword = Granule(p) * k
         /\ \E k \in Nat : p.subword = Granule(p) * k
         /\ HeaderWidth(p) <= Granule(p) \/ Granule(p) = p.phyword
  <1>1. /\ p.phyword \in Nat /\ p.phyword > 0 /\ p.subword \in Nat /\ p.subword > 0
        /\ p.alignment \in Nat /\ p.alignment > 0
        /\ p.dictionary \in Seq(Nat) /\ p.dictionary # <<>>
        /\ p.phyword % p.subword = 0 \/ p.subword % p.phyword = 0
        /\ HeaderWidth(p) <= p.subword
    BY ParameterAssumption
  <1> DEFINE n == Len(p.dictionary) - 1
             b == NumBits(n)
  <1>2. n \in Nat
    BY <1>1, EmptySeq
  <1> HIDE DEF n
  <1>3. b \in Nat
    BY <1>2, BitsOfNumber
  <1>4. HeaderWidth(p) = RoundUp(1 + b, p.alignment)
    BY DEF HeaderWidth, n
  <1> HIDE DEF b
  <1>5. HeaderWidth(p) \in Nat /\ HeaderWidth(p) >= 1 + b
    <2>1. 1 + b \in Nat
      BY <1>3
    <2> QED BY <1>1, <1>4, <2>1, RoundsUp
  <1>6. HeaderWidth(p) > 0 /\ b < HeaderWidth(p)
    BY <1>3, <1>5
  <1>7. CASE p.phyword % p.subword = 0
    <2>1. Granule(p) = p.subword
      BY <1>7 DEF Granule
    <2>2. \E k \in Nat : p.subword = p.subword * k
      <3>1. p.subword = p.subword * 1
        BY <1>1
      <3> QED BY <3>1
    <2>3. \E k \in Nat : p.phyword = p.subword * k
      BY <1>1, <1>7, Divides
    <2> QED BY <1>1, <1>2, <1>5, <1>6, <2>1, <2>2, <2>3 DEF n, b
  <1>8. CASE p.phyword % p.subword # 0 /\ p.subword % p.phyword = 0
    <2>1. Granule(p) = p.phyword
      BY <1>8 DEF Granule
    <2>2. \E k \in Nat : p.phyword = p.phyword * k
      <3>1. p.phyword = p.phyword * 1
        BY <1>1
      <3> QED BY <3>1
    <2>3. \E k \in Nat : p.subword = p.phyword * k
      BY <1>1, <1>8, Divides
    <2> QED BY <1>1, <1>2, <1>5, <1>6, <2>1, <2>2, <2>3 DEF n, b
  <1> QED BY <1>1, <1>7, <1>8

(* Finitely many numbers have a largest.                                    *)
LEMMA Largest ==
  ASSUME NEW n \in Nat, NEW f \in [0 .. n -> Nat]
  PROVE  \E k \in 0 .. n : \A i \in 0 .. n : f[i] <= f[k]
  <1> DEFINE T == {m \in Nat : m <= n => \E k \in 0 .. m : \A i \in 0 .. m : f[i] <= f[k]}
  <1>1. 0 \in T
    OBVIOUS
  <1>2. ASSUME NEW m \in Nat, m \in T PROVE m + 1 \in T
    <2> SUFFICES ASSUME m + 1 <= n PROVE \E k \in 0 .. m + 1 : \A i \in 0 .. m + 1 : f[i] <= f[k]
      OBVIOUS
    <2>1. PICK k \in 0 .. m : \A i \in 0 .. m : f[i] <= f[k]
      BY <1>2
    <2>2. f[k] \in Nat /\ f[m + 1] \in Nat
      OBVIOUS
    <2>3. CASE f[m + 1] <= f[k]
      <3>1. \A i \in 0 .. m + 1 : f[i] <= f[k]
        BY <2>1, <2>3
      <3> QED BY <3>1
    <2>4. CASE f[k] <= f[m + 1]
      <3>1. ASSUME NEW i \in 0 .. m + 1 PROVE f[i] <= f[m + 1]
        <4>1. f[i] \in Nat /\ (i # m + 1 => f[i] <= f[k])
          BY <2>1
        <4> QED BY <2>2, <2>4, <4>1
      <3> QED BY <3>1
    <2> QED BY <2>2, <2>3, <2>4
  <1>3. n \in T
    <2> HIDE DEF T
    <2> QED BY <1>1, <1>2, Induction
  <1> QED BY <1>3

(* A message has room for header and payload, fills a PHY word and consists *)
(* of granules.                                                             *)
LEMMA MessageSizes ==
  ASSUME NEW p \in Parameter, NEW h \in 0 .. Len(p.dictionary) - 1
  PROVE  /\ p.dictionary[h + 1] \in Nat
         /\ WordWidth(p, h) \in Nat /\ WordWidth(p, h) >= p.phyword
         /\ WordWidth(p, h) >= HeaderWidth(p) + p.dictionary[h + 1]
         /\ \E k \in Nat : WordWidth(p, h) = Granule(p) * k
  <1> DEFINE HW == HeaderWidth(p)
             g == Granule(p)
             P == p.phyword
             s == p.subword
             d == p.dictionary[h + 1]
             size == RoundUp(HW + d, s)
  <1>1. /\ P \in Nat /\ P > 0 /\ s \in Nat /\ s > 0 /\ HW \in Nat /\ g \in Nat
        /\ Len(p.dictionary) - 1 \in Nat
        /\ (\E k \in Nat : P = g * k) /\ \E k \in Nat : s = g * k
    BY WordSizes
  <1>2. d \in Nat
    <2>1. p.dictionary \in Seq(Nat)
      BY ParameterAssumption
    <2>2. Len(p.dictionary) \in Nat
      BY <2>1, LenProperties
    <2>3. h + 1 \in 1 .. Len(p.dictionary)
      BY <2>2
    <2> QED BY <2>1, <2>3, ElementOfSeq
  <1>3. WordWidth(p, h) = IF size < P THEN P ELSE size
    BY DEF WordWidth
  <1> HIDE DEF HW, g, P, s, d
  <1>4. HW + d \in Nat
    BY <1>1, <1>2
  <1>5. size \in Nat /\ size >= HW + d /\ \E k \in Nat : size = s * k
    BY <1>1, <1>4, RoundsUp
  <1> HIDE DEF size
  <1>6. \E k \in Nat : size = g * k
    <2>1. PICK i \in Nat : size = s * i
      BY <1>5
    <2>2. PICK j \in Nat : s = g * j
      BY <1>1
    <2>3. (g * j) * i = g * (j * i) /\ j * i \in Nat
      BY <1>1
    <2> QED BY <2>1, <2>2, <2>3
  <1>7. CASE size < P
    <2>1. WordWidth(p, h) = P
      BY <1>3, <1>7
    <2>2. P >= HW + d /\ P >= P
      BY <1>1, <1>4, <1>5, <1>7
    <2> QED BY <1>1, <1>2, <2>1, <2>2 DEF HW, g, P, d
  <1>8. CASE ~ (size < P)
    <2>1. WordWidth(p, h) = size
      BY <1>3, <1>8
    <2>2. size >= P
      BY <1>1, <1>5, <1>8
    <2> QED BY <1>2, <1>5, <1>6, <2>1, <2>2 DEF HW, g, P, d
  <1> QED BY <1>7, <1>8

(* LargestSize is a size, and none is larger.                               *)
LEMMA LargestMessage ==
  ASSUME NEW p \in Parameter
  PROVE  /\ LargestSize(p) \in Nat
         /\ \A h \in 0 .. Len(p.dictionary) - 1 : WordWidth(p, h) <= LargestSize(p)
  <1> DEFINE n == Len(p.dictionary) - 1
             f == [h \in 0 .. n |-> WordWidth(p, h)]
             S == {WordWidth(p, h) : h \in 0 .. n}
  <1>1. n \in Nat
    BY WordSizes
  <1>2. f \in [0 .. n -> Nat]
    BY MessageSizes
  <1>3. \A h \in 0 .. n : WordWidth(p, h) = f[h]
    OBVIOUS
  <1>4. LargestSize(p) = CHOOSE x \in S : \A y \in S : x >= y
    BY DEF LargestSize, Max
  <1> HIDE DEF n, f
  <1>5. PICK k \in 0 .. n : \A i \in 0 .. n : f[i] <= f[k]
    BY <1>1, <1>2, Largest
  <1>6. f[k] \in S /\ \A y \in S : f[k] >= y
    <2>1. \A i \in 0 .. n : f[i] \in Nat
      BY <1>2
    <2> QED BY <1>3, <1>5, <2>1
  <1>7. LargestSize(p) \in S /\ \A y \in S : LargestSize(p) >= y
    BY <1>4, <1>6
  <1>8. \A h \in 0 .. n : WordWidth(p, h) \in S /\ WordWidth(p, h) \in Nat
    BY <1>2, <1>3
  <1>9. LargestSize(p) \in Nat
    BY <1>7, <1>8
  <1> QED BY <1>7, <1>8, <1>9 DEF n

(* A message and its bits: the header on the left, zero at first, and the   *)
(* payload on the right.                                                    *)
LEMMA MessageParts ==
  ASSUME NEW p \in Parameter, NEW m \in MessagesOf(p)
  PROVE  /\ m.header \in 0 .. Len(p.dictionary) - 1
         /\ m = [header |-> m.header, payload |-> m.payload]
         /\ m.payload \in [1 .. p.dictionary[m.header + 1] -> Bit]
  <1>1. PICK h \in 0 .. Len(p.dictionary) - 1 :
          \E bits \in PayloadsOf(p.dictionary[h + 1]) : m = [header |-> h, payload |-> bits]
    BY DEF MessagesOf
  <1>2. PICK bits \in PayloadsOf(p.dictionary[h + 1]) : m = [header |-> h, payload |-> bits]
    BY <1>1
  <1>3. h + 1 \in DOMAIN p.dictionary
    <2>1. p.dictionary \in Seq(Nat)
      BY ParameterAssumption
    <2>2. Len(p.dictionary) \in Nat /\ DOMAIN p.dictionary = 1 .. Len(p.dictionary)
      BY <2>1, LenProperties
    <2> QED BY <2>2
  <1>4. bits \in [1 .. p.dictionary[h + 1] -> Bit]
    BY <1>3, PayloadsOfAssumption
  <1> QED BY <1>2, <1>4

(* What get_raw writes: as many bits as the message is wide, the first of   *)
(* them zero, with the header on the left and the payload on the right.     *)
LEMMA RawBits ==
  ASSUME NEW p \in Parameter, NEW m \in MessagesOf(p)
  PROVE  LET HW == HeaderWidth(p)
             W == WordWidth(p, m.header)
             d == p.dictionary[m.header + 1]
             raw == Raw(p, m)
         IN /\ raw \in Seq(Bit) /\ Len(raw) = W /\ raw[1] = 0
            /\ \A i \in 1 .. HW : raw[i] = Bits(m.header, HW)[i]
            /\ \A i \in 1 .. d : raw[W - d + i] = m.payload[i]
  <1> DEFINE h == m.header
             HW == HeaderWidth(p)
             W == WordWidth(p, h)
             d == p.dictionary[h + 1]
             n == Len(p.dictionary) - 1
             head == Bits(h, HW)
             zeros == Zeros(W - HW - d)
             body == m.payload
  <1>1. h \in 0 .. n /\ body \in [1 .. d -> Bit]
    BY MessageParts
  <1>2. /\ n \in Nat /\ NumBits(n) < HW /\ HW \in Nat /\ HW > 0
        /\ d \in Nat /\ W \in Nat /\ W >= HW + d
    BY <1>1, WordSizes, MessageSizes
  <1> HIDE DEF h, HW, W, d, n, body
  <1>3. head \in Seq(Bit) /\ Len(head) = HW /\ head[1] = 0
    <2>1. Shifts(h, HW)[HW - 1] = 0 /\ Shifts(h, HW)[HW] = 0
      BY <1>1, <1>2, ShiftedOut
    <2>2. h \in Nat
      BY <1>1, <1>2
    <2>3. head \in Seq(Bit) /\ Len(head) = HW /\ head[1] = 0 % 2
      BY <1>2, <2>1, <2>2, BitsKeepValue
    <2> QED BY <2>3
  <1>4. zeros \in Seq(Bit) /\ Len(zeros) = W - HW - d
    <2>1. W - HW - d \in Nat
      BY <1>2
    <2> QED BY <2>1 DEF Zeros, Bit
  <1>5. body \in Seq(Bit) /\ Len(body) = d
    BY <1>1, <1>2
  <1> HIDE DEF head, zeros
  <1>6. Raw(p, m) = (head \o zeros) \o body
    <2>1. Len(m.payload) = d
      BY <1>5 DEF body
    <2> QED BY <2>1 DEF Raw, head, zeros, body, h, HW, W
  <1> DEFINE left == head \o zeros
  <1>7. left \in Seq(Bit) /\ Len(left) = W - d /\ \A i \in 1 .. HW : left[i] = head[i]
    <2>1. /\ left \in Seq(Bit) /\ Len(left) = Len(head) + Len(zeros)
          /\ \A i \in 1 .. Len(head) + Len(zeros) :
               left[i] = IF i <= Len(head) THEN head[i] ELSE zeros[i - Len(head)]
      BY <1>3, <1>4, ConcatProperties
    <2>2. Len(head) + Len(zeros) = W - d
      BY <1>2, <1>3, <1>4
    <2>3. \A i \in 1 .. HW : i \in 1 .. W - d
      BY <1>2
    <2> QED BY <1>3, <2>1, <2>2, <2>3
  <1> HIDE DEF left
  <1> DEFINE raw == left \o body
  <1>8. /\ raw \in Seq(Bit) /\ Len(raw) = W
        /\ \A i \in 1 .. W : raw[i] = IF i <= W - d THEN left[i] ELSE body[i - (W - d)]
    <2>1. /\ raw \in Seq(Bit) /\ Len(raw) = (W - d) + d
          /\ \A i \in 1 .. (W - d) + d : raw[i] = IF i <= W - d THEN left[i] ELSE body[i - (W - d)]
      BY <1>5, <1>7, ConcatProperties
    <2>2. (W - d) + d = W
      BY <1>2
    <2> QED BY <2>1, <2>2
  <1> HIDE DEF raw
  <1>9. \A i \in 1 .. HW : raw[i] = head[i]
    BY <1>2, <1>7, <1>8
  <1>10. ASSUME NEW i \in 1 .. d PROVE raw[W - d + i] = body[i]
    <2>1. W - d + i \in 1 .. W /\ ~ (W - d + i <= W - d) /\ (W - d + i) - (W - d) = i
      BY <1>2
    <2> QED BY <1>8, <2>1
  <1>11. raw[1] = 0
    BY <1>2, <1>3, <1>9
  <1>12. Raw(p, m) = raw
    BY <1>6 DEF raw, left
  <1> QED BY <1>8, <1>9, <1>10, <1>11, <1>12 DEF h, HW, W, d, body, head

(* The header is found in the first bits of a message.                      *)
LEMMA HeaderFound ==
  ASSUME NEW p \in Parameter, NEW m \in MessagesOf(p), NEW bits \in Seq(Bit),
         Len(bits) >= HeaderWidth(p), \A i \in 1 .. HeaderWidth(p) : bits[i] = Raw(p, m)[i]
  PROVE  ValueOf(SubSeq(bits, 1, HeaderWidth(p))) = m.header
  <1> DEFINE h == m.header
             HW == HeaderWidth(p)
             n == Len(p.dictionary) - 1
             head == Bits(h, HW)
             first == SubSeq(bits, 1, HW)
  <1>1. /\ h \in 0 .. n /\ n \in Nat /\ NumBits(n) < HW /\ HW \in Nat /\ HW > 0
        /\ \A i \in 1 .. HW : Raw(p, m)[i] = head[i]
    BY MessageParts, RawBits, WordSizes
  <1>2. Len(bits) \in Nat /\ \A i \in 1 .. Len(bits) : bits[i] \in Bit
    BY LenProperties, ElementOfSeq
  <1>3. Len(bits) >= HW /\ \A i \in 1 .. HW : bits[i] = head[i]
    BY <1>1
  <1> HIDE DEF h, HW, n
  <1>4. head \in Seq(Bit) /\ Len(head) = HW /\ ValueOf(head) = h
    <2>1. Shifts(h, HW)[HW] = 0 /\ h \in Nat
      BY <1>1, ShiftedOut
    <2> QED BY <1>1, <2>1, BitsKeepValue
  <1> HIDE DEF head
  <1>5. first \in Seq(Bit) /\ Len(first) = HW /\ \A i \in 1 .. HW : first[i] = bits[i]
    <2>1. \A i \in 1 .. HW : bits[i] \in Bit
      BY <1>1, <1>2, <1>3
    <2>2. /\ first \in Seq(Bit) /\ Len(first) = (IF 1 <= HW THEN HW - 1 + 1 ELSE 0)
          /\ \A i \in 1 .. HW - 1 + 1 : first[i] = bits[1 + i - 1]
      BY <1>1, <2>1, SubSeqProperties
    <2>3. \A i \in 1 .. HW : 1 + i - 1 = i /\ i \in 1 .. HW - 1 + 1
      BY <1>1
    <2> QED BY <1>1, <2>2, <2>3
  <1> HIDE DEF first
  <1>6. first = head
    <2>1. \A i \in 1 .. Len(first) : first[i] = head[i]
      BY <1>3, <1>5
    <2> QED BY <1>4, <1>5, <2>1, SeqEqual
  <1> QED BY <1>4, <1>6 DEF first, HW, h

(* A message is found in its bits.                                          *)
LEMMA MessageFound ==
  ASSUME NEW p \in Parameter, NEW m \in MessagesOf(p), NEW bits \in Seq(Bit),
         Len(bits) >= WordWidth(p, m.header),
         \A i \in 1 .. WordWidth(p, m.header) : bits[i] = Raw(p, m)[i]
  PROVE  MessageIn(p, m.header, bits) = m
  <1> DEFINE h == m.header
             W == WordWidth(p, h)
             d == p.dictionary[h + 1]
             last == SubSeq(bits, W - d + 1, W)
             body == m.payload
  <1>1. /\ h \in 0 .. Len(p.dictionary) - 1 /\ body \in [1 .. d -> Bit]
        /\ m = [header |-> h, payload |-> body]
        /\ \A i \in 1 .. d : Raw(p, m)[W - d + i] = body[i]
    BY MessageParts, RawBits
  <1>2. d \in Nat /\ W \in Nat /\ W >= d
    <2>1. d \in Nat /\ W \in Nat /\ W >= HeaderWidth(p) + d /\ HeaderWidth(p) \in Nat
      BY <1>1, WordSizes, MessageSizes
    <2> QED BY <2>1
  <1>3. Len(bits) \in Nat /\ (\A i \in 1 .. Len(bits) : bits[i] \in Bit) /\ Len(bits) >= W
    BY LenProperties, ElementOfSeq
  <1>4. \A i \in 1 .. W : bits[i] = Raw(p, m)[i]
    OBVIOUS
  <1>5. MessageIn(p, h, bits) = [header |-> h, payload |-> last]
    BY DEF MessageIn
  <1> HIDE DEF h, W, d, body
  <1>6. /\ last \in Seq(Bit) /\ Len(last) = d
        /\ \A i \in 1 .. d : last[i] = bits[W - d + i]
    <2>1. \A i \in W - d + 1 .. W : bits[i] \in Bit
      BY <1>2, <1>3
    <2>2. W - d + 1 \in Int /\ W \in Int
      BY <1>2
    <2>3. /\ last \in Seq(Bit)
          /\ Len(last) = IF W - d + 1 <= W THEN W - (W - d + 1) + 1 ELSE 0
          /\ \A i \in 1 .. W - (W - d + 1) + 1 : last[i] = bits[(W - d + 1) + i - 1]
      BY <2>1, <2>2, SubSeqProperties
    <2>4. W - (W - d + 1) + 1 = d /\ \A i \in 1 .. d : (W - d + 1) + i - 1 = W - d + i
      BY <1>2
    <2> QED BY <1>2, <2>3, <2>4
  <1> HIDE DEF last
  <1>7. body \in Seq(Bit) /\ Len(body) = d
    BY <1>1, <1>2
  <1>8. \A i \in 1 .. d : last[i] = body[i]
    <2>1. \A i \in 1 .. d : W - d + i \in 1 .. W
      BY <1>2
    <2> QED BY <1>1, <1>4, <1>6, <2>1
  <1>9. last = body
    BY <1>6, <1>7, <1>8, SeqEqual
  <1> QED BY <1>1, <1>5, <1>9 DEF h
----------------------------------------------------------------------------
(* What is underway from the encoder to the decoder: messages in order, and *)
(* padding that begins with a comma and ends with a word. *)

(* The end of a word, seen from the end of another.                         *)
Boundary(x, b, p) == \E z \in Int : x = b + p.phyword * z
SameEnds(a, b, x, p) == \E z \in Int : a = b - x + p.phyword * z

(* In the bits from one cut to the next lies the message at m.              *)
IsMessage(s, q, p, from, to, m) ==
  /\ m \in 1 .. Len(q) /\ to = from + WordWidth(p, q[m].header) /\ to <= Len(s)
  /\ \A i \in 1 .. WordWidth(p, q[m].header) : s[from + i] = Raw(p, q[m])[i]
IsPadding(s, b, p, from, to) ==
  /\ from < to /\ to <= from + p.phyword /\ to <= Len(s)
  /\ Boundary(to, b, p) /\ s[from + 1] = 1

Piece(s, b, q, p, e, c, k) ==
  \/ c[k] = c[k - 1] + 1 /\ IsMessage(s, q, p, e[k - 1], e[k], c[k])
  \/ c[k] = c[k - 1] /\ IsPadding(s, b, p, e[k - 1], e[k])

(* e holds the n cuts, c how many messages are in front of each.            *)
Framed(s, b, q, p, n, e, c) ==
  /\ e[0] = 0 /\ c[0] = 0 /\ e[n] = Len(s) /\ c[n] = Len(q)
  /\ \A k \in 1 .. n : Piece(s, b, q, p, e, c, k)
IsFirst(e, c, x, m) == e[1] = x /\ c[1] = m
InOrder(s, b, q, p) ==
  \E n \in Nat : \E e, c \in [0 .. n -> Nat] : Framed(s, b, q, p, n, e, c)

(* A sequence behind a place.                                               *)
IsRest(t, s, x) ==
  /\ Len(t) = Len(s) - x
  /\ \A i \in 1 .. Len(t) : t[i] = s[x + i]

(* SubSeq returns what is behind a place.                                   *)
LEMMA Behind ==
  ASSUME NEW S, NEW s \in Seq(S), NEW x \in 0 .. Len(s)
  PROVE  SubSeq(s, x + 1, Len(s)) \in Seq(S) /\ IsRest(SubSeq(s, x + 1, Len(s)), s, x)
  <1> DEFINE n == Len(s)
             t == SubSeq(s, x + 1, n)
  <1>1. n \in Nat /\ x \in 0 .. n /\ \A i \in 1 .. n : s[i] \in S
    BY LenProperties, ElementOfSeq
  <1> HIDE DEF n
  <1>2. \A i \in x + 1 .. n : s[i] \in S
    BY <1>1
  <1>3. x + 1 \in Int /\ n \in Int
    BY <1>1
  <1>4. /\ t \in Seq(S) /\ Len(t) = IF x + 1 <= n THEN n - (x + 1) + 1 ELSE 0
        /\ \A i \in 1 .. n - (x + 1) + 1 : t[i] = s[(x + 1) + i - 1]
    BY <1>2, <1>3, SubSeqProperties
  <1> HIDE DEF t
  <1>5. n - (x + 1) + 1 = n - x /\ \A i \in 1 .. n - x : (x + 1) + i - 1 = x + i
    BY <1>1
  <1>6. Len(t) = n - x
    BY <1>1, <1>4
  <1>7. \A i \in 1 .. n - x : t[i] = s[x + i]
    BY <1>4, <1>5
  <1>8. \A i \in 1 .. Len(t) : t[i] = s[x + i]
    BY <1>6, <1>7
  <1> QED BY <1>4, <1>6, <1>8 DEF IsRest, t, n

(* Cuts ascend.                                                             *)
LEMMA CutsAscend ==
  ASSUME NEW p \in Parameter, NEW s \in Seq(Bit), NEW b \in Nat, NEW q \in Seq(MessagesOf(p)),
         NEW n \in Nat, NEW e \in [0 .. n -> Nat], NEW c \in [0 .. n -> Nat],
         Framed(s, b, q, p, n, e, c), n > 0
  PROVE  \A k \in 1 .. n : e[1] <= e[k] /\ c[1] <= c[k]
  <1> DEFINE T == {k \in Nat : k + 1 <= n => e[1] <= e[k + 1] /\ c[1] <= c[k + 1]}
  <1>1. \A k \in 1 .. n : Piece(s, b, q, p, e, c, k)
    BY DEF Framed
  <1>2. 0 \in T
    BY <1>1
  <1>3. ASSUME NEW k \in Nat, k \in T PROVE k + 1 \in T
    <2> SUFFICES ASSUME (k + 1) + 1 <= n PROVE e[1] <= e[(k + 1) + 1] /\ c[1] <= c[(k + 1) + 1]
      OBVIOUS
    <2> DEFINE j == (k + 1) + 1
    <2>1. /\ j \in 1 .. n /\ j - 1 = k + 1 /\ 1 \in 0 .. n /\ k + 1 \in 0 .. n
          /\ e[1] \in Nat /\ e[k + 1] \in Nat /\ e[j] \in Nat
          /\ c[1] \in Nat /\ c[k + 1] \in Nat /\ c[j] \in Nat
          /\ e[1] <= e[k + 1] /\ c[1] <= c[k + 1]
      BY <1>1, <1>3
    <2> HIDE DEF j
    <2>2. e[k + 1] <= e[j] /\ c[k + 1] <= c[j]
      <3>1. Piece(s, b, q, p, e, c, j)
        BY <1>1, <2>1
      <3>2. CASE c[j] = c[j - 1] + 1 /\ IsMessage(s, q, p, e[j - 1], e[j], c[j])
        <4>1. q[c[j]] \in MessagesOf(p)
          BY <3>2, ElementOfSeq DEF IsMessage
        <4>2. WordWidth(p, q[c[j]].header) \in Nat
          BY <4>1, MessageParts, MessageSizes
        <4> DEFINE from == e[k + 1] to == e[j] i == c[k + 1] l == c[j]
                   W == WordWidth(p, q[c[j]].header)
        <4>3. /\ from \in Nat /\ to \in Nat /\ i \in Nat /\ l \in Nat /\ W \in Nat
              /\ to = from + W /\ l = i + 1
          BY <2>1, <3>2, <4>2 DEF IsMessage
        <4> HIDE DEF from, to, i, l, W
        <4>4. from <= to /\ i <= l
          BY <4>3
        <4> QED BY <4>4 DEF from, to, i, l
      <3>3. CASE c[j] = c[j - 1] /\ IsPadding(s, b, p, e[j - 1], e[j])
        BY <2>1, <3>3 DEF IsPadding
      <3> QED BY <3>1, <3>2, <3>3 DEF Piece
    <2> QED BY <2>1, <2>2 DEF j
  <1>4. \A k \in Nat : k \in T
    <2> HIDE DEF T
    <2> QED BY <1>2, <1>3, Induction
  <1>5. ASSUME NEW k \in 1 .. n PROVE e[1] <= e[k] /\ c[1] <= c[k]
    <2>1. k - 1 \in Nat /\ (k - 1) + 1 = k /\ k <= n
      BY <1>1
    <2> QED BY <1>4, <2>1
  <1> QED BY <1>5

(* A message or padding behind a cut, counted from there.                   *)
LEMMA MessageBehind ==
  ASSUME NEW p \in Parameter, NEW s \in Seq(Bit), NEW q \in Seq(MessagesOf(p)),
         NEW x \in Nat, NEW m \in Nat,
         NEW t \in Seq(Bit), IsRest(t, s, x), NEW r \in Seq(MessagesOf(p)), IsRest(r, q, m),
         NEW from \in Nat, NEW to \in Nat, x <= from, NEW i \in Nat, m < i,
         IsMessage(s, q, p, from, to, i)
  PROVE  IsMessage(t, r, p, from - x, to - x, i - m)
  <1> DEFINE W == WordWidth(p, q[i].header)
             raw == Raw(p, q[i])
  <1>1. /\ i \in 1 .. Len(q) /\ to = from + W /\ to <= Len(s)
        /\ \A l \in 1 .. W : s[from + l] = raw[l]
    BY DEF IsMessage
  <1>2. W \in Nat
    <2>1. q[i] \in MessagesOf(p)
      BY <1>1, ElementOfSeq
    <2> QED BY <2>1, MessageParts, MessageSizes
  <1>3. Len(s) \in Nat /\ Len(t) \in Nat /\ Len(q) \in Nat /\ Len(r) \in Nat
    <2>1. Len(s) \in Nat /\ Len(t) \in Nat
      BY LenProperties
    <2>2. Len(q) \in Nat /\ Len(r) \in Nat
      BY LenProperties
    <2> QED BY <2>1, <2>2
  <1>4. /\ Len(t) = Len(s) - x /\ \A l \in 1 .. Len(t) : t[l] = s[x + l]
        /\ Len(r) = Len(q) - m /\ \A l \in 1 .. Len(r) : r[l] = q[m + l]
    BY DEF IsRest
  <1>5. i - m \in 1 .. Len(r) /\ m + (i - m) = i
    BY <1>1, <1>3, <1>4
  <1>6. r[i - m] = q[i]
    BY <1>4, <1>5
  <1> HIDE DEF W, raw
  <1>7. to - x = (from - x) + W /\ to - x <= Len(t)
    BY <1>1, <1>2, <1>3, <1>4
  <1>8. ASSUME NEW l \in 1 .. W PROVE t[(from - x) + l] = raw[l]
    <2>1. (from - x) + l \in 1 .. Len(t) /\ x + ((from - x) + l) = from + l
      BY <1>1, <1>2, <1>3, <1>4
    <2>2. t[(from - x) + l] = s[x + ((from - x) + l)]
      BY <1>4, <2>1
    <2> QED BY <1>1, <2>1, <2>2
  <1> QED BY <1>5, <1>6, <1>7, <1>8 DEF IsMessage, W, raw

(* The same of padding.                                                     *)
LEMMA PaddingBehind ==
  ASSUME NEW p \in Parameter, NEW s \in Seq(Bit), NEW b \in Nat, NEW a \in Nat,
         NEW x \in Nat, SameEnds(a, b, x, p), NEW t \in Seq(Bit), IsRest(t, s, x),
         NEW from \in Nat, NEW to \in Nat, x <= from,
         IsPadding(s, b, p, from, to)
  PROVE  IsPadding(t, a, p, from - x, to - x)
  <1> DEFINE P == p.phyword
  <1>1. /\ from < to /\ to <= from + P /\ to <= Len(s)
        /\ Boundary(to, b, p) /\ s[from + 1] = 1
    BY DEF IsPadding
  <1>2. P \in Nat
    BY WordSizes
  <1>3. PICK y \in Int : a = b - x + P * y
    BY DEF SameEnds
  <1>4. PICK z \in Int : to = b + P * z
    BY <1>1 DEF Boundary
  <1>5. Len(s) \in Nat /\ Len(t) = Len(s) - x /\ \A l \in 1 .. Len(t) : t[l] = s[x + l]
    BY LenProperties DEF IsRest
  <1> HIDE DEF P
  <1>6. from - x < to - x /\ to - x <= (from - x) + P /\ to - x <= Len(t)
    BY <1>1, <1>2, <1>5
  <1>7. to - x = a + P * (z - y) /\ z - y \in Int
    <2> DEFINE v == P * z
               w == P * y
               u == P * (z - y)
    <2>1. to = b + v /\ a = b - x + w /\ u = v - w /\ v \in Int /\ w \in Int
      BY <1>2, <1>3, <1>4
    <2> HIDE DEF v, w, u
    <2>2. to - x = a + u
      BY <2>1
    <2> QED BY <2>2 DEF u
  <1>8. Boundary(to - x, a, p)
    BY <1>7 DEF Boundary, P
  <1>9. t[(from - x) + 1] = 1
    <2>1. (from - x) + 1 \in 1 .. Len(t) /\ x + ((from - x) + 1) = from + 1
      BY <1>1, <1>2, <1>5
    <2>2. t[(from - x) + 1] = s[x + ((from - x) + 1)]
      BY <1>5, <2>1
    <2> QED BY <1>1, <2>1, <2>2
  <1> QED BY <1>6, <1>8, <1>9 DEF IsPadding, P

(* Differences of numbers.                                                  *)
LEMMA Differences ==
  ASSUME NEW x \in Nat, NEW y \in Nat, x <= y
  PROVE  y - x \in Nat
  OBVIOUS

LEMMA NextDifference ==
  ASSUME NEW m \in Nat, NEW i \in Nat, m <= i, NEW j, j = i + 1
  PROVE  m < j /\ j - m = (i - m) + 1
  OBVIOUS

(* What is behind the first cut is framed too, whatever word end it is seen *)
(* from.                                                                    *)
LEMMA BehindFirst ==
  ASSUME NEW p \in Parameter, NEW s \in Seq(Bit), NEW b \in Nat, NEW q \in Seq(MessagesOf(p)),
         NEW n \in Nat, NEW e \in [0 .. n -> Nat], NEW c \in [0 .. n -> Nat],
         Framed(s, b, q, p, n, e, c), n > 0,
         NEW x \in Nat, NEW m \in Nat, IsFirst(e, c, x, m),
         NEW a \in Nat, SameEnds(a, b, x, p),
         NEW t \in Seq(Bit), IsRest(t, s, x), NEW r \in Seq(MessagesOf(p)), IsRest(r, q, m)
  PROVE  InOrder(t, a, r, p)
  <1> DEFINE f == [k \in 0 .. n - 1 |-> e[k + 1] - x]
             d == [k \in 0 .. n - 1 |-> c[k + 1] - m]
  <1>1. /\ e[n] = Len(s) /\ c[n] = Len(q)
        /\ \A k \in 1 .. n : Piece(s, b, q, p, e, c, k)
    BY DEF Framed
  <1>2. \A k \in 1 .. n : x <= e[k] /\ m <= c[k]
    BY CutsAscend DEF IsFirst
  <1>3. ASSUME NEW k \in 0 .. n - 1
        PROVE  /\ k + 1 \in 1 .. n /\ e[k + 1] \in Nat /\ c[k + 1] \in Nat
               /\ x <= e[k + 1] /\ m <= c[k + 1]
    <2>1. k + 1 \in 1 .. n /\ k + 1 \in 0 .. n
      OBVIOUS
    <2> QED BY <1>2, <2>1
  <1>4. ASSUME NEW k \in 0 .. n - 1 PROVE e[k + 1] - x \in Nat /\ c[k + 1] - m \in Nat
    <2> DEFINE u == e[k + 1]
               v == c[k + 1]
    <2>1. u \in Nat /\ x <= u /\ v \in Nat /\ m <= v
      BY <1>3
    <2> HIDE DEF u, v
    <2>2. u - x \in Nat /\ v - m \in Nat
      BY <2>1, Differences
    <2> QED BY <2>2 DEF u, v
  <1>5. /\ f \in [0 .. n - 1 -> Nat] /\ d \in [0 .. n - 1 -> Nat]
        /\ \A k \in 0 .. n - 1 : f[k] = e[k + 1] - x /\ d[k] = c[k + 1] - m
    BY <1>4
  <1> HIDE DEF f, d
  <1>6. ASSUME NEW k \in 1 .. n - 1 PROVE Piece(t, a, r, p, f, d, k)
    <2> DEFINE from == e[k] to == e[k + 1] i == c[k] j == c[k + 1]
    <2>1. k \in 0 .. n - 1 /\ k - 1 \in 0 .. n - 1 /\ k + 1 \in 1 .. n /\ (k - 1) + 1 = k /\ (k + 1) - 1 = k
      OBVIOUS
    <2>2. /\ from \in Nat /\ to \in Nat /\ i \in Nat /\ j \in Nat /\ x <= from /\ m <= i
          /\ f[k] = to - x /\ f[k - 1] = from - x /\ d[k] = j - m /\ d[k - 1] = i - m
      BY <1>3, <1>5, <2>1
    <2>3. \/ j = i + 1 /\ IsMessage(s, q, p, from, to, j)
          \/ j = i /\ IsPadding(s, b, p, from, to)
      <3>1. Piece(s, b, q, p, e, c, k + 1)
        BY <1>1, <2>1
      <3> QED BY <2>1, <3>1 DEF Piece
    <2> HIDE DEF from, to, i, j
    <2>4. CASE j = i + 1 /\ IsMessage(s, q, p, from, to, j)
      <3>1. m < j /\ j - m = (i - m) + 1
        BY <2>2, <2>4, NextDifference
      <3>2. IsMessage(t, r, p, from - x, to - x, j - m)
        BY <2>2, <2>4, <3>1, MessageBehind
      <3> QED BY <2>2, <3>1, <3>2 DEF Piece
    <2>5. CASE j = i /\ IsPadding(s, b, p, from, to)
      <3>1. IsPadding(t, a, p, from - x, to - x)
        BY <2>2, <2>5, PaddingBehind
      <3> QED BY <2>2, <2>5, <3>1 DEF Piece
    <2> QED BY <2>3, <2>4, <2>5
  <1>7. f[0] = 0 /\ d[0] = 0 /\ f[n - 1] = Len(t) /\ d[n - 1] = Len(r)
    <2>1. 0 \in 0 .. n - 1 /\ n - 1 \in 0 .. n - 1 /\ (n - 1) + 1 = n /\ 0 + 1 = 1
      OBVIOUS
    <2>2. f[0] = x - x /\ d[0] = m - m /\ f[n - 1] = e[n] - x /\ d[n - 1] = c[n] - m
      BY <1>5, <2>1 DEF IsFirst
    <2>3. x - x = 0 /\ m - m = 0
      OBVIOUS
    <2>4. Len(t) = Len(s) - x /\ Len(r) = Len(q) - m
      BY DEF IsRest
    <2> QED BY <1>1, <2>2, <2>3, <2>4
  <1>8. n - 1 \in Nat
    OBVIOUS
  <1>9. Framed(t, a, r, p, n - 1, f, d)
    BY <1>6, <1>7, <1>8 DEF Framed
  <1> QED BY <1>5, <1>8, <1>9 DEF InOrder

(* The first bit tells what comes first.                                    *)
LEMMA FirstCut ==
  ASSUME NEW p \in Parameter, NEW s \in Seq(Bit), NEW b \in Nat, NEW q \in Seq(MessagesOf(p)),
         NEW n \in Nat, NEW e \in [0 .. n -> Nat], NEW c \in [0 .. n -> Nat],
         Framed(s, b, q, p, n, e, c), s # <<>>
  PROVE  /\ n > 0 /\ e[1] \in Nat /\ c[1] \in Nat
         /\ s[1] = 0 => c[1] = 1 /\ IsMessage(s, q, p, 0, e[1], 1)
         /\ s[1] = 1 => c[1] = 0 /\ IsPadding(s, b, p, 0, e[1])
  <1>1. /\ e[0] = 0 /\ c[0] = 0 /\ e[n] = Len(s)
        /\ \A k \in 1 .. n : Piece(s, b, q, p, e, c, k)
    BY DEF Framed
  <1>2. n > 0
    <2>1. Len(s) # 0
      BY EmptySeq
    <2> QED BY <1>1, <2>1
  <1>3. 1 \in 1 .. n /\ 1 \in 0 .. n /\ 1 - 1 = 0
    BY <1>1, <1>2
  <1>4. \/ c[1] = 0 + 1 /\ IsMessage(s, q, p, 0, e[1], c[1])
        \/ c[1] = 0 /\ IsPadding(s, b, p, 0, e[1])
    BY <1>1, <1>3 DEF Piece
  <1>5. IsPadding(s, b, p, 0, e[1]) => s[1] = 1
    <2>1. 0 + 1 = 1
      OBVIOUS
    <2> QED BY <2>1 DEF IsPadding
  <1>6. ASSUME IsMessage(s, q, p, 0, e[1], 1) PROVE s[1] = 0
    <2> DEFINE W == WordWidth(p, q[1].header)
    <2>1. q[1] \in MessagesOf(p)
      BY <1>6, ElementOfSeq DEF IsMessage
    <2>2. Raw(p, q[1])[1] = 0 /\ W \in Nat /\ W >= p.phyword /\ p.phyword \in Nat /\ p.phyword > 0
      BY <2>1, RawBits, MessageParts, MessageSizes, WordSizes
    <2>3. \A i \in 1 .. W : s[0 + i] = Raw(p, q[1])[i]
      BY <1>6 DEF IsMessage
    <2> HIDE DEF W
    <2>4. 1 \in 1 .. W /\ 0 + 1 = 1
      BY <2>2
    <2>5. s[0 + 1] = Raw(p, q[1])[1]
      BY <2>3, <2>4
    <2> QED BY <2>2, <2>4, <2>5
  <1>7. 0 + 1 = 1 /\ e[1] \in Nat
    BY <1>1, <1>3
  <1>8. CASE c[1] = 0 + 1 /\ IsMessage(s, q, p, 0, e[1], c[1])
    <2>1. c[1] = 1 /\ IsMessage(s, q, p, 0, e[1], 1)
      BY <1>7, <1>8
    <2>2. s[1] = 0
      BY <1>6, <2>1
    <2> QED BY <1>1, <1>2, <1>7, <2>1, <2>2
  <1>9. CASE c[1] = 0 /\ IsPadding(s, b, p, 0, e[1])
    BY <1>1, <1>2, <1>5, <1>7, <1>9
  <1> QED BY <1>4, <1>8, <1>9

(* A message that comes first is the next of q, and the rest remains.       *)
LEMMA MessageFirst ==
  ASSUME NEW p \in Parameter, NEW s \in Seq(Bit), NEW b \in Nat, NEW q \in Seq(MessagesOf(p)),
         InOrder(s, b, q, p), s # <<>>, s[1] = 0
  PROVE  LET W == WordWidth(p, Head(q).header)
         IN /\ q # <<>> /\ Head(q) \in MessagesOf(p) /\ Len(s) >= W
            /\ \A i \in 1 .. W : s[i] = Raw(p, Head(q))[i]
            /\ \A a \in Nat : a = b - W => InOrder(SubSeq(s, W + 1, Len(s)), a, Tail(q), p)
  <1> DEFINE W == WordWidth(p, q[1].header)
             t == SubSeq(s, W + 1, Len(s))
  <1>0. PICK n \in Nat : \E e, c \in [0 .. n -> Nat] : Framed(s, b, q, p, n, e, c)
    BY DEF InOrder
  <1>1. PICK e \in [0 .. n -> Nat], c \in [0 .. n -> Nat] : Framed(s, b, q, p, n, e, c)
    BY <1>0
  <1>2. n > 0 /\ e[1] \in Nat /\ c[1] = 1 /\ IsMessage(s, q, p, 0, e[1], 1)
    <2>1. /\ n > 0 /\ e[1] \in Nat /\ c[1] \in Nat
          /\ s[1] = 0 => c[1] = 1 /\ IsMessage(s, q, p, 0, e[1], 1)
          /\ s[1] = 1 => c[1] = 0 /\ IsPadding(s, b, p, 0, e[1])
      BY <1>1, FirstCut
    <2> QED BY <2>1
  <1>3. /\ 1 \in 1 .. Len(q) /\ e[1] = 0 + W /\ e[1] <= Len(s)
        /\ \A i \in 1 .. W : s[0 + i] = Raw(p, q[1])[i]
    BY <1>2 DEF IsMessage
  <1>4. q # <<>> /\ Head(q) = q[1] /\ q[1] \in MessagesOf(p)
    <2>1. q # <<>>
      BY <1>3, EmptySeq
    <2> QED BY <1>3, <2>1, ElementOfSeq
  <1>5. W \in Nat /\ p.phyword \in Nat
    BY <1>4, MessageParts, MessageSizes, WordSizes
  <1> HIDE DEF W
  <1>6. e[1] = W /\ Len(s) \in Nat /\ Len(s) >= W /\ \A i \in 1 .. W : s[i] = Raw(p, q[1])[i]
    <2>1. \A i \in 1 .. W : 0 + i = i
      BY <1>5
    <2> QED BY <1>3, <1>5, <2>1, LenProperties
  <1>7. t \in Seq(Bit) /\ IsRest(t, s, W)
    <2>1. W \in 0 .. Len(s)
      BY <1>5, <1>6
    <2> QED BY <1>6, <2>1, Behind
  <1>8. Tail(q) \in Seq(MessagesOf(p)) /\ IsRest(Tail(q), q, 1)
    <2>1. /\ Tail(q) \in Seq(MessagesOf(p)) /\ Len(Tail(q)) = Len(q) - 1
          /\ \A i \in 1 .. Len(Tail(q)) : Tail(q)[i] = q[i + 1]
      BY <1>4, HeadTailProperties
    <2>2. \A i \in 1 .. Len(Tail(q)) : i + 1 = 1 + i
      OBVIOUS
    <2> QED BY <2>1, <2>2 DEF IsRest
  <1> HIDE DEF t
  <1>9. ASSUME NEW a \in Nat, a = b - W PROVE InOrder(t, a, Tail(q), p)
    <2>1. a = b - W + p.phyword * 0
      BY <1>5, <1>9
    <2>2. SameEnds(a, b, W, p)
      BY <2>1 DEF SameEnds
    <2>3. 1 \in Nat
      OBVIOUS
    <2>4. IsFirst(e, c, W, 1)
      BY <1>2, <1>6 DEF IsFirst
    <2> QED BY <1>1, <1>2, <1>5, <1>7, <1>8, <2>2, <2>3, <2>4, BehindFirst
  <1> QED BY <1>4, <1>6, <1>9 DEF W, t

(* Padding that comes first ends with a word, and the rest remains.         *)
LEMMA PaddingFirst ==
  ASSUME NEW p \in Parameter, NEW s \in Seq(Bit), NEW b \in Nat, NEW q \in Seq(MessagesOf(p)),
         InOrder(s, b, q, p), s # <<>>, s[1] = 1
  PROVE  \E x \in 1 .. p.phyword :
           /\ x <= Len(s) /\ Boundary(x, b, p)
           /\ \A a \in Nat : SameEnds(a, b, x, p) => InOrder(SubSeq(s, x + 1, Len(s)), a, q, p)
  <1>0. PICK n \in Nat : \E e, c \in [0 .. n -> Nat] : Framed(s, b, q, p, n, e, c)
    BY DEF InOrder
  <1>1. PICK e \in [0 .. n -> Nat], c \in [0 .. n -> Nat] : Framed(s, b, q, p, n, e, c)
    BY <1>0
  <1>2. n > 0 /\ e[1] \in Nat /\ c[1] = 0 /\ IsPadding(s, b, p, 0, e[1])
    <2>1. /\ n > 0 /\ e[1] \in Nat /\ c[1] \in Nat
          /\ s[1] = 0 => c[1] = 1 /\ IsMessage(s, q, p, 0, e[1], 1)
          /\ s[1] = 1 => c[1] = 0 /\ IsPadding(s, b, p, 0, e[1])
      BY <1>1, FirstCut
    <2> QED BY <2>1
  <1> DEFINE x == e[1]
             t == SubSeq(s, x + 1, Len(s))
  <1>3. p.phyword \in Nat
    BY WordSizes
  <1>4. x \in 1 .. p.phyword /\ x <= Len(s) /\ Boundary(x, b, p)
    BY <1>2, <1>3 DEF IsPadding
  <1> HIDE DEF x
  <1>5. t \in Seq(Bit) /\ IsRest(t, s, x)
    <2>1. x \in 0 .. Len(s)
      BY <1>3, <1>4, LenProperties
    <2> QED BY <2>1, Behind
  <1>6. IsRest(q, q, 0)
    <2>1. Len(q) \in Nat /\ Len(q) = Len(q) - 0 /\ \A i \in 1 .. Len(q) : q[i] = q[0 + i]
      BY LenProperties
    <2> QED BY <2>1 DEF IsRest
  <1> HIDE DEF t
  <1>7. ASSUME NEW a \in Nat, SameEnds(a, b, x, p) PROVE InOrder(t, a, q, p)
    <2>1. 0 \in Nat /\ x \in Nat
      BY <1>3, <1>4
    <2>2. IsFirst(e, c, x, 0)
      BY <1>2 DEF IsFirst, x
    <2> QED BY <1>1, <1>2, <1>5, <1>6, <1>7, <2>1, <2>2, BehindFirst
  <1> QED BY <1>4, <1>7 DEF t

(* No bits hold no messages.                                                *)
LEMMA NothingFirst ==
  ASSUME NEW p \in Parameter, NEW b \in Nat, NEW q \in Seq(MessagesOf(p)), InOrder(<<>>, b, q, p)
  PROVE  q = <<>>
  <1>0. PICK n \in Nat : \E e, c \in [0 .. n -> Nat] : Framed(<<>>, b, q, p, n, e, c)
    BY DEF InOrder
  <1>1. PICK e \in [0 .. n -> Nat], c \in [0 .. n -> Nat] : Framed(<<>>, b, q, p, n, e, c)
    BY <1>0
  <1>2. /\ e[0] = 0 /\ c[0] = 0 /\ e[n] = Len(<<>>) /\ c[n] = Len(q)
        /\ \A k \in 1 .. n : Piece(<<>>, b, q, p, e, c, k)
    BY <1>1 DEF Framed
  <1>3. ASSUME n > 0 PROVE FALSE
    <2>1. 1 \in 1 .. n /\ 1 - 1 = 0 /\ e[1] \in Nat
      BY <1>2, <1>3
    <2>2. Piece(<<>>, b, q, p, e, c, 1)
      BY <1>2, <2>1
    <2>3. Len(<<>>) = 0
      OBVIOUS
    <2>4. CASE IsMessage(<<>>, q, p, e[0], e[1], c[1])
      <3>1. q[c[1]] \in MessagesOf(p)
        BY <2>4, ElementOfSeq DEF IsMessage
      <3>2. WordWidth(p, q[c[1]].header) \in Nat /\ WordWidth(p, q[c[1]].header) > 0
        <4>1. /\ WordWidth(p, q[c[1]].header) \in Nat /\ WordWidth(p, q[c[1]].header) >= p.phyword
              /\ p.phyword \in Nat /\ p.phyword > 0
          BY <3>1, MessageParts, MessageSizes, WordSizes
        <4> QED BY <4>1
      <3>3. e[1] = 0 + WordWidth(p, q[c[1]].header) /\ e[1] <= 0
        BY <1>2, <2>3, <2>4 DEF IsMessage
      <3> QED BY <3>2, <3>3
    <2>5. CASE IsPadding(<<>>, b, p, e[0], e[1])
      BY <1>2, <2>1, <2>3, <2>5 DEF IsPadding
    <2> QED BY <2>1, <2>2, <2>4, <2>5 DEF Piece
  <1>4. Len(q) = 0
    BY <1>2, <1>3
  <1> QED BY <1>4, EmptySeq
----------------------------------------------------------------------------
(* More is put underway. *)

(* A sequence that begins with another.                                     *)
Begins(s, t) == Len(s) <= Len(t) /\ \A i \in 1 .. Len(s) : t[i] = s[i]

(* A message stays where it is when more bits and messages follow.          *)
LEMMA MessageStays ==
  ASSUME NEW p \in Parameter, NEW s \in Seq(Bit), NEW q \in Seq(MessagesOf(p)),
         NEW t \in Seq(Bit), Begins(s, t), NEW r \in Seq(MessagesOf(p)), Begins(q, r),
         NEW from \in Nat, NEW to \in Nat, NEW i \in Nat,
         IsMessage(s, q, p, from, to, i)
  PROVE  IsMessage(t, r, p, from, to, i)
  <1> DEFINE W == WordWidth(p, q[i].header)
             raw == Raw(p, q[i])
  <1>1. /\ i \in 1 .. Len(q) /\ to = from + W /\ to <= Len(s)
        /\ \A l \in 1 .. W : s[from + l] = raw[l]
    BY DEF IsMessage
  <1>2. W \in Nat
    <2>1. q[i] \in MessagesOf(p)
      BY <1>1, ElementOfSeq
    <2> QED BY <2>1, MessageParts, MessageSizes
  <1>3. Len(s) \in Nat /\ Len(t) \in Nat /\ Len(q) \in Nat /\ Len(r) \in Nat
    <2>1. Len(s) \in Nat /\ Len(t) \in Nat
      BY LenProperties
    <2>2. Len(q) \in Nat /\ Len(r) \in Nat
      BY LenProperties
    <2> QED BY <2>1, <2>2
  <1>4. /\ Len(s) <= Len(t) /\ \A l \in 1 .. Len(s) : t[l] = s[l]
        /\ Len(q) <= Len(r) /\ r[i] = q[i]
    BY <1>1 DEF Begins
  <1> HIDE DEF W, raw
  <1>5. i \in 1 .. Len(r) /\ to <= Len(t)
    BY <1>1, <1>2, <1>3, <1>4
  <1>6. ASSUME NEW l \in 1 .. W PROVE t[from + l] = raw[l]
    <2>1. from + l \in 1 .. Len(s)
      BY <1>1, <1>2, <1>3
    <2> QED BY <1>1, <1>4, <2>1
  <1> QED BY <1>1, <1>4, <1>5, <1>6 DEF IsMessage, W, raw

(* So does padding.                                                         *)
LEMMA PaddingStays ==
  ASSUME NEW p \in Parameter, NEW s \in Seq(Bit), NEW b \in Nat,
         NEW t \in Seq(Bit), Begins(s, t), NEW from \in Nat, NEW to \in Nat,
         IsPadding(s, b, p, from, to)
  PROVE  IsPadding(t, b, p, from, to)
  <1>1. /\ from < to /\ to <= from + p.phyword /\ to <= Len(s)
        /\ Boundary(to, b, p) /\ s[from + 1] = 1
    BY DEF IsPadding
  <1>2. /\ Len(s) \in Nat /\ Len(t) \in Nat /\ Len(s) <= Len(t)
        /\ \A l \in 1 .. Len(s) : t[l] = s[l]
    BY LenProperties DEF Begins
  <1>3. to <= Len(t) /\ from + 1 \in 1 .. Len(s)
    BY <1>1, <1>2
  <1> QED BY <1>1, <1>2, <1>3 DEF IsPadding

(* One more piece at the end.                                               *)
NextPiece(s, t, b, q, r, p) ==
  \/ Len(r) = Len(q) + 1 /\ IsMessage(t, r, p, Len(s), Len(t), Len(q) + 1)
  \/ Len(r) = Len(q) /\ IsPadding(t, b, p, Len(s), Len(t))

(* The pieces stay in order when one more is put at the end.                *)
LEMMA Lengthened ==
  ASSUME NEW p \in Parameter, NEW s \in Seq(Bit), NEW b \in Nat, NEW q \in Seq(MessagesOf(p)),
         InOrder(s, b, q, p),
         NEW t \in Seq(Bit), Begins(s, t), NEW r \in Seq(MessagesOf(p)), Begins(q, r),
         NextPiece(s, t, b, q, r, p)
  PROVE  InOrder(t, b, r, p)
  <1>0. PICK n \in Nat : \E e, c \in [0 .. n -> Nat] : Framed(s, b, q, p, n, e, c)
    BY DEF InOrder
  <1>1. PICK e \in [0 .. n -> Nat], c \in [0 .. n -> Nat] : Framed(s, b, q, p, n, e, c)
    BY <1>0
  <1>2. /\ e[0] = 0 /\ c[0] = 0 /\ e[n] = Len(s) /\ c[n] = Len(q)
        /\ \A k \in 1 .. n : Piece(s, b, q, p, e, c, k)
    BY <1>1 DEF Framed
  <1> DEFINE f == [k \in 0 .. n + 1 |-> IF k <= n THEN e[k] ELSE Len(t)]
             d == [k \in 0 .. n + 1 |-> IF k <= n THEN c[k] ELSE Len(r)]
  <1>3. Len(t) \in Nat /\ Len(r) \in Nat
    <2>1. Len(t) \in Nat
      BY LenProperties
    <2>2. Len(r) \in Nat
      BY LenProperties
    <2> QED BY <2>1, <2>2
  <1>4. /\ f \in [0 .. n + 1 -> Nat] /\ d \in [0 .. n + 1 -> Nat]
        /\ \A k \in 0 .. n : f[k] = e[k] /\ d[k] = c[k]
        /\ f[n + 1] = Len(t) /\ d[n + 1] = Len(r)
    BY <1>3
  <1> HIDE DEF f, d
  <1>5. ASSUME NEW k \in 1 .. n PROVE Piece(t, b, r, p, f, d, k)
    <2>1. /\ k \in 0 .. n /\ k - 1 \in 0 .. n /\ f[k] = e[k] /\ f[k - 1] = e[k - 1]
          /\ d[k] = c[k] /\ d[k - 1] = c[k - 1]
          /\ e[k] \in Nat /\ e[k - 1] \in Nat /\ c[k] \in Nat
      BY <1>4
    <2>2. Piece(s, b, q, p, e, c, k)
      BY <1>2
    <2>3. IsMessage(s, q, p, e[k - 1], e[k], c[k]) => IsMessage(t, r, p, e[k - 1], e[k], c[k])
      BY <2>1, MessageStays
    <2>4. IsPadding(s, b, p, e[k - 1], e[k]) => IsPadding(t, b, p, e[k - 1], e[k])
      BY <2>1, PaddingStays
    <2> QED BY <2>1, <2>2, <2>3, <2>4 DEF Piece
  <1>6. Piece(t, b, r, p, f, d, n + 1)
    <2>1. n \in 0 .. n /\ (n + 1) - 1 = n
      OBVIOUS
    <2>2. f[n] = Len(s) /\ d[n] = Len(q)
      BY <1>2, <1>4, <2>1
    <2> QED BY <1>4, <2>1, <2>2 DEF NextPiece, Piece
  <1>7. \A k \in 1 .. n + 1 : Piece(t, b, r, p, f, d, k)
    <2>1. \A k \in 1 .. n + 1 : k \in 1 .. n \/ k = n + 1
      OBVIOUS
    <2> QED BY <1>5, <1>6, <2>1
  <1>8. n + 1 \in Nat /\ f[0] = 0 /\ d[0] = 0
    <2>1. 0 \in 0 .. n
      OBVIOUS
    <2> QED BY <1>2, <1>4, <2>1
  <1>9. Framed(t, b, r, p, n + 1, f, d)
    BY <1>4, <1>7, <1>8 DEF Framed
  <1> QED BY <1>4, <1>8, <1>9 DEF InOrder

(* A concatenation begins with its first part and goes on with its second.  *)
LEMMA Lengthens ==
  ASSUME NEW S, NEW s \in Seq(S), NEW t \in Seq(S)
  PROVE  s \o t \in Seq(S) /\ Len(s \o t) = Len(s) + Len(t) /\ Begins(s, s \o t)
         /\ \A i \in 1 .. Len(t) : (s \o t)[Len(s) + i] = t[i]
  <1> DEFINE m == Len(s)
             n == Len(t)
             u == s \o t
  <1>1. /\ m \in Nat /\ n \in Nat /\ u \in Seq(S) /\ Len(u) = m + n
        /\ \A i \in 1 .. m + n : u[i] = IF i <= m THEN s[i] ELSE t[i - m]
    BY LenProperties, ConcatProperties
  <1> HIDE DEF m, n, u
  <1>2. m <= m + n /\ \A i \in 1 .. m : i \in 1 .. m + n /\ i <= m
    BY <1>1
  <1>3. \A i \in 1 .. n : m + i \in 1 .. m + n /\ ~(m + i <= m) /\ (m + i) - m = i
    BY <1>1
  <1>4. /\ \A i \in 1 .. m : u[i] = s[i]
        /\ \A i \in 1 .. n : u[m + i] = t[i]
    BY <1>1, <1>2, <1>3
  <1> QED BY <1>1, <1>2, <1>4 DEF Begins, m, n, u

(* A message is put at the end.                                             *)
LEMMA WithMessage ==
  ASSUME NEW p \in Parameter, NEW s \in Seq(Bit), NEW b \in Nat, NEW q \in Seq(MessagesOf(p)),
         InOrder(s, b, q, p), NEW m \in MessagesOf(p)
  PROVE  InOrder(s \o Raw(p, m), b, Append(q, m), p)
  <1> DEFINE W == WordWidth(p, m.header)
             raw == Raw(p, m)
             t == s \o raw
             r == Append(q, m)
             j == Len(q) + 1
  <1>1. raw \in Seq(Bit) /\ Len(raw) = W
    BY RawBits
  <1> HIDE DEF raw
  <1>2. t \in Seq(Bit) /\ Len(t) = Len(s) + W /\ Begins(s, t)
        /\ \A i \in 1 .. W : t[Len(s) + i] = raw[i]
    <2>1. /\ t \in Seq(Bit) /\ Len(t) = Len(s) + Len(raw) /\ Begins(s, t)
          /\ \A i \in 1 .. Len(raw) : t[Len(s) + i] = raw[i]
      BY <1>1, Lengthens
    <2> QED BY <1>1, <2>1
  <1>3. /\ r \in Seq(MessagesOf(p)) /\ Len(r) = j /\ r[j] = m /\ Len(q) \in Nat
        /\ \A i \in 1 .. Len(q) : r[i] = q[i]
    BY AppendProperties, LenProperties
  <1> HIDE DEF t, r
  <1>4. Begins(q, r) /\ j \in 1 .. Len(r)
    BY <1>3 DEF Begins
  <1>5. Len(t) <= Len(t)
    BY <1>2, LenProperties
  <1>6. IsMessage(t, r, p, Len(s), Len(t), j)
    BY <1>2, <1>3, <1>4, <1>5 DEF IsMessage, raw
  <1>7. NextPiece(s, t, b, q, r, p)
    BY <1>3, <1>6 DEF NextPiece
  <1> QED BY <1>2, <1>3, <1>4, <1>7, Lengthened DEF t, r, raw

(* Padding up to the end of a word is put at the end.                       *)
LEMMA WithPadding ==
  ASSUME NEW p \in Parameter, NEW s \in Seq(Bit), NEW b \in Nat, NEW q \in Seq(MessagesOf(p)),
         InOrder(s, b, q, p), NEW pad \in Seq(Bit), Len(pad) \in 1 .. p.phyword, pad[1] = 1,
         Boundary(Len(s \o pad), b, p)
  PROVE  InOrder(s \o pad, b, q, p)
  <1> DEFINE t == s \o pad
  <1>1. p.phyword \in Nat
    BY WordSizes
  <1>2. t \in Seq(Bit) /\ Len(t) = Len(s) + Len(pad) /\ Begins(s, t)
        /\ t[Len(s) + 1] = 1 /\ Len(s) \in Nat /\ Boundary(Len(t), b, p)
    <2>1. 1 \in 1 .. Len(pad)
      BY <1>1
    <2> QED BY <2>1, Lengthens, LenProperties
  <1> HIDE DEF t
  <1>3. Len(s) < Len(t) /\ Len(t) <= Len(s) + p.phyword /\ Len(t) <= Len(t)
    BY <1>1, <1>2
  <1>4. IsPadding(t, b, p, Len(s), Len(t))
    BY <1>2, <1>3 DEF IsPadding
  <1>5. Begins(q, q)
    BY LenProperties DEF Begins
  <1>6. NextPiece(s, t, b, q, q, p)
    BY <1>4 DEF NextPiece
  <1> QED BY <1>2, <1>5, <1>6, Lengthened DEF t

(* Words in front of it or not, the pieces are the same.                    *)
LEMMA OtherEnd ==
  ASSUME NEW p \in Parameter, NEW s \in Seq(Bit), NEW b \in Nat, NEW q \in Seq(MessagesOf(p)),
         InOrder(s, b, q, p), NEW a \in Nat, SameEnds(a, b, 0, p)
  PROVE  InOrder(s, a, q, p)
  <1>0. PICK n \in Nat : \E e, c \in [0 .. n -> Nat] : Framed(s, b, q, p, n, e, c)
    BY DEF InOrder
  <1>1. PICK e \in [0 .. n -> Nat], c \in [0 .. n -> Nat] : Framed(s, b, q, p, n, e, c)
    BY <1>0
  <1>2. /\ e[0] = 0 /\ c[0] = 0 /\ e[n] = Len(s) /\ c[n] = Len(q)
        /\ \A k \in 1 .. n : Piece(s, b, q, p, e, c, k)
    BY <1>1 DEF Framed
  <1>3. IsRest(s, s, 0)
    <2>1. Len(s) \in Nat /\ Len(s) - 0 = Len(s) /\ \A i \in 1 .. Len(s) : 0 + i = i
      BY LenProperties
    <2> QED BY <2>1 DEF IsRest
  <1>4. ASSUME NEW k \in 1 .. n PROVE Piece(s, a, q, p, e, c, k)
    <2>1. e[k] \in Nat /\ e[k - 1] \in Nat
      <3>1. k \in 0 .. n /\ k - 1 \in 0 .. n
        OBVIOUS
      <3> QED BY <3>1
    <2>2. e[k] - 0 = e[k] /\ e[k - 1] - 0 = e[k - 1] /\ 0 <= e[k - 1] /\ 0 \in Nat
      BY <2>1
    <2>3. IsPadding(s, b, p, e[k - 1], e[k]) => IsPadding(s, a, p, e[k - 1] - 0, e[k] - 0)
      BY <1>3, <2>1, <2>2, PaddingBehind
    <2>4. Piece(s, b, q, p, e, c, k)
      BY <1>2
    <2> QED BY <2>2, <2>3, <2>4 DEF Piece
  <1>5. Framed(s, a, q, p, n, e, c)
    BY <1>2, <1>4 DEF Framed
  <1> QED BY <1>5 DEF InOrder

(* Without bits no message is underway.                                     *)
LEMMA NothingUnderway ==
  ASSUME NEW p \in Parameter, NEW b \in Nat
  PROVE  InOrder(<<>>, b, <<>>, p)
  <1> DEFINE e == [k \in 0 .. 0 |-> 0]
  <1>1. e \in [0 .. 0 -> Nat] /\ e[0] = 0 /\ 0 \in Nat /\ Len(<<>>) = 0
    OBVIOUS
  <1>2. \A k \in 1 .. 0 : Piece(<<>>, b, <<>>, p, e, e, k)
    OBVIOUS
  <1> HIDE DEF e
  <1>3. Framed(<<>>, b, <<>>, p, 0, e, e)
    BY <1>1, <1>2 DEF Framed
  <1> QED BY <1>1, <1>3 DEF InOrder
----------------------------------------------------------------------------
(* The bits underway lie in the buffer of the decoder, in words and in the *)
(* buffer of the encoder.                                                  *)
Stream(s, first, ws, last, p) ==
  /\ Len(s) = (Len(first) + p.phyword * Len(ws)) + Len(last)
  /\ \A i \in 1 .. Len(first) : s[i] = first[i]
  /\ \A k \in 0 .. Len(ws) - 1 : \A i \in 1 .. p.phyword :
       s[(Len(first) + p.phyword * k) + i] = ws[k + 1][i]
  /\ \A i \in 1 .. Len(last) : s[(Len(first) + p.phyword * Len(ws)) + i] = last[i]

(* A word.                                                                  *)
Word(p) == [1 .. p.phyword -> Bit]

(* Products with the next number and with the first two.                    *)
LEMMA TimesNext ==
  ASSUME NEW P \in Nat, NEW k \in Nat
  PROVE  P * k \in Nat /\ P * (k + 1) = P * k + P /\ P * 0 = 0 /\ P * 1 = P
  OBVIOUS

(* Products with a sum, and their order.                                    *)
LEMMA TimesSum ==
  ASSUME NEW P \in Nat, NEW k \in Nat, NEW l \in Nat
  PROVE  P * (k + l) = P * k + P * l /\ (k <= l => P * k <= P * l)
  <1>1. P * (k + l) = P * k + P * l
    OBVIOUS
  <1>2. ASSUME k <= l PROVE P * k <= P * l
    <2>1. PICK d \in Nat : l = k + d
      <3>1. l - k \in Nat /\ l = k + (l - k)
        BY <1>2
      <3> QED BY <3>1
    <2>2. P * l = P * k + P * d /\ P * k \in Nat /\ P * d \in Nat
      BY <2>1
    <2> QED BY <2>2
  <1> QED BY <1>1, <1>2

(* A word is a sequence of its bits.                                        *)
LEMMA WordIsSeq ==
  ASSUME NEW P \in Nat, NEW w \in [1 .. P -> Bit]
  PROVE  w \in Seq(Bit) /\ Len(w) = P /\ Head(w) = w[1]
  <1>1. w \in Seq(Bit) /\ Len(w) = P
    OBVIOUS
  <1>2. Head(w) = w[1]
    BY <1>1
  <1> QED BY <1>1, <1>2

(* The decoder shifts a word in.                                            *)
LEMMA WordMoves ==
  ASSUME NEW p \in Parameter, NEW s \in Seq(Bit), NEW first \in Seq(Bit),
         NEW ws \in Seq(Word(p)), NEW last \in Seq(Bit),
         Stream(s, first, ws, last, p), ws # <<>>
  PROVE  /\ Head(ws) \in Seq(Bit) /\ Len(Head(ws)) = p.phyword /\ Head(Head(ws)) = Head(ws)[1]
         /\ first \o Head(ws) \in Seq(Bit) /\ Len(first \o Head(ws)) = Len(first) + p.phyword
         /\ Begins(first, first \o Head(ws))
         /\ Tail(ws) \in Seq(Word(p))
         /\ Stream(s, first \o Head(ws), Tail(ws), last, p)
  <1> DEFINE P == p.phyword
             f == Len(first)
             g == Len(ws)
             w == Head(ws)
             us == Tail(ws)
             behind == first \o w
  <1>1. P \in Nat /\ P > 0 /\ f \in Nat /\ Len(last) \in Nat
    BY WordSizes, LenProperties
  <1>2. g \in Nat /\ g > 0 /\ w \in [1 .. P -> Bit] /\ w = ws[1]
        /\ us \in Seq(Word(p)) /\ Len(us) = g - 1 /\ \A k \in 1 .. g - 1 : us[k] = ws[k + 1]
    <2>1. g \in Nat /\ g > 0
      BY EmptySeq
    <2>2. 1 \in 1 .. g /\ w = ws[1]
      BY <2>1
    <2>3. ws[1] \in Word(p)
      BY <2>2, ElementOfSeq
    <2>4. us \in Seq(Word(p)) /\ Len(us) = g - 1 /\ \A k \in 1 .. Len(us) : us[k] = ws[k + 1]
      BY HeadTailProperties
    <2> QED BY <2>1, <2>2, <2>3, <2>4 DEF Word
  <1>3. w \in Seq(Bit) /\ Len(w) = P /\ Head(w) = w[1]
    BY <1>1, <1>2, WordIsSeq
  <1>4. behind \in Seq(Bit) /\ Len(behind) = f + P /\ Begins(first, behind)
        /\ \A i \in 1 .. P : behind[f + i] = w[i]
    <2>1. /\ behind \in Seq(Bit) /\ Len(behind) = Len(first) + Len(w) /\ Begins(first, behind)
          /\ \A i \in 1 .. Len(w) : behind[Len(first) + i] = w[i]
      BY <1>3, Lengthens
    <2> QED BY <1>3, <2>1
  <1>5. /\ Len(s) = (f + P * g) + Len(last)
        /\ \A i \in 1 .. f : s[i] = first[i]
        /\ \A k \in 0 .. g - 1 : \A i \in 1 .. P : s[(f + P * k) + i] = ws[k + 1][i]
        /\ \A i \in 1 .. Len(last) : s[(f + P * g) + i] = last[i]
    BY DEF Stream
  <1>6. \A i \in 1 .. f : behind[i] = first[i]
    BY <1>4 DEF Begins
  <1> HIDE DEF P, f, g, w, us, behind
  <1>7. \A k \in 0 .. g - 1 : f + P * (k + 1) = (f + P) + P * k
    <2> TAKE k \in 0 .. g - 1
    <2>1. k \in Nat
      BY <1>2
    <2> DEFINE a == P * k
               b == P * (k + 1)
    <2>2. a \in Nat /\ b = a + P
      BY <1>1, <2>1, TimesNext
    <2> HIDE DEF a, b
    <2>3. f + b = (f + P) + a
      BY <1>1, <2>2
    <2> QED BY <2>3 DEF a, b
  <1>8. g - 1 \in 0 .. g - 1 /\ (g - 1) + 1 = g /\ 0 \in 0 .. g - 1 /\ 0 + 1 = 1
    BY <1>2
  <1>9. f + P * g = (f + P) + P * (g - 1)
    BY <1>7, <1>8
  <1>10. Len(s) = (Len(behind) + P * Len(us)) + Len(last)
    BY <1>2, <1>4, <1>5, <1>9
  <1>11. ASSUME NEW i \in 1 .. Len(behind) PROVE s[i] = behind[i]
    <2>1. i \in 1 .. f \/ (i - f \in 1 .. P /\ f + (i - f) = i)
      BY <1>1, <1>4
    <2>2. ASSUME i - f \in 1 .. P, f + (i - f) = i PROVE s[i] = behind[i]
      <3>1. f + P * 0 = f
        BY <1>1, TimesNext
      <3>2. s[(f + P * 0) + (i - f)] = ws[0 + 1][i - f]
        BY <1>5, <1>8, <2>2
      <3>3. behind[f + (i - f)] = w[i - f]
        BY <1>4, <2>2
      <3> QED BY <1>2, <1>8, <2>2, <3>1, <3>2, <3>3
    <2> QED BY <1>5, <1>6, <2>1, <2>2
  <1>12. ASSUME NEW k \in 0 .. Len(us) - 1, NEW i \in 1 .. P
         PROVE  s[(Len(behind) + P * k) + i] = us[k + 1][i]
    <2>1. k \in 0 .. g - 1 /\ k + 1 \in 0 .. g - 1 /\ k + 1 \in 1 .. g - 1
      BY <1>2
    <2>2. s[(f + P * (k + 1)) + i] = ws[(k + 1) + 1][i]
      BY <1>5, <2>1
    <2>3. us[k + 1] = ws[(k + 1) + 1]
      BY <1>2, <2>1
    <2> QED BY <1>4, <1>7, <2>1, <2>2, <2>3
  <1>13. \A i \in 1 .. Len(last) : s[(Len(behind) + P * Len(us)) + i] = last[i]
    BY <1>2, <1>4, <1>5, <1>9
  <1>14. Stream(s, behind, us, last, p)
    BY <1>10, <1>11, <1>12, <1>13 DEF Stream, P
  <1> QED BY <1>2, <1>3, <1>4, <1>14 DEF P, f, g, w, us, behind

(* The decoder shifts bits out.                                             *)
LEMMA BitsLeave ==
  ASSUME NEW p \in Parameter, NEW s \in Seq(Bit), NEW first \in Seq(Bit),
         NEW ws \in Seq(Word(p)), NEW last \in Seq(Bit),
         Stream(s, first, ws, last, p), NEW x \in 0 .. Len(first),
         NEW t \in Seq(Bit), IsRest(t, s, x), NEW rest \in Seq(Bit), IsRest(rest, first, x)
  PROVE  Stream(t, rest, ws, last, p)
  <1> DEFINE P == p.phyword
             f == Len(first)
             g == Len(ws)
             h == Len(rest)
             n == Len(t)
             v == Len(last)
             a == P * g
  <1>1. P \in Nat /\ P > 0 /\ f \in Nat /\ h \in Nat /\ n \in Nat /\ v \in Nat /\ x \in Nat /\ x <= f
    BY WordSizes, LenProperties
  <1>2. g \in Nat
    BY LenProperties
  <1>3. /\ Len(s) = (f + a) + v
        /\ \A i \in 1 .. f : s[i] = first[i]
        /\ \A k \in 0 .. g - 1 : \A i \in 1 .. P : s[(f + P * k) + i] = ws[k + 1][i]
        /\ \A i \in 1 .. v : s[(f + a) + i] = last[i]
    BY DEF Stream
  <1>4. /\ n = Len(s) - x /\ \A i \in 1 .. n : t[i] = s[x + i]
        /\ h = f - x /\ \A i \in 1 .. h : rest[i] = first[x + i]
    BY DEF IsRest
  <1>5. a \in Nat
    BY <1>1, <1>2, TimesNext
  <1> HIDE DEF P, f, g, h, n, v, a
  <1>6. n = (h + a) + v
    BY <1>1, <1>3, <1>4, <1>5
  <1>7. ASSUME NEW i \in 1 .. h PROVE t[i] = rest[i]
    <2>1. i \in 1 .. n /\ x + i \in 1 .. f
      BY <1>1, <1>4, <1>5, <1>6
    <2> QED BY <1>3, <1>4, <2>1
  <1>8. ASSUME NEW k \in 0 .. g - 1, NEW i \in 1 .. P
        PROVE  t[(h + P * k) + i] = ws[k + 1][i]
    <2> DEFINE b == P * k
    <2>1. b \in Nat /\ b + P <= a
      <3>1. k \in Nat /\ k + 1 \in Nat /\ k + 1 <= g
        BY <1>2
      <3>2. b \in Nat /\ P * (k + 1) = b + P /\ P * (k + 1) <= a
        BY <1>1, <1>2, <3>1, TimesNext, TimesSum DEF a
      <3> QED BY <3>2
    <2>2. s[(f + b) + i] = ws[k + 1][i]
      BY <1>3
    <2> HIDE DEF b
    <2>3. (h + b) + i \in 1 .. n /\ x + ((h + b) + i) = (f + b) + i
      BY <1>1, <1>4, <1>5, <1>6, <2>1
    <2>4. t[(h + b) + i] = s[x + ((h + b) + i)]
      BY <1>4, <2>3
    <2> QED BY <2>2, <2>3, <2>4 DEF b
  <1>9. ASSUME NEW i \in 1 .. v PROVE t[(h + a) + i] = last[i]
    <2>0. h = f - x
      BY <1>4
    <2>1. (h + a) + i \in 1 .. n /\ x + ((h + a) + i) = (f + a) + i
      BY <1>1, <1>5, <1>6, <2>0
    <2>2. t[(h + a) + i] = s[x + ((h + a) + i)]
      BY <1>4, <2>1
    <2> QED BY <1>3, <2>1, <2>2
  <1> QED BY <1>6, <1>7, <1>8, <1>9 DEF Stream, P, f, g, h, n, v, a

(* The encoder shifts bits in.                                              *)
LEMMA BitsJoin ==
  ASSUME NEW p \in Parameter, NEW s \in Seq(Bit), NEW first \in Seq(Bit),
         NEW ws \in Seq(Word(p)), NEW last \in Seq(Bit),
         Stream(s, first, ws, last, p), NEW raw \in Seq(Bit)
  PROVE  Stream(s \o raw, first, ws, last \o raw, p)
  <1> DEFINE P == p.phyword
             f == Len(first)
             g == Len(ws)
             n == Len(s)
             v == Len(last)
             r == Len(raw)
             a == P * g
             t == s \o raw
             u == last \o raw
  <1>1. P \in Nat /\ P > 0 /\ f \in Nat /\ n \in Nat /\ v \in Nat /\ r \in Nat
    BY WordSizes, LenProperties
  <1>2. g \in Nat
    BY LenProperties
  <1>3. /\ n = (f + a) + v
        /\ \A i \in 1 .. f : s[i] = first[i]
        /\ \A k \in 0 .. g - 1 : \A i \in 1 .. P : s[(f + P * k) + i] = ws[k + 1][i]
        /\ \A i \in 1 .. v : s[(f + a) + i] = last[i]
    BY DEF Stream
  <1>4. Len(t) = n + r /\ (\A i \in 1 .. n : t[i] = s[i]) /\ \A i \in 1 .. r : t[n + i] = raw[i]
    BY Lengthens DEF Begins
  <1>5. Len(u) = v + r /\ (\A i \in 1 .. v : u[i] = last[i]) /\ \A i \in 1 .. r : u[v + i] = raw[i]
    BY Lengthens DEF Begins
  <1>6. a \in Nat
    BY <1>1, <1>2, TimesNext
  <1> HIDE DEF P, f, g, n, v, r, a, t, u
  <1>7. Len(t) = (f + a) + Len(u)
    BY <1>1, <1>3, <1>4, <1>5, <1>6
  <1>8. ASSUME NEW i \in 1 .. f PROVE t[i] = first[i]
    <2>1. i \in 1 .. n
      BY <1>1, <1>3, <1>6
    <2> QED BY <1>3, <1>4, <2>1
  <1>9. ASSUME NEW k \in 0 .. g - 1, NEW i \in 1 .. P
        PROVE  t[(f + P * k) + i] = ws[k + 1][i]
    <2> DEFINE b == P * k
    <2>1. b \in Nat /\ b + P <= a
      <3>1. k \in Nat /\ k + 1 \in Nat /\ k + 1 <= g
        BY <1>2
      <3>2. b \in Nat /\ P * (k + 1) = b + P /\ P * (k + 1) <= a
        BY <1>1, <1>2, <3>1, TimesNext, TimesSum DEF a
      <3> QED BY <3>2
    <2>2. s[(f + b) + i] = ws[k + 1][i]
      BY <1>3
    <2> HIDE DEF b
    <2>3. (f + b) + i \in 1 .. n
      BY <1>1, <1>3, <1>6, <2>1
    <2>4. t[(f + b) + i] = s[(f + b) + i]
      BY <1>4, <2>3
    <2> QED BY <2>2, <2>4 DEF b
  <1>10. ASSUME NEW i \in 1 .. Len(u) PROVE t[(f + a) + i] = u[i]
    <2>1. \/ i \in 1 .. v /\ (f + a) + i \in 1 .. n
          \/ i - v \in 1 .. r /\ v + (i - v) = i /\ n + (i - v) = (f + a) + i
      BY <1>1, <1>3, <1>5, <1>6
    <2>2. ASSUME i \in 1 .. v, (f + a) + i \in 1 .. n PROVE t[(f + a) + i] = u[i]
      BY <1>3, <1>4, <1>5, <2>2
    <2>3. ASSUME i - v \in 1 .. r, v + (i - v) = i, n + (i - v) = (f + a) + i
          PROVE t[(f + a) + i] = u[i]
      <3>1. t[n + (i - v)] = raw[i - v] /\ u[v + (i - v)] = raw[i - v]
        BY <1>4, <1>5, <2>3
      <3> QED BY <2>3, <3>1
    <2> QED BY <2>1, <2>2, <2>3
  <1> QED BY <1>7, <1>8, <1>9, <1>10 DEF Stream, P, f, g, v, a, t, u

(* The first n words of bits.                                               *)
AreWords(us, n, bits, p) ==
  /\ Len(us) = n
  /\ \A k \in 0 .. n - 1 : \A i \in 1 .. p.phyword : us[k + 1][i] = bits[p.phyword * k + i]

(* When the first n words of the last bits are put behind the words, the    *)
(* bits underway are the same.                                              *)
LEMMA WordsLeave ==
  ASSUME NEW p \in Parameter, NEW s \in Seq(Bit), NEW first \in Seq(Bit),
         NEW ws \in Seq(Word(p)), NEW last \in Seq(Bit),
         Stream(s, first, ws, last, p), NEW n \in Nat, p.phyword * n <= Len(last),
         NEW us \in Seq(Word(p)), AreWords(us, n, last, p),
         NEW rest \in Seq(Bit), IsRest(rest, last, p.phyword * n)
  PROVE  Stream(s, first, ws \o us, rest, p)
  <1> DEFINE P == p.phyword
             f == Len(first)
             g == Len(ws)
             v == Len(last)
             h == Len(rest)
             a == P * g
             c == P * n
             t == ws \o us
  <1>1. P \in Nat /\ P > 0 /\ f \in Nat /\ v \in Nat /\ h \in Nat
    BY WordSizes, LenProperties
  <1>2. g \in Nat
    BY LenProperties
  <1>3. /\ Len(s) = (f + a) + v
        /\ \A i \in 1 .. f : s[i] = first[i]
        /\ \A k \in 0 .. g - 1 : \A i \in 1 .. P : s[(f + P * k) + i] = ws[k + 1][i]
        /\ \A i \in 1 .. v : s[(f + a) + i] = last[i]
    BY DEF Stream
  <1>4. h = v - c /\ \A i \in 1 .. h : rest[i] = last[c + i]
    BY DEF IsRest
  <1>5. Len(t) = g + n /\ (\A k \in 1 .. g : t[k] = ws[k]) /\ \A k \in 1 .. n : t[g + k] = us[k]
    <2>1. Len(t) = Len(ws) + Len(us) /\ Begins(ws, t) /\ \A k \in 1 .. Len(us) : t[Len(ws) + k] = us[k]
      BY Lengthens
    <2> QED BY <2>1 DEF Begins, AreWords
  <1>6. a \in Nat /\ c \in Nat /\ P * (g + n) = a + c /\ c <= v
    BY <1>1, <1>2, TimesNext, TimesSum
  <1>7. \A k \in 0 .. n - 1 : \A i \in 1 .. P : us[k + 1][i] = last[P * k + i]
    BY DEF AreWords
  <1> HIDE DEF P, f, g, v, h, a, c, t
  <1>8. Len(s) = (f + P * Len(t)) + h
    BY <1>1, <1>3, <1>4, <1>5, <1>6
  <1>9. ASSUME NEW k \in 0 .. Len(t) - 1, NEW i \in 1 .. P
        PROVE  s[(f + P * k) + i] = t[k + 1][i]
    <2>1. \/ k \in 0 .. g - 1 /\ k + 1 \in 1 .. g
          \/ k - g \in 0 .. n - 1 /\ k - g \in Nat /\ (k - g) + 1 \in 1 .. n
             /\ g + ((k - g) + 1) = k + 1 /\ g + (k - g) = k
      <3>1. k \in 0 .. (g + n) - 1
        BY <1>5
      <3> QED BY <1>2, <3>1
    <2>2. ASSUME k \in 0 .. g - 1, k + 1 \in 1 .. g PROVE s[(f + P * k) + i] = t[k + 1][i]
      BY <1>3, <1>5, <2>2
    <2>3. ASSUME NEW j \in Nat, j \in 0 .. n - 1, j + 1 \in 1 .. n, g + (j + 1) = k + 1, g + j = k
          PROVE s[(f + P * k) + i] = t[k + 1][i]
      <3> DEFINE b == P * j
      <3>1. b \in Nat /\ b + P <= c /\ P * k = a + b
        <4>1. j + 1 \in Nat /\ j + 1 <= n
          BY <2>3
        <4>2. b \in Nat /\ P * (j + 1) = b + P /\ P * (j + 1) <= c /\ P * (g + j) = a + b
          BY <1>1, <1>2, <4>1, TimesNext, TimesSum DEF a, c
        <4> QED BY <2>3, <4>2
      <3>2. t[k + 1] = us[j + 1] /\ us[j + 1][i] = last[b + i]
        BY <1>5, <1>7, <2>3
      <3> DEFINE e == P * k
      <3> HIDE DEF b, e
      <3>3. e = a + b /\ b + i \in 1 .. v /\ (f + a) + (b + i) = (f + e) + i
        BY <1>1, <1>6, <3>1 DEF e
      <3>4. s[(f + a) + (b + i)] = last[b + i]
        BY <1>3, <3>3
      <3> QED BY <3>2, <3>3, <3>4 DEF e
    <2> QED BY <2>1, <2>2, <2>3
  <1>10. ASSUME NEW i \in 1 .. h PROVE s[(f + P * Len(t)) + i] = rest[i]
    <2>1. c + i \in 1 .. v /\ (f + a) + (c + i) = (f + (a + c)) + i
      BY <1>1, <1>4, <1>6
    <2>2. s[(f + a) + (c + i)] = last[c + i]
      BY <1>3, <2>1
    <2>3. P * Len(t) = a + c
      BY <1>5, <1>6
    <2> QED BY <1>4, <2>1, <2>2, <2>3
  <1> QED BY <1>3, <1>8, <1>9, <1>10 DEF Stream, P, f, h, t
----------------------------------------------------------------------------
(* Messages q are on their way in the bits s. *)

OnTheWay(q, s, first, ws, last, p) ==
  /\ q \in Seq(MessagesOf(p)) /\ s \in Seq(Bit)
  /\ Stream(s, first, ws, last, p) /\ InOrder(s, Len(first), q, p)

(* A message is encoded.                                                    *)
LEMMA MessageJoins ==
  ASSUME NEW p \in Parameter, NEW q, NEW s, NEW first \in Seq(Bit),
         NEW ws \in Seq(Word(p)), NEW last \in Seq(Bit),
         OnTheWay(q, s, first, ws, last, p), NEW m \in MessagesOf(p),
         NEW n \in Nat, p.phyword * n <= Len(last \o Raw(p, m)),
         NEW us \in Seq(Word(p)), AreWords(us, n, last \o Raw(p, m), p),
         NEW rest \in Seq(Bit), IsRest(rest, last \o Raw(p, m), p.phyword * n)
  PROVE  OnTheWay(Append(q, m), s \o Raw(p, m), first, ws \o us, rest, p)
  <1> DEFINE raw == Raw(p, m)
  <1>1. /\ q \in Seq(MessagesOf(p)) /\ s \in Seq(Bit)
        /\ Stream(s, first, ws, last, p) /\ InOrder(s, Len(first), q, p)
    BY DEF OnTheWay
  <1>2. raw \in Seq(Bit) /\ Len(first) \in Nat
    BY RawBits, LenProperties
  <1>3. InOrder(s \o raw, Len(first), Append(q, m), p)
    BY <1>1, <1>2, WithMessage
  <1>4. Append(q, m) \in Seq(MessagesOf(p))
    BY <1>1, AppendProperties
  <1> HIDE DEF raw
  <1>5. s \o raw \in Seq(Bit) /\ last \o raw \in Seq(Bit)
    BY <1>1, <1>2, ConcatProperties
  <1>6. Stream(s \o raw, first, ws, last \o raw, p)
    BY <1>1, <1>2, BitsJoin
  <1>7. Stream(s \o raw, first, ws \o us, rest, p)
    BY <1>5, <1>6, WordsLeave DEF raw
  <1> QED BY <1>3, <1>4, <1>5, <1>7 DEF OnTheWay, raw

(* The last word is filled up.                                              *)
LEMMA PaddingJoins ==
  ASSUME NEW p \in Parameter, NEW q, NEW s, NEW first \in Seq(Bit),
         NEW ws \in Seq(Word(p)), NEW last \in Seq(Bit),
         OnTheWay(q, s, first, ws, last, p), NEW pad \in Seq(Bit), pad[1] = 1,
         Len(last) < p.phyword, Len(last) + Len(pad) = p.phyword
  PROVE  last \o pad \in Word(p) /\ OnTheWay(q, s \o pad, first, Append(ws, last \o pad), <<>>, p)
  <1> DEFINE P == p.phyword
             f == Len(first)
             g == Len(ws)
             t == s \o pad
             w == last \o pad
  <1>1. /\ q \in Seq(MessagesOf(p)) /\ s \in Seq(Bit)
        /\ Stream(s, first, ws, last, p) /\ InOrder(s, f, q, p)
    BY DEF OnTheWay
  <1>2. P \in Nat /\ f \in Nat /\ Len(last) \in Nat /\ Len(pad) \in Nat
    BY WordSizes, LenProperties
  <1>3. g \in Nat /\ g + 1 \in Nat
    BY LenProperties
  <1>4. t \in Seq(Bit) /\ Len(t) = Len(s) + Len(pad) /\ w \in Seq(Bit) /\ Len(w) = P
    BY <1>1, ConcatProperties
  <1>5. w \in Word(p)
    BY <1>4, LenProperties DEF Word
  <1>6. Len(s) = (f + P * g) + Len(last)
    BY <1>1 DEF Stream
  <1> HIDE DEF f, g, t, w
  <1>7. Len(t) = f + P * (g + 1)
    <2> DEFINE a == P * g
               b == P * (g + 1)
               v == Len(last)
               r == Len(pad)
    <2>1. a \in Nat /\ b = a + P /\ v + r = P /\ v \in Nat /\ r \in Nat /\ Len(t) = ((f + a) + v) + r
      BY <1>2, <1>3, <1>4, <1>6, TimesNext
    <2> HIDE DEF a, b, v, r, P
    <2>2. Len(t) = f + b
      BY <1>2, <2>1
    <2> QED BY <2>2 DEF b
  <1>8. Boundary(Len(t), f, p)
    <2>1. g + 1 \in Int
      BY <1>3
    <2> QED BY <1>7, <2>1 DEF Boundary
  <1>9. Len(pad) \in 1 .. P
    BY <1>2
  <1>10. InOrder(t, f, q, p)
    BY <1>1, <1>2, <1>8, <1>9, WithPadding DEF t
  <1>11. Stream(t, first, ws, w, p)
    BY <1>1, BitsJoin DEF t, w
  <1> DEFINE us == <<w>>
  <1>12. us \in Seq(Word(p)) /\ AreWords(us, 1, w, p)
    <2>1. Len(us) = 1 /\ us[1] = w /\ us \in Seq(Word(p))
      BY <1>5
    <2> HIDE DEF us
    <2>2. \A k \in 0 .. 1 - 1 : \A i \in 1 .. P : us[k + 1][i] = w[P * k + i]
      <3> TAKE k \in 0 .. 1 - 1
      <3> TAKE i \in 1 .. P
      <3>1. k = 0 /\ 0 + 1 = 1 /\ P * 0 + i = i
        BY <1>2
      <3> QED BY <2>1, <3>1
    <2> QED BY <2>1, <2>2 DEF AreWords
  <1>13. IsRest(<<>>, w, P * 1) /\ P * 1 <= Len(w)
    <2>1. P * 1 = P /\ Len(<<>>) = 0 /\ P - P = 0 /\ P <= P
      BY <1>2
    <2>2. \A i \in 1 .. 0 : <<>>[i] = w[P * 1 + i]
      OBVIOUS
    <2> QED BY <1>4, <2>1, <2>2 DEF IsRest
  <1>14. <<>> \in Seq(Bit) /\ 1 \in Nat
    OBVIOUS
  <1>15. Append(ws, w) = ws \o us
    BY <1>5, AppendIsConcat
  <1> HIDE DEF us
  <1>16. Stream(t, first, ws \o us, <<>>, p)
    BY <1>4, <1>11, <1>12, <1>13, <1>14, WordsLeave
  <1> QED BY <1>1, <1>4, <1>5, <1>10, <1>15, <1>16 DEF OnTheWay, f, t, w

(* A word is shifted into the buffer of the decoder.                        *)
LEMMA WordShifts ==
  ASSUME NEW p \in Parameter, NEW q, NEW s, NEW first \in Seq(Bit),
         NEW ws \in Seq(Word(p)), NEW last \in Seq(Bit),
         OnTheWay(q, s, first, ws, last, p), ws # <<>>
  PROVE  OnTheWay(q, s, first \o Head(ws), Tail(ws), last, p)
  <1> DEFINE P == p.phyword
             f == Len(first)
  <1>1. /\ q \in Seq(MessagesOf(p)) /\ s \in Seq(Bit)
        /\ Stream(s, first, ws, last, p) /\ InOrder(s, f, q, p)
    BY DEF OnTheWay
  <1>2. /\ first \o Head(ws) \in Seq(Bit) /\ Len(first \o Head(ws)) = f + P
        /\ Stream(s, first \o Head(ws), Tail(ws), last, p)
    BY <1>1, WordMoves
  <1>3. P \in Nat /\ f \in Nat /\ f + P \in Nat /\ f + P = f - 0 + P * 1
    <2>1. P \in Nat /\ f \in Nat
      BY WordSizes, LenProperties
    <2> HIDE DEF P, f
    <2> QED BY <2>1
  <1>4. SameEnds(f + P, f, 0, p)
    BY <1>3 DEF SameEnds
  <1>5. InOrder(s, f + P, q, p)
    BY <1>1, <1>3, <1>4, OtherEnd
  <1> QED BY <1>1, <1>2, <1>5 DEF OnTheWay

(* What is behind a cut is on its way.                                      *)
LEMMA BitsShiftOut ==
  ASSUME NEW p \in Parameter, NEW q, NEW s, NEW first \in Seq(Bit),
         NEW ws \in Seq(Word(p)), NEW last \in Seq(Bit),
         OnTheWay(q, s, first, ws, last, p), NEW x \in 0 .. Len(first), NEW r \in Seq(MessagesOf(p)),
         InOrder(SubSeq(s, x + 1, Len(s)), Len(first) - x, r, p)
  PROVE  OnTheWay(r, SubSeq(s, x + 1, Len(s)), SubSeq(first, x + 1, Len(first)), ws, last, p)
  <1> DEFINE t == SubSeq(s, x + 1, Len(s))
             rest == SubSeq(first, x + 1, Len(first))
  <1>1. s \in Seq(Bit) /\ Stream(s, first, ws, last, p)
    BY DEF OnTheWay
  <1>2. x \in 0 .. Len(s)
    <2>1. Len(s) = (Len(first) + p.phyword * Len(ws)) + Len(last)
      BY <1>1 DEF Stream
    <2>2. Len(first) \in Nat /\ Len(last) \in Nat /\ p.phyword \in Nat /\ Len(s) \in Nat
      BY <1>1, LenProperties, WordSizes
    <2>3. Len(ws) \in Nat
      BY LenProperties
    <2> DEFINE a == p.phyword * Len(ws)
    <2>4. a \in Nat
      BY <2>2, <2>3, TimesNext
    <2> HIDE DEF a
    <2> QED BY <2>1, <2>2, <2>4 DEF a
  <1>3. t \in Seq(Bit) /\ IsRest(t, s, x) /\ rest \in Seq(Bit) /\ IsRest(rest, first, x)
    BY <1>1, <1>2, Behind
  <1>4. Len(rest) = Len(first) - x
    BY <1>3 DEF IsRest
  <1> HIDE DEF t, rest
  <1>5. Stream(t, rest, ws, last, p)
    BY <1>1, <1>3, BitsLeave
  <1> QED BY <1>3, <1>4, <1>5 DEF OnTheWay, t, rest

(* The message that begins at the start of the buffer.                      *)
LEMMA MessageBegins ==
  ASSUME NEW p \in Parameter, NEW q, NEW s, NEW first \in Seq(Bit),
         NEW ws \in Seq(Word(p)), NEW last \in Seq(Bit),
         OnTheWay(q, s, first, ws, last, p), first # <<>>, first[1] = 0
  PROVE  LET W == WordWidth(p, Head(q).header)
             HW == HeaderWidth(p)
         IN /\ q # <<>> /\ Head(q) \in MessagesOf(p)
            /\ Len(s) >= W
            /\ Len(first) >= HW => ValueOf(SubSeq(first, 1, HW)) = Head(q).header
            /\ Len(first) >= W =>
                 /\ MessageIn(p, Head(q).header, first) = Head(q)
                 /\ OnTheWay(Tail(q), SubSeq(s, W + 1, Len(s)), SubSeq(first, W + 1, Len(first)),
                             ws, last, p)
  <1> DEFINE m == Head(q)
             W == WordWidth(p, m.header)
             HW == HeaderWidth(p)
  <1>1. /\ q \in Seq(MessagesOf(p)) /\ s \in Seq(Bit)
        /\ Stream(s, first, ws, last, p) /\ InOrder(s, Len(first), q, p)
    BY DEF OnTheWay
  <1>2. Len(first) \in Nat /\ Len(first) > 0 /\ Len(s) \in Nat
    BY <1>1, EmptySeq, LenProperties
  <1>3. \A i \in 1 .. Len(first) : s[i] = first[i]
    BY <1>1 DEF Stream
  <1>4. s # <<>> /\ s[1] = 0
    <2>1. 1 \in 1 .. Len(first)
      BY <1>2
    <2>2. s[1] = 0
      BY <1>3, <2>1
    <2>3. Len(s) = (Len(first) + p.phyword * Len(ws)) + Len(last)
      BY <1>1 DEF Stream
    <2>4. Len(last) \in Nat /\ p.phyword \in Nat
      BY LenProperties, WordSizes
    <2>5. Len(ws) \in Nat
      BY LenProperties
    <2> DEFINE a == p.phyword * Len(ws)
    <2>6. a \in Nat
      BY <2>4, <2>5, TimesNext
    <2> HIDE DEF a
    <2>7. Len(s) > 0
      BY <1>2, <2>3, <2>4, <2>6 DEF a
    <2>8. s # <<>>
      BY <2>7
    <2> QED BY <2>2, <2>8
  <1>5. /\ q # <<>> /\ m \in MessagesOf(p) /\ Len(s) >= W
        /\ \A i \in 1 .. W : s[i] = Raw(p, m)[i]
        /\ \A a \in Nat : a = Len(first) - W => InOrder(SubSeq(s, W + 1, Len(s)), a, Tail(q), p)
    BY <1>1, <1>2, <1>4, MessageFirst
  <1>6. W \in Nat /\ HW \in Nat /\ W >= HW
    <2>1. m.header \in 0 .. Len(p.dictionary) - 1
      BY <1>5, MessageParts
    <2>2. /\ W \in Nat /\ HW \in Nat /\ p.dictionary[m.header + 1] \in Nat
          /\ W >= HW + p.dictionary[m.header + 1]
      BY <2>1, MessageSizes, WordSizes
    <2> HIDE DEF W, HW
    <2> QED BY <2>2
  <1> HIDE DEF W, HW, m
  <1>7. ASSUME Len(first) >= HW PROVE ValueOf(SubSeq(first, 1, HW)) = m.header
    <2>1. \A i \in 1 .. HW : i \in 1 .. W /\ i \in 1 .. Len(first)
      BY <1>2, <1>6, <1>7
    <2>2. \A i \in 1 .. HW : first[i] = Raw(p, m)[i]
      BY <1>3, <1>5, <2>1
    <2> QED BY <1>5, <1>7, <2>2, HeaderFound DEF HW
  <1>8. ASSUME Len(first) >= W
        PROVE  /\ MessageIn(p, m.header, first) = m
               /\ OnTheWay(Tail(q), SubSeq(s, W + 1, Len(s)), SubSeq(first, W + 1, Len(first)),
                           ws, last, p)
    <2>1. \A i \in 1 .. W : i \in 1 .. Len(first)
      BY <1>2, <1>6, <1>8
    <2>2. \A i \in 1 .. W : first[i] = Raw(p, m)[i]
      BY <1>3, <1>5, <2>1
    <2>3. MessageIn(p, m.header, first) = m
      BY <1>5, <1>8, <2>2, MessageFound DEF W
    <2>4. W \in 0 .. Len(first) /\ Len(first) - W \in Nat
      BY <1>2, <1>6, <1>8
    <2>5. InOrder(SubSeq(s, W + 1, Len(s)), Len(first) - W, Tail(q), p)
      BY <1>5, <2>4
    <2>6. Tail(q) \in Seq(MessagesOf(p))
      BY <1>1, <1>5, HeadTailProperties
    <2> QED BY <2>3, <2>4, <2>5, <2>6, BitsShiftOut
  <1> QED BY <1>5, <1>7, <1>8 DEF W, HW, m

(* Where a word ends between here and the next word.                        *)
LEMMA WordEnd ==
  ASSUME NEW P \in Nat, NEW b \in Nat, NEW x \in 1 .. P, NEW z \in Int, x = b + P * z,
         b \in 1 .. P
  PROVE  x = b
  <1>1. CASE z = 0
    BY <1>1
  <1>2. CASE z > 0
    <2>1. PICK k \in Nat : z = k + 1
      <3>1. z - 1 \in Nat /\ z = (z - 1) + 1
        BY <1>2
      <3> QED BY <3>1
    <2> DEFINE a == P * k
               c == P * z
    <2>2. c = a + P /\ a \in Nat /\ x = b + c
      BY <2>1, TimesNext
    <2> HIDE DEF a, c
    <2>3. FALSE
      BY <2>2
    <2> QED BY <2>3
  <1>3. CASE z < 0
    <2>1. PICK k \in Nat : z = 0 - (k + 1)
      <3>1. (0 - z) - 1 \in Nat /\ z = 0 - (((0 - z) - 1) + 1)
        BY <1>3
      <3> QED BY <3>1
    <2> DEFINE a == P * k
               d == P * (k + 1)
               c == P * z
    <2>2. d = a + P /\ a \in Nat /\ x = b + c
      BY <2>1, TimesNext
    <2>3. c = 0 - d
      BY <2>1
    <2> HIDE DEF a, c, d
    <2>4. FALSE
      BY <2>2, <2>3
    <2> QED BY <2>4
  <1> QED BY <1>1, <1>2, <1>3

(* A comma at the start of less than a word, or of a word, ends with it.    *)
LEMMA CommaBegins ==
  ASSUME NEW p \in Parameter, NEW q, NEW s, NEW first \in Seq(Bit),
         NEW ws \in Seq(Word(p)), NEW last \in Seq(Bit),
         OnTheWay(q, s, first, ws, last, p), first # <<>>, first[1] = 1, Len(first) <= p.phyword
  PROVE  OnTheWay(q, SubSeq(s, Len(first) + 1, Len(s)), <<>>, ws, last, p)
  <1> DEFINE P == p.phyword
             f == Len(first)
  <1>1. /\ q \in Seq(MessagesOf(p)) /\ s \in Seq(Bit)
        /\ Stream(s, first, ws, last, p) /\ InOrder(s, f, q, p)
    BY DEF OnTheWay
  <1>2. f \in Nat /\ f > 0 /\ Len(s) \in Nat /\ P \in Nat /\ f \in 1 .. P
    <2>1. f \in Nat /\ f > 0 /\ Len(s) \in Nat /\ P \in Nat
      BY <1>1, EmptySeq, LenProperties, WordSizes
    <2> QED BY <2>1
  <1>3. s # <<>> /\ s[1] = 1
    <2>1. 1 \in 1 .. f
      BY <1>2
    <2>2. s[1] = 1
      BY <1>1, <2>1 DEF Stream
    <2>3. Len(s) = (f + P * Len(ws)) + Len(last)
      BY <1>1 DEF Stream
    <2>4. Len(last) \in Nat
      BY LenProperties
    <2>5. Len(ws) \in Nat
      BY LenProperties
    <2> DEFINE a == P * Len(ws)
    <2>6. a \in Nat
      BY <1>2, <2>5, TimesNext
    <2> HIDE DEF a, P, f
    <2>7. Len(s) > 0
      BY <1>2, <2>3, <2>4, <2>6 DEF a
    <2>8. s # <<>>
      BY <2>7
    <2> QED BY <2>2, <2>8
  <1>4. PICK x \in 1 .. P :
          /\ x <= Len(s) /\ Boundary(x, f, p)
          /\ \A a \in Nat : SameEnds(a, f, x, p) => InOrder(SubSeq(s, x + 1, Len(s)), a, q, p)
    BY <1>1, <1>2, <1>3, PaddingFirst
  <1>5. x = f
    <2>1. PICK z \in Int : x = f + P * z
      BY <1>4 DEF Boundary
    <2> HIDE DEF P, f
    <2> QED BY <1>2, <2>1, WordEnd
  <1>6. InOrder(SubSeq(s, f + 1, Len(s)), f - f, q, p)
    <2>1. f - f = 0 /\ 0 = f - f + P * 0 /\ 0 \in Nat /\ 0 \in Int
      <3> HIDE DEF f, P
      <3> QED BY <1>2
    <2>2. SameEnds(0, f, f, p)
      BY <2>1 DEF SameEnds
    <2> QED BY <1>4, <1>5, <2>1, <2>2
  <1>7. SubSeq(first, f + 1, f) = <<>>
    <2>1. f + 1 \in Int /\ f \in Int /\ f < f + 1
      <3> HIDE DEF f
      <3> QED BY <1>2
    <2> QED BY <2>1, SubSeqEmpty
  <1>8. f \in 0 .. Len(first)
    BY <1>2
  <1>9. OnTheWay(q, SubSeq(s, f + 1, Len(s)), SubSeq(first, f + 1, f), ws, last, p)
    BY <1>1, <1>6, <1>8, BitsShiftOut
  <1> QED BY <1>7, <1>9

(* Between words and buffers that are empty nothing is on its way.          *)
LEMMA NothingLeft ==
  ASSUME NEW p \in Parameter, NEW q, NEW s, NEW first \in Seq(Bit),
         OnTheWay(q, s, first, <<>>, <<>>, p)
  PROVE  Len(s) = Len(first) /\ (first = <<>> => q = <<>>)
  <1>1. /\ q \in Seq(MessagesOf(p)) /\ s \in Seq(Bit)
        /\ Stream(s, first, <<>>, <<>>, p) /\ InOrder(s, Len(first), q, p)
    BY DEF OnTheWay
  <1>2. Len(s) = (Len(first) + p.phyword * 0) + 0
    <2>1. Len(<<>>) = 0
      OBVIOUS
    <2>2. Len(s) = (Len(first) + p.phyword * Len(<<>>)) + Len(<<>>)
      BY <1>1 DEF Stream
    <2> QED BY <2>1, <2>2
  <1>3. Len(first) \in Nat /\ p.phyword \in Nat
    BY LenProperties, WordSizes
  <1>4. Len(s) = Len(first)
    BY <1>2, <1>3
  <1>5. ASSUME first = <<>> PROVE q = <<>>
    <2>1. s = <<>>
      BY <1>1, <1>4, <1>5, EmptySeq
    <2>2. Len(first) = 0 /\ 0 \in Nat
      BY <1>5
    <2>3. InOrder(<<>>, 0, q, p)
      BY <1>1, <2>1, <2>2
    <2> QED BY <1>1, <2>2, <2>3, NothingFirst
  <1> QED BY <1>4, <1>5

(* Nothing is on its way where there are no bits.                           *)
LEMMA NothingYet ==
  ASSUME NEW p \in Parameter
  PROVE  OnTheWay(<<>>, <<>>, <<>>, <<>>, <<>>, p)
  <1>1. p.phyword \in Nat /\ Len(<<>>) = 0 /\ 0 \in Nat
    BY WordSizes
  <1>2. 0 = (0 + p.phyword * 0) + 0
    BY <1>1
  <1>3. Stream(<<>>, <<>>, <<>>, <<>>, p)
    BY <1>1, <1>2 DEF Stream
  <1>4. InOrder(<<>>, 0, <<>>, p)
    BY <1>1, NothingUnderway
  <1>5. <<>> \in Seq(MessagesOf(p)) /\ <<>> \in Seq(Bit)
    OBVIOUS
  <1> QED BY <1>1, <1>3, <1>4, <1>5 DEF OnTheWay
----------------------------------------------------------------------------
(* The inductive invariant.  Some messages q are underway behind the       *)
(* decoded ones, and where the decoder is tells what its buffer holds.     *)

Multiple(n, g) == \E k \in Nat : n = g * k

IsUnderway(q) ==
  /\ underway = m_message_queue \o q
  /\ \E s \in Seq(Bit) : OnTheWay(q, s, m_buffer, words, m_buffer_encoder, parameter)

BeginsMessage == m_buffer # <<>> /\ m_buffer[1] = 0
IsCurrent(q) ==
  /\ q # <<>> /\ m_current_header = Head(q).header
  /\ m_current_message_size = WordWidth(parameter, Head(q).header)
  /\ BeginsMessage
Within(level, size) == size <= level /\ level < size + parameter.phyword

InControl(q) ==
  /\ label = "word" =>
       \/ m_state = "dropping_leading_comma" /\ m_buffer = <<>>
       \/ m_state = "filling_until_header_size" /\ BeginsMessage
          /\ Len(m_buffer) < HeaderWidth(parameter)
       \/ m_state = "filling_until_message_size" /\ IsCurrent(q)
          /\ HeaderWidth(parameter) <= Len(m_buffer) /\ Len(m_buffer) < m_current_message_size
  /\ label = "decoding_header" =>
       BeginsMessage /\ Within(Len(m_buffer), HeaderWidth(parameter))
  /\ label = "decoding_message" =>
       IsCurrent(q) /\ Within(Len(m_buffer), m_current_message_size)

InvGranules == Multiple(Len(m_buffer), Granule(parameter))
InvUnderway == \E q \in Seq(MessagesOf(parameter)) : IsUnderway(q) /\ InControl(q)
CodecIInv == TypeOK /\ InvGranules /\ InvUnderway

(* Sums and differences of multiples are multiples, and a positive one is   *)
(* at least what it is a multiple of.                                       *)
LEMMA Multiples ==
  ASSUME NEW g \in Nat, g > 0, NEW a \in Nat, NEW b \in Nat, Multiple(a, g), Multiple(b, g)
  PROVE  /\ Multiple(a + b, g)
         /\ a <= b => Multiple(b - a, g)
         /\ a > 0 => a >= g
  <1>1. PICK k \in Nat : a = g * k
    BY DEF Multiple
  <1>2. PICK l \in Nat : b = g * l
    BY DEF Multiple
  <1>3. Multiple(a + b, g)
    <2>1. g * (k + l) = g * k + g * l /\ k + l \in Nat
      BY TimesSum
    <2> QED BY <1>1, <1>2, <2>1 DEF Multiple
  <1>4. ASSUME a <= b PROVE Multiple(b - a, g)
    <2>1. CASE k <= l
      <3>1. PICK d \in Nat : l = k + d
        <4>1. l - k \in Nat /\ l = k + (l - k)
          BY <2>1
        <4> QED BY <4>1
      <3> DEFINE c == g * d
      <3>2. b = a + c /\ c \in Nat
        BY <1>1, <1>2, <3>1, TimesNext, TimesSum
      <3> HIDE DEF c
      <3>3. b - a = c
        BY <3>2
      <3> QED BY <3>3 DEF Multiple, c
    <2>2. CASE l <= k
      <3>1. b <= a
        BY <1>1, <1>2, <2>2, TimesSum
      <3>2. b - a = 0
        BY <1>4, <3>1
      <3>3. 0 = g * 0
        OBVIOUS
      <3> QED BY <3>2, <3>3 DEF Multiple
    <2> QED BY <2>1, <2>2
  <1>5. ASSUME a > 0 PROVE a >= g
    <2>1. k # 0
      <3>1. g * 0 = 0
        OBVIOUS
      <3> QED BY <1>1, <1>5, <3>1
    <2>2. PICK j \in Nat : k = j + 1
      <3>1. k - 1 \in Nat /\ k = (k - 1) + 1
        BY <2>1
      <3> QED BY <3>1
    <2> DEFINE c == g * j
    <2>3. a = c + g /\ c \in Nat
      BY <1>1, <2>2, TimesNext
    <2> HIDE DEF c
    <2> QED BY <2>3
  <1> QED BY <1>3, <1>4, <1>5

(* Words, messages and headers.                                             *)
LEMMA Sizes ==
  ASSUME NEW p \in Parameter
  PROVE  /\ p.phyword \in Nat /\ p.phyword > 0 /\ HeaderWidth(p) \in Nat /\ HeaderWidth(p) > 0
         /\ Granule(p) \in Nat /\ Granule(p) > 0 /\ Multiple(p.phyword, Granule(p))
         /\ HeaderWidth(p) <= Granule(p) \/ Granule(p) = p.phyword
         /\ LargestSize(p) \in Nat /\ HeaderWidth(p) <= LargestSize(p)
         /\ BufferSize(p) \in Nat /\ LargestSize(p) + p.phyword <= BufferSize(p)
         /\ \A m \in MessagesOf(p) :
              /\ m.header \in 0 .. Len(p.dictionary) - 1
              /\ WordWidth(p, m.header) \in Nat /\ WordWidth(p, m.header) > 0
              /\ WordWidth(p, m.header) <= LargestSize(p)
              /\ HeaderWidth(p) <= WordWidth(p, m.header)
              /\ Multiple(WordWidth(p, m.header), Granule(p))
  <1> DEFINE P == p.phyword HW == HeaderWidth(p) g == Granule(p) L == LargestSize(p)
             R == RoundUp(L, P)
  <1>1. /\ P \in Nat /\ P > 0 /\ HW \in Nat /\ HW > 0 /\ g \in Nat /\ g > 0
        /\ Multiple(P, g) /\ (HW <= g \/ g = P) /\ Len(p.dictionary) - 1 \in Nat
    BY WordSizes DEF Multiple
  <1>2. L \in Nat /\ \A h \in 0 .. Len(p.dictionary) - 1 : WordWidth(p, h) <= L
    BY LargestMessage
  <1>3. ASSUME NEW h \in 0 .. Len(p.dictionary) - 1
        PROVE  WordWidth(p, h) \in Nat /\ WordWidth(p, h) > 0 /\ HW <= WordWidth(p, h)
               /\ Multiple(WordWidth(p, h), g)
    <2> DEFINE W == WordWidth(p, h) d == p.dictionary[h + 1]
    <2>1. d \in Nat /\ W \in Nat /\ W >= HW + d /\ Multiple(W, g)
      BY MessageSizes DEF Multiple
    <2> HIDE DEF W, d, HW, g
    <2>2. W > 0 /\ HW <= W
      BY <1>1, <2>1
    <2> QED BY <2>1, <2>2 DEF W, HW, g
  <1>4. HW <= L
    <2>1. 0 \in 0 .. Len(p.dictionary) - 1
      BY <1>1
    <2>2. HW <= WordWidth(p, 0) /\ WordWidth(p, 0) <= L /\ WordWidth(p, 0) \in Nat
      BY <1>2, <1>3, <2>1
    <2> HIDE DEF HW, L
    <2> QED BY <1>1, <1>2, <2>2
  <1>5. R \in Nat /\ R >= L
    BY <1>1, <1>2, RoundsUp
  <1>6. BufferSize(p) = R + P
    BY DEF BufferSize
  <1>7. BufferSize(p) \in Nat /\ L + P <= BufferSize(p)
    <2> HIDE DEF R, L, P
    <2> QED BY <1>1, <1>2, <1>5, <1>6
  <1>8. \A m \in MessagesOf(p) : m.header \in 0 .. Len(p.dictionary) - 1
    BY MessageParts
  <1> QED BY <1>1, <1>2, <1>3, <1>4, <1>7, <1>8

(* The words in bits.                                                       *)
LEMMA BitsInWords ==
  ASSUME parameter \in Parameter, NEW bits \in Seq(Bit), NEW n \in Nat,
         parameter.phyword * n <= Len(bits)
  PROVE  /\ WordsOf(bits, n) \in Seq(Word(parameter))
         /\ AreWords(WordsOf(bits, n), n, bits, parameter)
  <1> DEFINE P == parameter.phyword
             us == WordsOf(bits, n)
             w(k) == SubSeq(bits, k * P + 1, (k + 1) * P)
  <1>1. P \in Nat /\ P > 0 /\ Len(bits) \in Nat /\ P * n <= Len(bits)
    BY WordSizes, LenProperties
  <1>2. us = [i \in 1 .. n |-> SubSeq(bits, (i - 1) * P + 1, i * P)]
    BY DEF WordsOf
  <1>3. ASSUME NEW k \in 0 .. n - 1
        PROVE  /\ w(k) \in Word(parameter)
               /\ \A i \in 1 .. P : w(k)[i] = bits[P * k + i]
    <2> DEFINE a == k * P
               c == (k + 1) * P
               u == SubSeq(bits, a + 1, c)
    <2>1. a \in Nat /\ c = a + P /\ c <= Len(bits) /\ a = P * k
      <3>1. k \in Nat /\ k + 1 \in Nat /\ k + 1 <= n
        OBVIOUS
      <3>2. /\ P * k \in Nat /\ P * (k + 1) = P * k + P /\ P * (k + 1) <= P * n
            /\ P * n \in Nat /\ P * (k + 1) \in Nat
        BY <1>1, <3>1, TimesNext, TimesSum
      <3>3. k * P = P * k /\ (k + 1) * P = P * (k + 1)
        BY <1>1, <3>1
      <3>4. P * (k + 1) <= Len(bits)
        <4> DEFINE x == P * (k + 1) y == P * n
        <4>1. x \in Nat /\ y \in Nat /\ x <= y /\ y <= Len(bits)
          BY <1>1, <3>2
        <4> HIDE DEF x, y
        <4>2. x <= Len(bits)
          BY <1>1, <4>1
        <4> QED BY <4>2 DEF x
      <3> QED BY <3>2, <3>3, <3>4
    <2> HIDE DEF a, c, P
    <2>2. \A i \in a + 1 .. c : bits[i] \in Bit
      <3>1. \A i \in a + 1 .. c : i \in 1 .. Len(bits)
        BY <1>1, <2>1
      <3> QED BY <3>1, ElementOfSeq
    <2>3. a + 1 \in Int /\ c \in Int
      BY <1>1, <2>1
    <2>4. /\ u \in Seq(Bit) /\ Len(u) = IF a + 1 <= c THEN c - (a + 1) + 1 ELSE 0
          /\ \A i \in 1 .. c - (a + 1) + 1 : u[i] = bits[(a + 1) + i - 1]
      BY <2>2, <2>3, SubSeqProperties
    <2>5. c - (a + 1) + 1 = P /\ a + 1 <= c /\ \A i \in 1 .. P : (a + 1) + i - 1 = a + i
      BY <1>1, <2>1
    <2> HIDE DEF u
    <2>6. Len(u) = P /\ \A i \in 1 .. P : u[i] = bits[a + i]
      BY <2>4, <2>5
    <2>7. u \in [1 .. P -> Bit]
      BY <2>4, <2>6, LenProperties
    <2>8. u \in Word(parameter)
      BY <2>7 DEF Word, P
    <2> QED BY <2>1, <2>6, <2>8 DEF u, a, c
  <1>4. ASSUME NEW k \in 0 .. n - 1 PROVE k + 1 \in 1 .. n /\ us[k + 1] = w(k)
    <2>1. k + 1 \in 1 .. n /\ (k + 1) - 1 = k
      OBVIOUS
    <2> QED BY <1>2, <2>1
  <1> HIDE DEF w
  <1>5. us \in Seq(Word(parameter)) /\ Len(us) = n
    <2>1. ASSUME NEW i \in 1 .. n PROVE us[i] \in Word(parameter)
      <3>1. i - 1 \in 0 .. n - 1 /\ (i - 1) + 1 = i
        OBVIOUS
      <3> QED BY <1>3, <1>4, <3>1
    <2>2. us \in [1 .. n -> Word(parameter)]
      BY <1>2, <2>1
    <2> HIDE DEF us
    <2> QED BY <2>2
  <1>6. \A k \in 0 .. n - 1 : \A i \in 1 .. P : us[k + 1][i] = bits[P * k + i]
    BY <1>3, <1>4
  <1> QED BY <1>5, <1>6 DEF AreWords

(* What a flush and an idle word fill up with: a comma, and zeros.          *)
LEMMA PadBits ==
  ASSUME NEW n \in Nat
  PROVE  /\ <<1>> \o Zeros(n) \in Seq(Bit) /\ Len(<<1>> \o Zeros(n)) = n + 1
         /\ (<<1>> \o Zeros(n))[1] = 1 /\ Zeros(n) \in Seq(Bit)
  <1> DEFINE z == Zeros(n) one == <<1>>
  <1>1. z \in Seq(Bit) /\ Len(z) = n
    <2>1. z = [i \in 1 .. n |-> 0]
      BY DEF Zeros
    <2> HIDE DEF z
    <2>2. z \in [1 .. n -> Bit]
      BY <2>1 DEF Bit
    <2> QED BY <2>2
  <1>2. one \in Seq(Bit) /\ Len(one) = 1 /\ one[1] = 1
    BY DEF Bit
  <1> HIDE DEF z, one
  <1>3. one \o z \in Seq(Bit) /\ Len(one \o z) = Len(one) + Len(z) /\ Begins(one, one \o z)
    BY <1>1, <1>2, Lengthens
  <1>4. Len(one \o z) = n + 1 /\ (one \o z)[1] = 1
    BY <1>1, <1>2, <1>3 DEF Begins
  <1> QED BY <1>1, <1>3, <1>4 DEF z, one
----------------------------------------------------------------------------
(* What the encoder does. *)

(* The types, where the messages of the model are those of its parameter    *)
(* set.                                                                     *)
LEMMA CodecTypes ==
  ASSUME TypeOK
  PROVE  /\ parameter \in Parameter /\ UTMessages = MessagesOf(parameter)
         /\ underway \in Seq(MessagesOf(parameter)) /\ m_message_queue \in Seq(MessagesOf(parameter))
         /\ m_buffer_encoder \in Seq(Bit) /\ Len(m_buffer_encoder) < parameter.phyword
         /\ words \in Seq(Word(parameter)) /\ m_buffer \in Seq(Bit)
         /\ Len(m_buffer) \in Nat /\ Len(m_buffer_encoder) \in Nat
  <1>1. UTMessages = MessagesOf(parameter)
    BY DEF UTMessages, MessagesOf
  <1> HIDE DEF UTMessages, MessagesOf
  <1> QED BY <1>1, LenProperties DEF TypeOK, Word

(* A step of the encoder leaves the decoder where it is.                    *)
LEMMA DecoderRests ==
  ASSUME CodecIInv, UNCHANGED <<parameter, m_buffer, m_state, label, current, m_message_queue>>,
         NEW q \in Seq(MessagesOf(parameter)), InControl(q), NEW r, q # <<>> => r # <<>> /\ Head(r) = Head(q)
  PROVE  InControl(r)' /\ InvGranules'
  <1>1. /\ parameter' = parameter /\ m_buffer' = m_buffer /\ m_state' = m_state /\ label' = label
        /\ m_current_header' = m_current_header /\ m_current_message_size' = m_current_message_size
    BY DEF current
  <1>2. IsCurrent(q) => r # <<>> /\ Head(r) = Head(q)
    BY DEF IsCurrent
  <1>3. InControl(r)'
    BY <1>1, <1>2 DEF InControl, IsCurrent, BeginsMessage, Within
  <1>4. InvGranules'
    BY <1>1 DEF CodecIInv, InvGranules
  <1> QED BY <1>3, <1>4

(* A step of the encoder keeps the types if it keeps those of what it       *)
(* changes.                                                                 *)
LEMMA EncoderTypes ==
  ASSUME TypeOK, UNCHANGED <<parameter, m_buffer, m_state, label, current, m_message_queue>>,
         underway' \in Seq(MessagesOf(parameter)), words' \in Seq(Word(parameter)),
         m_buffer_encoder' \in Seq(Bit), Len(m_buffer_encoder') < parameter.phyword
  PROVE  TypeOK'
  <1>1. /\ parameter' = parameter /\ m_buffer' = m_buffer /\ m_state' = m_state /\ label' = label
        /\ m_current_header' = m_current_header /\ m_current_message_size' = m_current_message_size
        /\ m_message_queue' = m_message_queue
    BY DEF current
  <1>2. UTMessages' = UTMessages /\ UTMessages = MessagesOf(parameter)
    BY <1>1 DEF UTMessages, MessagesOf
  <1> HIDE DEF UTMessages
  <1> QED BY <1>1, <1>2 DEF TypeOK, Word

LEMMA Commutes ==
  ASSUME NEW n \in Nat, NEW m \in Nat
  PROVE  n * m = m * n
  OBVIOUS

(* operator() of the encoder: the message is put underway behind the        *)
(* others; shifting words out changes nothing that is underway.             *)
LEMMA EncodeMessageStep ==
  ASSUME CodecIInv, NEW m \in UTMessages, EncodeMessage(m)
  PROVE  CodecIInv'
  <1> DEFINE p == parameter
             raw == Raw(p, m)
             filled == m_buffer_encoder \o raw
             n == Len(filled) \div p.phyword
             us == WordsOf(filled, n)
             rest == SubSeq(filled, n * p.phyword + 1, Len(filled))
  <1>1. PICK q \in Seq(MessagesOf(p)) : IsUnderway(q) /\ InControl(q)
    BY DEF CodecIInv, InvUnderway
  <1>2. PICK s \in Seq(Bit) : OnTheWay(q, s, m_buffer, words, m_buffer_encoder, p)
    BY <1>1 DEF IsUnderway
  <1>3. /\ p \in Parameter /\ m \in MessagesOf(p)
        /\ underway \in Seq(MessagesOf(p)) /\ m_message_queue \in Seq(MessagesOf(p))
        /\ m_buffer_encoder \in Seq(Bit) /\ words \in Seq(Word(p)) /\ m_buffer \in Seq(Bit)
    BY CodecTypes DEF CodecIInv
  <1>4. /\ underway' = Append(underway, m) /\ words' = words \o us /\ m_buffer_encoder' = rest
        /\ UNCHANGED <<parameter, m_buffer, m_state, label, current, m_message_queue>>
    BY DEF EncodeMessage
  <1>5. raw \in Seq(Bit) /\ filled \in Seq(Bit) /\ Len(filled) \in Nat /\ p.phyword \in Nat /\ p.phyword > 0
    <2>1. raw \in Seq(Bit)
      BY <1>3, RawBits
    <2>2. filled \in Seq(Bit)
      BY <1>3, <2>1, ConcatProperties
    <2> QED BY <1>3, <2>1, <2>2, LenProperties, Sizes
  <1> DEFINE x == n * p.phyword
             b == Len(filled)
  <1>6. n \in Nat /\ x = p.phyword * n /\ x \in 0 .. b /\ b - x < p.phyword
    <2> DEFINE P == p.phyword
               r == b % P
               c == P * n
    <2>1. n \in Nat /\ r \in 0 .. P - 1 /\ b = c + r
      BY <1>5, Division
    <2>2. c \in Nat /\ x = c
      <3> HIDE DEF n, P
      <3> QED BY <1>5, <2>1, TimesNext, Commutes DEF P
    <2>3. P \in Nat /\ P > 0 /\ b \in Nat
      BY <1>5
    <2> HIDE DEF r, c, P, b, x, n
    <2>4. c \in 0 .. b /\ b - c < P
      BY <2>1, <2>2, <2>3
    <2> QED BY <2>1, <2>2, <2>4 DEF c, P
  <1> HIDE DEF p, filled, n
  <1>7. us \in Seq(Word(p)) /\ AreWords(us, n, filled, p) /\ p.phyword * n <= Len(filled)
    <2>1. p.phyword * n <= Len(filled)
      BY <1>6
    <2> QED BY <1>3, <1>5, <1>6, <2>1, BitsInWords DEF p
  <1>8. rest \in Seq(Bit) /\ IsRest(rest, filled, p.phyword * n)
    BY <1>5, <1>6, Behind
  <1>9. Len(rest) < p.phyword
    <2>1. Len(rest) = b - x
      BY <1>6, <1>8 DEF IsRest
    <2> QED BY <1>6, <2>1
  <1> HIDE DEF us, rest, x, b
  <1>10. OnTheWay(Append(q, m), s \o raw, m_buffer, words \o us, rest, p)
    BY <1>2, <1>3, <1>6, <1>7, <1>8, MessageJoins DEF filled
  <1>11. /\ Append(q, m) \in Seq(MessagesOf(p)) /\ s \o raw \in Seq(Bit)
         /\ underway' \in Seq(MessagesOf(p)) /\ words' \in Seq(Word(p))
         /\ q # <<>> => Append(q, m) # <<>> /\ Head(Append(q, m)) = Head(q)
    <2>1. Append(q, m) \in Seq(MessagesOf(p)) /\ underway' \in Seq(MessagesOf(p))
      BY <1>3, <1>4, AppendProperties
    <2>2. s \o raw \in Seq(Bit)
      BY <1>5, ConcatProperties
    <2>3. words' \in Seq(Word(p))
      BY <1>3, <1>4, <1>7, ConcatProperties
    <2>4. q # <<>> => Append(q, m) # <<>> /\ Head(Append(q, m)) = Head(q)
      <3>1. Append(q, m) # <<>>
        BY <1>3, AppendProperties
      <3>2. Head(Append(q, m)) = IF q = <<>> THEN m ELSE Head(q)
        BY HeadTailAppend
      <3> QED BY <3>1, <3>2
    <2> QED BY <2>1, <2>2, <2>3, <2>4
  <1>12. underway' = m_message_queue' \o Append(q, m)
    <2>1. underway = m_message_queue \o q
      BY <1>1 DEF IsUnderway
    <2>2. Append(m_message_queue \o q, m) = m_message_queue \o Append(q, m)
      <3> DEFINE d == m_message_queue
                 one == <<m>>
      <3>1. d \in Seq(MessagesOf(p)) /\ q \in Seq(MessagesOf(p)) /\ one \in Seq(MessagesOf(p))
        BY <1>3
      <3>2. d \o q \in Seq(MessagesOf(p))
        BY <3>1, ConcatProperties
      <3>3. Append(d \o q, m) = (d \o q) \o one /\ Append(q, m) = q \o one
        BY <1>3, <3>1, <3>2, AppendIsConcat
      <3> HIDE DEF d, one
      <3>4. (d \o q) \o one = d \o (q \o one)
        BY <3>1, ConcatAssociative
      <3> QED BY <3>3, <3>4 DEF d
    <2> QED BY <1>4, <2>1, <2>2
  <1>13. IsUnderway(Append(q, m))'
    BY <1>4, <1>10, <1>11, <1>12 DEF IsUnderway, p
  <1>14. InControl(Append(q, m))' /\ InvGranules'
    BY <1>1, <1>4, <1>11, DecoderRests DEF p
  <1>15. TypeOK'
    BY <1>4, <1>8, <1>9, <1>11, EncoderTypes DEF CodecIInv, p
  <1>16. InvUnderway'
    BY <1>4, <1>11, <1>13, <1>14 DEF InvUnderway, p
  <1> QED BY <1>14, <1>15, <1>16 DEF CodecIInv

(* A word is filled up, which may be one that nothing is in yet.            *)
LEMMA FilledStep ==
  ASSUME CodecIInv, NEW pad \in Seq(Bit), pad[1] = 1,
         Len(m_buffer_encoder) + Len(pad) = parameter.phyword,
         words' = Append(words, m_buffer_encoder \o pad), m_buffer_encoder' = <<>>,
         UNCHANGED <<parameter, underway, m_buffer, m_state, label, current, m_message_queue>>
  PROVE  CodecIInv'
  <1> DEFINE p == parameter
             w == m_buffer_encoder \o pad
  <1>1. PICK q \in Seq(MessagesOf(p)) : IsUnderway(q) /\ InControl(q)
    BY DEF CodecIInv, InvUnderway
  <1>2. PICK s \in Seq(Bit) : OnTheWay(q, s, m_buffer, words, m_buffer_encoder, p)
    BY <1>1 DEF IsUnderway
  <1>3. /\ p \in Parameter
        /\ underway \in Seq(MessagesOf(p)) /\ m_message_queue \in Seq(MessagesOf(p))
        /\ m_buffer_encoder \in Seq(Bit) /\ words \in Seq(Word(p)) /\ m_buffer \in Seq(Bit)
        /\ Len(m_buffer_encoder) < p.phyword
    BY CodecTypes DEF CodecIInv
  <1> HIDE DEF w
  <1>4. w \in Word(p) /\ OnTheWay(q, s \o pad, m_buffer, Append(words, w), <<>>, p)
    BY <1>2, <1>3, PaddingJoins DEF w
  <1>5. words' = Append(words, w) /\ words' \in Seq(Word(p)) /\ s \o pad \in Seq(Bit)
    BY <1>3, <1>4, AppendProperties, ConcatProperties DEF w
  <1>6. underway' = m_message_queue' \o q
    BY <1>1 DEF IsUnderway
  <1>7. IsUnderway(q)'
    BY <1>4, <1>5, <1>6 DEF IsUnderway
  <1>8. UNCHANGED <<parameter, m_buffer, m_state, label, current, m_message_queue>>
    OBVIOUS
  <1>9. InControl(q)' /\ InvGranules'
    BY <1>1, <1>8, DecoderRests
  <1>10. TypeOK'
    <2>1. <<>> \in Seq(Bit) /\ Len(<<>>) = 0 /\ p.phyword > 0
      BY <1>3, Sizes
    <2> QED BY <1>3, <1>5, <1>8, <2>1, EncoderTypes DEF CodecIInv
  <1>11. InvUnderway'
    BY <1>7, <1>9 DEF InvUnderway
  <1> QED BY <1>9, <1>10, <1>11 DEF CodecIInv

(* A flush puts a comma and zeros underway, up to the end of a word.        *)
LEMMA FlushStep ==
  ASSUME CodecIInv, Flush
  PROVE  CodecIInv'
  <1> DEFINE n == parameter.phyword - Len(m_buffer_encoder) - 1
             pad == <<1>> \o Zeros(n)
             one == <<1>>
             z == Zeros(n)
  <1>1. /\ words' = Append(words, (m_buffer_encoder \o one) \o z)
        /\ m_buffer_encoder' = <<>>
        /\ UNCHANGED <<parameter, underway, m_buffer, m_state, label, current, m_message_queue>>
    BY DEF Flush
  <1>2. parameter.phyword \in Nat /\ Len(m_buffer_encoder) \in Nat /\ Len(m_buffer_encoder) < parameter.phyword
        /\ m_buffer_encoder \in Seq(Bit)
    BY CodecTypes, Sizes DEF CodecIInv
  <1>3. n \in Nat /\ Len(m_buffer_encoder) + (n + 1) = parameter.phyword
    BY <1>2
  <1> HIDE DEF n
  <1>4. pad \in Seq(Bit) /\ Len(pad) = n + 1 /\ pad[1] = 1 /\ z \in Seq(Bit) /\ one \in Seq(Bit)
    <2>1. one \in Seq(Bit)
      BY DEF Bit
    <2> QED BY <1>3, <2>1, PadBits
  <1> HIDE DEF one, z
  <1>5. (m_buffer_encoder \o one) \o z = m_buffer_encoder \o (one \o z)
    <2>1. m_buffer_encoder \in Seq(Bit) /\ one \in Seq(Bit) /\ z \in Seq(Bit)
      BY <1>2, <1>4
    <2> HIDE DEF pad
    <2> QED BY <2>1, ConcatAssociative
  <1>6. words' = Append(words, m_buffer_encoder \o pad)
    BY <1>1, <1>5 DEF one, z
  <1> HIDE DEF pad
  <1> QED BY <1>1, <1>3, <1>4, <1>6, FilledStep

(* So does an idle word.                                                    *)
LEMMA IdleStep ==
  ASSUME CodecIInv, Idle
  PROVE  CodecIInv'
  <1> DEFINE n == parameter.phyword - 1
             pad == <<1>> \o Zeros(n)
  <1>1. /\ m_buffer_encoder = <<>> /\ words = <<>> /\ words' = <<pad>>
        /\ UNCHANGED <<parameter, encoder, m_buffer, m_state, label, current, m_message_queue>>
    BY DEF Idle
  <1>2. parameter.phyword \in Nat /\ parameter.phyword > 0
    BY CodecTypes, Sizes DEF CodecIInv
  <1>3. n \in Nat /\ 0 + (n + 1) = parameter.phyword
    BY <1>2
  <1> HIDE DEF n
  <1>4. pad \in Seq(Bit) /\ Len(pad) = n + 1 /\ pad[1] = 1
    BY <1>3, PadBits
  <1> HIDE DEF pad
  <1>5. words' = Append(words, m_buffer_encoder \o pad)
    <2>1. m_buffer_encoder \o pad = pad
      BY <1>1, <1>4, ConcatEmptySeq
    <2>2. Append(<<>>, pad) = <<pad>>
      OBVIOUS
    <2> QED BY <1>1, <2>1, <2>2
  <1>6. Len(m_buffer_encoder) + Len(pad) = parameter.phyword
    <2>1. Len(<<>>) = 0
      OBVIOUS
    <2> QED BY <1>1, <1>3, <1>4, <2>1
  <1>7. m_buffer_encoder' = <<>> /\ underway' = underway
    BY <1>1 DEF encoder
  <1>8. UNCHANGED <<parameter, underway, m_buffer, m_state, label, current, m_message_queue>>
    BY <1>1, <1>7
  <1> QED BY <1>4, <1>5, <1>6, <1>7, <1>8, FilledStep

(* What is taken is no longer underway.                                     *)
LEMMA TakeStep ==
  ASSUME CodecIInv, Take
  PROVE  CodecIInv'
  <1> DEFINE p == parameter
             n == Len(m_message_queue)
  <1>1. PICK q \in Seq(MessagesOf(p)) : IsUnderway(q) /\ InControl(q)
    BY DEF CodecIInv, InvUnderway
  <1>2. /\ underway' = SubSeq(underway, n + 1, Len(underway)) /\ m_message_queue' = <<>>
        /\ UNCHANGED <<parameter, m_buffer_encoder, words, m_buffer, m_state, label, current>>
    BY DEF Take
  <1>3. /\ underway \in Seq(MessagesOf(p)) /\ m_message_queue \in Seq(MessagesOf(p))
        /\ UTMessages = MessagesOf(p)
    BY CodecTypes DEF CodecIInv
  <1>4. underway = m_message_queue \o q
    BY <1>1 DEF IsUnderway
  <1>5. underway' = q
    <2>1. Len(underway) = n + Len(q) /\ \A i \in 1 .. Len(q) : underway[n + i] = q[i]
      BY <1>3, <1>4, Lengthens
    <2>2. n \in Nat /\ Len(q) \in Nat
      BY <1>3, LenProperties
    <2>3. n \in 0 .. Len(underway)
      BY <2>1, <2>2
    <2> DEFINE t == SubSeq(underway, n + 1, Len(underway))
    <2>4. t \in Seq(MessagesOf(p)) /\ IsRest(t, underway, n)
      BY <1>3, <2>3, Behind
    <2> HIDE DEF t, n
    <2>5. Len(t) = Len(q) /\ \A i \in 1 .. Len(t) : t[i] = underway[n + i]
      BY <2>1, <2>2, <2>4 DEF IsRest
    <2>6. \A i \in 1 .. Len(t) : t[i] = q[i]
      BY <2>1, <2>5
    <2>7. t = q
      BY <2>4, <2>5, <2>6, SeqEqual
    <2> QED BY <1>2, <2>7 DEF t, n
  <1>6. <<>> \o q = q /\ <<>> \in Seq(MessagesOf(p))
    BY ConcatEmptySeq
  <1>7. IsUnderway(q)'
    <2>1. underway' = m_message_queue' \o q
      BY <1>2, <1>5, <1>6
    <2>2. \E s \in Seq(Bit) : OnTheWay(q, s, m_buffer', words', m_buffer_encoder', parameter')
      BY <1>1, <1>2 DEF IsUnderway
    <2> QED BY <2>1, <2>2 DEF IsUnderway
  <1>8. /\ parameter' = parameter /\ m_buffer' = m_buffer /\ m_state' = m_state /\ label' = label
        /\ m_current_header' = m_current_header /\ m_current_message_size' = m_current_message_size
        /\ words' = words /\ m_buffer_encoder' = m_buffer_encoder
    BY <1>2 DEF current
  <1>9. InControl(q)' /\ InvGranules'
    BY <1>1, <1>8 DEF CodecIInv, InControl, IsCurrent, BeginsMessage, Within, InvGranules
  <1>10. TypeOK'
    <2>1. UTMessages' = UTMessages
      BY <1>8 DEF UTMessages
    <2> HIDE DEF UTMessages
    <2> QED BY <1>2, <1>3, <1>5, <1>6, <1>8, <2>1 DEF CodecIInv, TypeOK
  <1>11. InvUnderway'
    BY <1>7, <1>8, <1>9 DEF InvUnderway
  <1> QED BY <1>9, <1>10, <1>11 DEF CodecIInv
----------------------------------------------------------------------------
(* What the decoder does. *)

(* A dropped word was padding, and all of it.                               *)
LEMMA DropWordStep ==
  ASSUME CodecIInv, DropWord
  PROVE  CodecIInv'
  <1> DEFINE p == parameter
             w == Head(words)
  <1>1. PICK q \in Seq(MessagesOf(p)) : IsUnderway(q) /\ InControl(q)
    BY DEF CodecIInv, InvUnderway
  <1>2. PICK s \in Seq(Bit) : OnTheWay(q, s, m_buffer, words, m_buffer_encoder, p)
    BY <1>1 DEF IsUnderway
  <1>3. /\ p \in Parameter /\ m_message_queue \in Seq(MessagesOf(p))
        /\ m_buffer_encoder \in Seq(Bit) /\ words \in Seq(Word(p)) /\ m_buffer \in Seq(Bit)
    BY CodecTypes DEF CodecIInv
  <1>4. /\ label = "word" /\ words # <<>> /\ m_state = "dropping_leading_comma" /\ Head(w) = 1
        /\ words' = Tail(words)
        /\ UNCHANGED <<parameter, encoder, m_buffer, m_state, label, current, m_message_queue>>
    BY DEF DropWord
  <1>5. /\ parameter' = parameter /\ m_buffer' = m_buffer /\ m_state' = m_state /\ label' = label
        /\ m_current_header' = m_current_header /\ m_current_message_size' = m_current_message_size
        /\ underway' = underway /\ m_buffer_encoder' = m_buffer_encoder
        /\ m_message_queue' = m_message_queue
    BY <1>4 DEF current, encoder
  <1>6. m_buffer = <<>>
    BY <1>1, <1>4 DEF InControl
  <1>7. OnTheWay(q, s, m_buffer \o w, Tail(words), m_buffer_encoder, p)
    BY <1>2, <1>3, <1>4, WordShifts
  <1>8. w \in Seq(Bit) /\ Len(w) = p.phyword /\ Head(w) = w[1] /\ Tail(words) \in Seq(Word(p))
    <2>1. Stream(s, m_buffer, words, m_buffer_encoder, p)
      BY <1>2 DEF OnTheWay
    <2> QED BY <1>3, <1>4, <2>1, WordMoves
  <1> HIDE DEF w
  <1>9. OnTheWay(q, s, w, Tail(words), m_buffer_encoder, p)
    <2>1. <<>> \o w = w
      BY <1>8, ConcatEmptySeq
    <2> QED BY <1>6, <1>7, <2>1
  <1> DEFINE t == SubSeq(s, Len(w) + 1, Len(s))
  <1>10. OnTheWay(q, t, <<>>, Tail(words), m_buffer_encoder, p)
    <2>1. w # <<>> /\ w[1] = 1 /\ Len(w) <= p.phyword
      <3>1. p.phyword \in Nat /\ p.phyword > 0
        BY <1>3, Sizes
      <3>2. Len(w) > 0 /\ Len(w) <= p.phyword
        BY <1>8, <3>1
      <3>3. w # <<>>
        BY <3>2
      <3> QED BY <1>4, <1>8, <3>2, <3>3
    <2> QED BY <1>3, <1>8, <1>9, <2>1, CommaBegins
  <1>11. t \in Seq(Bit)
    BY <1>10 DEF OnTheWay
  <1> HIDE DEF t
  <1>12. IsUnderway(q)'
    <2>1. underway' = m_message_queue' \o q
      BY <1>1, <1>5 DEF IsUnderway
    <2> QED BY <1>4, <1>5, <1>6, <1>10, <1>11, <2>1 DEF IsUnderway
  <1>13. InControl(q)' /\ InvGranules'
    BY <1>1, <1>5 DEF CodecIInv, InControl, IsCurrent, BeginsMessage, Within, InvGranules
  <1>14. TypeOK'
    <2>1. UTMessages' = UTMessages
      BY <1>5 DEF UTMessages
    <2> HIDE DEF UTMessages
    <2> QED BY <1>4, <1>5, <1>8, <2>1 DEF CodecIInv, TypeOK, Word
  <1>15. InvUnderway'
    BY <1>5, <1>12, <1>13 DEF InvUnderway
  <1> QED BY <1>13, <1>14, <1>15 DEF CodecIInv

(* Shifting a word in changes nothing that is underway, and how much the    *)
(* buffer holds says where the decoder goes on.                             *)
LEMMA ShiftInWordStep ==
  ASSUME CodecIInv, ShiftInWord
  PROVE  CodecIInv'
  <1> DEFINE p == parameter
             P == p.phyword
             HW == HeaderWidth(p)
             w == Head(words)
             f == Len(m_buffer)
             size == m_current_message_size
  <1>1. PICK q \in Seq(MessagesOf(p)) : IsUnderway(q) /\ InControl(q)
    BY DEF CodecIInv, InvUnderway
  <1>2. PICK s \in Seq(Bit) : OnTheWay(q, s, m_buffer, words, m_buffer_encoder, p)
    BY <1>1 DEF IsUnderway
  <1>3. /\ p \in Parameter /\ m_message_queue \in Seq(MessagesOf(p))
        /\ m_buffer_encoder \in Seq(Bit) /\ words \in Seq(Word(p)) /\ m_buffer \in Seq(Bit)
        /\ f \in Nat
    BY CodecTypes DEF CodecIInv
  <1>4. /\ label = "word" /\ words # <<>> /\ words' = Tail(words) /\ m_buffer' = m_buffer \o w
        /\ UNCHANGED <<parameter, encoder, current, m_message_queue>>
        /\ \/ /\ m_state = "dropping_leading_comma" /\ Head(w) = 0
              /\ \/ HW > P /\ Len(m_buffer') < HW /\ m_state' = "filling_until_header_size" /\ label' = "word"
                 \/ /\ ~(HW > P /\ Len(m_buffer') < HW)
                    /\ label' = "decoding_header" /\ m_state' = m_state
           \/ /\ m_state = "filling_until_header_size" /\ m_state' = m_state
              /\ \/ Len(m_buffer') < HW /\ label' = "word"
                 \/ ~(Len(m_buffer') < HW) /\ label' = "decoding_header"
           \/ /\ m_state = "filling_until_message_size" /\ m_state' = m_state
              /\ \/ Len(m_buffer') < size /\ label' = "word"
                 \/ ~(Len(m_buffer') < size) /\ label' = "decoding_message"
    BY DEF ShiftInWord
  <1>5. /\ parameter' = parameter
        /\ m_current_header' = m_current_header /\ m_current_message_size' = m_current_message_size
        /\ underway' = underway /\ m_buffer_encoder' = m_buffer_encoder
        /\ m_message_queue' = m_message_queue
    BY <1>4 DEF current, encoder
  <1>6. OnTheWay(q, s, m_buffer', words', m_buffer_encoder', p')
    BY <1>2, <1>3, <1>4, <1>5, WordShifts
  <1>7. /\ w \in Seq(Bit) /\ Len(w) = P /\ Head(w) = w[1] /\ words' \in Seq(Word(p))
        /\ m_buffer' \in Seq(Bit) /\ Len(m_buffer') = f + P /\ Begins(m_buffer, m_buffer')
    <2>1. Stream(s, m_buffer, words, m_buffer_encoder, p)
      BY <1>2 DEF OnTheWay
    <2> QED BY <1>3, <1>4, <2>1, WordMoves
  <1>8. /\ P \in Nat /\ P > 0 /\ HW \in Nat /\ HW > 0 /\ Granule(p) \in Nat /\ Granule(p) > 0
        /\ Multiple(P, Granule(p)) /\ LargestSize(p) \in Nat /\ HW <= LargestSize(p)
        /\ BufferSize(p) \in Nat /\ LargestSize(p) + P <= BufferSize(p)
    BY <1>3, Sizes
  <1>9. size \in Nat /\ size <= LargestSize(p)
    BY <1>8 DEF CodecIInv, TypeOK
  <1>10. BeginsMessage => BeginsMessage'
    <2> SUFFICES ASSUME BeginsMessage PROVE BeginsMessage'
      OBVIOUS
    <2>1. m_buffer # <<>> /\ m_buffer[1] = 0
      BY DEF BeginsMessage
    <2>2. f > 0
      BY <1>3, <2>1, EmptySeq
    <2> HIDE DEF f
    <2>3. 1 \in 1 .. f /\ f + P > 0
      BY <1>3, <1>8, <2>2
    <2>4. m_buffer'[1] = 0
      BY <1>7, <2>1, <2>3 DEF Begins, f
    <2>5. m_buffer' # <<>>
      BY <1>7, <2>3
    <2> QED BY <2>4, <2>5 DEF BeginsMessage
  <1>11. ASSUME m_buffer = <<>>, Head(w) = 0 PROVE BeginsMessage' /\ f = 0
    <2>1. m_buffer' = w
      BY <1>4, <1>7, <1>11, ConcatEmptySeq
    <2>2. w # <<>>
      BY <1>7, <1>8
    <2> QED BY <1>7, <1>11, <2>1, <2>2 DEF BeginsMessage
  <1>12. \/ m_state = "dropping_leading_comma" /\ m_buffer = <<>> /\ Head(w) = 0
         \/ m_state = "filling_until_header_size" /\ BeginsMessage /\ f < HW
         \/ m_state = "filling_until_message_size" /\ IsCurrent(q) /\ HW <= f /\ f < size
    BY <1>1, <1>4 DEF InControl
  <1> DEFINE level == Len(m_buffer')
  <1>13. level = f + P
    BY <1>7
  <1> HIDE DEF p, P, HW, w, f, size, level
  <1>14. f < HW \/ f < size
    BY <1>8, <1>11, <1>12
  <1>15. level <= BufferSize(p)
    BY <1>3, <1>8, <1>9, <1>13, <1>14
  <1>16. InControl(q)'
    <2>1. CASE m_state = "dropping_leading_comma" /\ m_buffer = <<>> /\ Head(w) = 0
      <3>1. BeginsMessage' /\ level = P
        BY <1>8, <1>11, <1>13, <2>1
      <3>2. CASE m_state' = "filling_until_header_size" /\ label' = "word" /\ level < HW
        BY <1>5, <3>1, <3>2 DEF InControl, p, HW, level
      <3>3. CASE label' = "decoding_header" /\ ~(HW > P /\ level < HW)
        <4>1. HW <= level /\ level < HW + P
          BY <1>8, <3>1, <3>3
        <4> QED BY <1>5, <3>1, <3>3, <4>1 DEF InControl, Within, p, P, HW, level
      <3> QED BY <1>4, <2>1, <3>2, <3>3 DEF level
    <2>2. CASE m_state = "filling_until_header_size" /\ BeginsMessage /\ f < HW
      <3>1. CASE label' = "word" /\ level < HW
        BY <1>4, <1>5, <1>10, <2>2, <3>1 DEF InControl, p, HW, level
      <3>2. CASE label' = "decoding_header" /\ ~(level < HW)
        <4>1. HW <= level /\ level < HW + P
          BY <1>3, <1>8, <1>13, <2>2, <3>2
        <4> QED BY <1>5, <1>10, <2>2, <3>2, <4>1 DEF InControl, Within, p, P, HW, level
      <3> QED BY <1>4, <2>2, <3>1, <3>2 DEF level
    <2>3. CASE m_state = "filling_until_message_size" /\ IsCurrent(q) /\ HW <= f /\ f < size
      <3>1. IsCurrent(q)'
        BY <1>5, <1>10, <2>3 DEF IsCurrent, p, size
      <3>2. CASE label' = "word" /\ level < size
        <4>1. HW <= level
          BY <1>3, <1>8, <1>13, <2>3
        <4> QED BY <1>4, <1>5, <2>3, <3>1, <3>2, <4>1 DEF InControl, p, HW, size, level
      <3>3. CASE label' = "decoding_message" /\ ~(level < size)
        <4>1. size <= level /\ level < size + P
          BY <1>3, <1>8, <1>9, <1>13, <2>3, <3>3
        <4> QED BY <1>5, <3>1, <3>3, <4>1 DEF InControl, Within, p, P, size, level
      <3> QED BY <1>4, <2>3, <3>2, <3>3 DEF level
    <2> QED BY <1>12, <2>1, <2>2, <2>3
  <1>17. InvGranules'
    <2>1. Multiple(f, Granule(p))
      BY DEF CodecIInv, InvGranules, f, p
    <2>2. Multiple(f + P, Granule(p))
      BY <1>3, <1>8, <2>1, Multiples
    <2> QED BY <1>5, <1>13, <2>2 DEF InvGranules, level, p
  <1>18. IsUnderway(q)'
    <2>1. underway' = m_message_queue' \o q
      BY <1>1, <1>5 DEF IsUnderway
    <2> QED BY <1>6, <2>1 DEF IsUnderway, p
  <1>19. TypeOK'
    <2>1. UTMessages' = UTMessages
      BY <1>5 DEF UTMessages
    <2>2. m_state' \in {"dropping_leading_comma", "filling_until_header_size",
                        "filling_until_message_size"}
          /\ label' \in {"word", "decoding_header", "decoding_message"}
      BY <1>4
    <2> HIDE DEF UTMessages
    <2> QED BY <1>5, <1>7, <1>15, <2>1, <2>2 DEF CodecIInv, TypeOK, Word, p, level
  <1>20. InvUnderway'
    BY <1>5, <1>16, <1>18 DEF InvUnderway, p
  <1> QED BY <1>17, <1>19, <1>20 DEF CodecIInv

(* The header in the buffer is that of the next message.                    *)
LEMMA HeaderIsNext ==
  ASSUME TypeOK, NEW q \in Seq(MessagesOf(parameter)), IsUnderway(q), BeginsMessage,
         HeaderWidth(parameter) <= Len(m_buffer)
  PROVE  q # <<>> /\ Head(q) \in MessagesOf(parameter) /\ HeaderInBuffer = Head(q).header
  <1> DEFINE p == parameter
             HW == HeaderWidth(p)
  <1>1. PICK s \in Seq(Bit) : OnTheWay(q, s, m_buffer, words, m_buffer_encoder, p)
    BY DEF IsUnderway
  <1>2. /\ p \in Parameter /\ m_buffer_encoder \in Seq(Bit) /\ words \in Seq(Word(p))
        /\ m_buffer \in Seq(Bit) /\ Len(m_buffer) \in Nat
    BY CodecTypes
  <1>3. /\ q # <<>> /\ Head(q) \in MessagesOf(p)
        /\ Len(m_buffer) >= HW => ValueOf(SubSeq(m_buffer, 1, HW)) = Head(q).header
    BY <1>1, <1>2, MessageBegins DEF BeginsMessage
  <1>4. Len(m_buffer) >= HW
    <2>1. HW \in Nat
      BY <1>2, Sizes
    <2> HIDE DEF HW
    <2> QED BY <1>2, <2>1 DEF HW
  <1> QED BY <1>3, <1>4 DEF HeaderInBuffer

(* The header that is decoded is that of the next message.                  *)
LEMMA DecodeHeaderStep ==
  ASSUME CodecIInv, DecodeHeader
  PROVE  CodecIInv'
  <1> DEFINE p == parameter
             P == p.phyword
             HW == HeaderWidth(p)
             f == Len(m_buffer)
  <1>1. PICK q \in Seq(MessagesOf(p)) : IsUnderway(q) /\ InControl(q)
    BY DEF CodecIInv, InvUnderway
  <1>2. p \in Parameter /\ f \in Nat
    BY CodecTypes DEF CodecIInv
  <1>3. /\ label = "decoding_header"
        /\ m_current_header' = HeaderInBuffer
        /\ m_current_message_size' = WordWidth(p, HeaderInBuffer)
        /\ \/ f < m_current_message_size' /\ label' = "word" /\ m_state' = "filling_until_message_size"
           \/ ~(f < m_current_message_size') /\ label' = "decoding_message" /\ m_state' = m_state
        /\ UNCHANGED <<parameter, encoder, words, m_buffer, m_message_queue>>
    BY DEF DecodeHeader
  <1>4. /\ parameter' = parameter /\ m_buffer' = m_buffer /\ words' = words
        /\ underway' = underway /\ m_buffer_encoder' = m_buffer_encoder
        /\ m_message_queue' = m_message_queue
    BY <1>3 DEF encoder
  <1>5. BeginsMessage /\ HW <= f /\ f < HW + P
    BY <1>1, <1>3 DEF InControl, Within
  <1>6. q # <<>> /\ Head(q) \in MessagesOf(p) /\ HeaderInBuffer = Head(q).header
    BY <1>1, <1>5, HeaderIsNext DEF CodecIInv
  <1> DEFINE h == Head(q).header
             W == WordWidth(p, h)
  <1>7. /\ h \in 0 .. Len(p.dictionary) - 1 /\ W \in Nat /\ W <= LargestSize(p) /\ HW <= W
        /\ P \in Nat /\ P > 0 /\ HW \in Nat /\ LargestSize(p) \in Nat
    BY <1>2, <1>6, Sizes
  <1>8. m_current_header' = h /\ m_current_message_size' = W
    BY <1>3, <1>6
  <1>9. IsCurrent(q)'
    BY <1>4, <1>5, <1>6, <1>8 DEF IsCurrent, BeginsMessage
  <1> HIDE DEF P, HW, f, h, W
  <1>10. InControl(q)'
    <2>1. CASE f < W /\ label' = "word" /\ m_state' = "filling_until_message_size"
      BY <1>4, <1>5, <1>8, <1>9, <2>1 DEF InControl, f, HW
    <2>2. CASE ~(f < W) /\ label' = "decoding_message"
      <3>1. W <= f /\ f < W + P
        BY <1>2, <1>5, <1>7, <2>2
      <3> QED BY <1>4, <1>8, <1>9, <2>2, <3>1 DEF InControl, Within, f, P
    <2> QED BY <1>3, <1>8, <2>1, <2>2
  <1>11. IsUnderway(q)' /\ InvGranules'
    <2>1. IsUnderway(q)'
      BY <1>1, <1>4 DEF IsUnderway
    <2>2. InvGranules'
      BY <1>4 DEF CodecIInv, InvGranules
    <2> QED BY <2>1, <2>2
  <1>12. TypeOK'
    <2>1. UTMessages' = UTMessages
      BY <1>4 DEF UTMessages
    <2>2. m_current_message_size' \in 0 .. LargestSize(p)
      BY <1>7, <1>8
    <2>3. m_current_header' \in 0 .. Len(p.dictionary) - 1
      BY <1>7, <1>8
    <2>4. m_state' \in {"dropping_leading_comma", "filling_until_header_size",
                        "filling_until_message_size"}
          /\ label' \in {"word", "decoding_header", "decoding_message"}
      BY <1>3 DEF CodecIInv, TypeOK
    <2> HIDE DEF UTMessages
    <2> QED BY <1>4, <2>1, <2>2, <2>3, <2>4 DEF CodecIInv, TypeOK
  <1>13. InvUnderway'
    BY <1>4, <1>10, <1>11 DEF InvUnderway
  <1> QED BY <1>11, <1>12, <1>13 DEF CodecIInv

(* The message that is decoded is the next one. What is left is nothing, a  *)
(* header or more, or the padding of this word, all of which is dropped.    *)
LEMMA DecodeMessageStep ==
  ASSUME CodecIInv, DecodeMessage
  PROVE  CodecIInv'
  <1> DEFINE p == parameter
             P == p.phyword
             HW == HeaderWidth(p)
             g == Granule(p)
             size == m_current_message_size
             rest == SubSeq(m_buffer, size + 1, Len(m_buffer))
             comma == rest # <<>> /\ Head(rest) = 1
             dropped == IF comma THEN Len(rest) % P ELSE 0
             f == Len(m_buffer)
             h == Len(rest)
  <1>1. PICK q \in Seq(MessagesOf(p)) : IsUnderway(q) /\ InControl(q)
    BY DEF CodecIInv, InvUnderway
  <1>2. PICK s \in Seq(Bit) : OnTheWay(q, s, m_buffer, words, m_buffer_encoder, p)
    BY <1>1 DEF IsUnderway
  <1>3. /\ p \in Parameter /\ m_message_queue \in Seq(MessagesOf(p)) /\ UTMessages = MessagesOf(p)
        /\ m_buffer_encoder \in Seq(Bit) /\ words \in Seq(Word(p)) /\ m_buffer \in Seq(Bit)
        /\ f \in Nat
    BY CodecTypes DEF CodecIInv
  <1>4. /\ label = "decoding_message"
        /\ m_message_queue' = Append(m_message_queue, MessageIn(p, m_current_header, m_buffer))
        /\ m_buffer' = SubSeq(rest, dropped + 1, Len(rest))
        /\ \/ Len(m_buffer') < HW /\ label' = "word" /\ m_state' = "dropping_leading_comma"
           \/ ~(Len(m_buffer') < HW) /\ label' = "decoding_header" /\ m_state' = m_state
        /\ UNCHANGED <<parameter, encoder, words, current>>
    BY DEF DecodeMessage
  <1>5. /\ parameter' = parameter /\ words' = words
        /\ underway' = underway /\ m_buffer_encoder' = m_buffer_encoder
        /\ m_current_header' = m_current_header /\ m_current_message_size' = m_current_message_size
    BY <1>4 DEF encoder, current
  <1>6. IsCurrent(q) /\ size <= f /\ f < size + P
    BY <1>1, <1>4 DEF InControl, Within
  <1> DEFINE m == Head(q)
             t == SubSeq(s, size + 1, Len(s))
  <1>7. /\ q # <<>> /\ m_current_header = m.header /\ size = WordWidth(p, m.header)
        /\ m_buffer # <<>> /\ m_buffer[1] = 0
    BY <1>6 DEF IsCurrent, BeginsMessage
  <1>8. /\ m \in MessagesOf(p)
        /\ f >= size => MessageIn(p, m.header, m_buffer) = m
        /\ f >= size => OnTheWay(Tail(q), t, rest, words, m_buffer_encoder, p)
    BY <1>2, <1>3, <1>7, MessageBegins
  <1>9. /\ P \in Nat /\ P > 0 /\ HW \in Nat /\ HW > 0 /\ g \in Nat /\ g > 0 /\ (HW <= g \/ g = P)
        /\ Multiple(P, g) /\ size \in Nat /\ Multiple(size, g) /\ BufferSize(p) \in Nat
    BY <1>3, <1>7, <1>8, Sizes
  <1>10. MessageIn(p, m_current_header, m_buffer) = m
         /\ OnTheWay(Tail(q), t, rest, words, m_buffer_encoder, p)
    <2>1. f >= size
      <3> HIDE DEF f, size
      <3> QED BY <1>3, <1>6, <1>9
    <2> QED BY <1>7, <1>8, <2>1
  <1>11. rest \in Seq(Bit) /\ h = f - size /\ h \in Nat /\ h < P /\ h <= f
    <2>1. size \in 0 .. f
      <3> HIDE DEF f, size
      <3> QED BY <1>3, <1>6, <1>9
    <2>2. rest \in Seq(Bit) /\ IsRest(rest, m_buffer, size)
      BY <1>3, <2>1, Behind
    <2>3. h = f - size
      BY <2>2 DEF IsRest
    <2> HIDE DEF h, f, size, rest, P
    <2> QED BY <1>3, <1>6, <1>9, <2>2, <2>3
  <1> HIDE DEF rest
  <1>12. h = 0 \/ HW <= h
    <2>1. Multiple(f, g)
      BY DEF CodecIInv, InvGranules
    <2> HIDE DEF h, f, size, g, HW, P
    <2>2. Multiple(h, g)
      BY <1>3, <1>6, <1>9, <1>11, <2>1, Multiples
    <2>3. h > 0 => h >= g
      BY <1>9, <1>11, <2>2, Multiples
    <2> QED BY <1>9, <1>11, <2>3
  (* The buffer either starts with a header or is empty. *)
  <1>13. ASSUME comma
        PROVE  /\ m_buffer' = <<>> \/ (m_buffer' = rest /\ BeginsMessage')
               /\ \E u \in Seq(Bit) : OnTheWay(Tail(q), u, m_buffer', words, m_buffer_encoder, p)
    <2>1. dropped = h
      <3>1. h % P = h
        <4> HIDE DEF h, P
        <4>1. h = P * 0 + h /\ 0 \in Nat
          BY <1>9, <1>11
        <4> QED BY <1>9, <1>11, <4>1, Remainder
      <3> QED BY <1>13, <3>1
    <2>2. rest # <<>> /\ rest[1] = 1 /\ Len(rest) <= P
      <3>1. h <= P
        <4> HIDE DEF h, P
        <4> QED BY <1>9, <1>11
      <3>2. rest # <<>> /\ Head(rest) = 1
        BY <1>13
      <3>3. rest[1] = 1
        BY <1>11, <3>2
      <3> QED BY <3>1, <3>2, <3>3
    <2>3. OnTheWay(Tail(q), SubSeq(t, Len(rest) + 1, Len(t)), <<>>, words, m_buffer_encoder, p)
      BY <1>3, <1>10, <1>11, <2>2, CommaBegins
    <2>4. m_buffer' = <<>>
      <3> HIDE DEF h, dropped
      <3>1. h + 1 \in Int /\ h \in Int /\ h < h + 1
        BY <1>11
      <3>2. SubSeq(rest, h + 1, h) = <<>>
        BY <3>1, SubSeqEmpty
      <3> QED BY <1>4, <2>1, <3>2 DEF h
    <2>5. \E u \in Seq(Bit) : OnTheWay(Tail(q), u, m_buffer', words, m_buffer_encoder, p)
      <3>1. SubSeq(t, Len(rest) + 1, Len(t)) \in Seq(Bit)
        BY <2>3 DEF OnTheWay
      <3> QED BY <2>3, <2>4, <3>1
    <2> QED BY <2>4, <2>5
  <1>14. ASSUME ~comma
        PROVE  /\ m_buffer' = <<>> \/ (m_buffer' = rest /\ BeginsMessage')
               /\ \E u \in Seq(Bit) : OnTheWay(Tail(q), u, m_buffer', words, m_buffer_encoder, p)
    <2>1. dropped = 0
      BY <1>14
    <2>2. m_buffer' = rest
      <3> HIDE DEF dropped
      <3>1. 0 + 1 = 1
        OBVIOUS
      <3>2. SubSeq(rest, 1, Len(rest)) = rest
        BY <1>11, SubSeqFull
      <3> QED BY <1>4, <2>1, <3>1, <3>2
    <2>3. rest = <<>> \/ rest[1] = 0
      <3>1. rest # <<>> => Head(rest) = rest[1] /\ rest[1] \in Bit
        <4> SUFFICES ASSUME rest # <<>> PROVE Head(rest) = rest[1] /\ rest[1] \in Bit
          OBVIOUS
        <4>1. 1 \in 1 .. Len(rest)
          BY <1>11, EmptySeq
        <4> QED BY <1>11, <4>1, ElementOfSeq
      <3> QED BY <1>14, <3>1 DEF Bit
    <2>4. t \in Seq(Bit)
      BY <1>10 DEF OnTheWay
    <2> QED BY <1>10, <2>2, <2>3, <2>4 DEF BeginsMessage
  <1>15. /\ m_buffer' = <<>> \/ (m_buffer' = rest /\ BeginsMessage')
         /\ \E u \in Seq(Bit) : OnTheWay(Tail(q), u, m_buffer', words, m_buffer_encoder, p)
    BY <1>13, <1>14
  <1>16. IsUnderway(Tail(q))' /\ Tail(q) \in Seq(MessagesOf(p)) /\ m_message_queue' \in Seq(MessagesOf(p))
    <2> DEFINE d == m_message_queue
               one == <<m>>
               r == Tail(q)
    <2>1. d \in Seq(MessagesOf(p)) /\ one \in Seq(MessagesOf(p)) /\ r \in Seq(MessagesOf(p))
      BY <1>3, <1>7, <1>8, HeadTailProperties
    <2>2. m_message_queue' = Append(d, m) /\ Append(d, m) = d \o one /\ Append(d, m) \in Seq(MessagesOf(p))
      BY <1>3, <1>4, <1>8, <1>10, AppendIsConcat, AppendProperties
    <2>3. q = one \o r
      BY <1>7, <1>8
    <2> HIDE DEF d, one, r
    <2>4. (d \o one) \o r = d \o (one \o r)
      BY <2>1, ConcatAssociative
    <2>5. underway' = m_message_queue' \o r
      BY <1>1, <1>5, <2>2, <2>3, <2>4 DEF IsUnderway, d
    <2> QED BY <1>5, <1>15, <2>1, <2>2, <2>5 DEF IsUnderway, r
  <1> DEFINE level == Len(m_buffer')
  <1>17. m_buffer' \in Seq(Bit) /\ ((m_buffer' = <<>> /\ level = 0) \/ (BeginsMessage' /\ level = h))
    <2>1. CASE m_buffer' = <<>>
      <3>1. Len(<<>>) = 0 /\ <<>> \in Seq(Bit)
        OBVIOUS
      <3> QED BY <2>1, <3>1
    <2>2. CASE m_buffer' = rest /\ BeginsMessage'
      BY <1>11, <2>2
    <2> QED BY <1>15, <2>1, <2>2
  <1> HIDE DEF f, size, P, HW, g, level, h
  <1>18. InControl(Tail(q))'
    <2>1. CASE m_buffer' = <<>> /\ level = 0
      <3>1. label' = "word" /\ m_state' = "dropping_leading_comma"
        BY <1>4, <1>9, <2>1 DEF level, HW
      <3> QED BY <2>1, <3>1 DEF InControl
    <2>2. CASE BeginsMessage' /\ level = h
      <3>1. h # 0
        <4>1. m_buffer' # <<>>
          BY <2>2 DEF BeginsMessage
        <4> QED BY <1>17, <2>2, <4>1, EmptySeq DEF level
      <3>2. HW <= level /\ level < HW + P
        BY <1>9, <1>11, <1>12, <2>2, <3>1
      <3>3. ~(level < HW)
        BY <1>9, <1>11, <2>2, <3>2
      <3>4. label' = "decoding_header"
        BY <1>4, <3>3 DEF level, HW
      <3> QED BY <1>5, <2>2, <3>2, <3>4 DEF InControl, Within, level, HW, P
    <2> QED BY <1>17, <2>1, <2>2
  <1>19. InvGranules'
    <2>1. Multiple(f, g)
      BY DEF CodecIInv, InvGranules, f, g
    <2>2. Multiple(h, g)
      BY <1>3, <1>6, <1>9, <1>11, <2>1, Multiples
    <2>3. Multiple(0, g)
      <3>1. 0 = g * 0 /\ 0 \in Nat
        BY <1>9
      <3> QED BY <3>1 DEF Multiple
    <2>4. Multiple(level, g)
      BY <1>17, <2>2, <2>3
    <2> QED BY <1>5, <2>4 DEF InvGranules, level, g
  <1>20. TypeOK'
    <2>1. UTMessages' = UTMessages
      BY <1>5 DEF UTMessages
    <2>2. level <= BufferSize(p)
      <3>1. f <= BufferSize(p)
        BY DEF CodecIInv, TypeOK, f
      <3> QED BY <1>3, <1>9, <1>11, <1>17, <3>1
    <2>3. m_state' \in {"dropping_leading_comma", "filling_until_header_size",
                        "filling_until_message_size"}
          /\ label' \in {"word", "decoding_header", "decoding_message"}
      BY <1>4 DEF CodecIInv, TypeOK
    <2> HIDE DEF UTMessages
    <2> QED BY <1>3, <1>5, <1>16, <1>17, <2>1, <2>2, <2>3 DEF CodecIInv, TypeOK, level
  <1>21. InvUnderway'
    BY <1>5, <1>16, <1>18 DEF InvUnderway
  <1> QED BY <1>19, <1>20, <1>21 DEF CodecIInv

----------------------------------------------------------------------------
(* The theorems. *)

(* Initially nothing is underway.                                           *)
LEMMA CodecInit ==
  ASSUME Init
  PROVE  CodecIInv
  <1> DEFINE p == parameter
  <1>1. /\ p \in Parameter /\ underway = <<>> /\ m_buffer_encoder = <<>> /\ words = <<>>
        /\ m_buffer = <<>> /\ m_state = "dropping_leading_comma" /\ label = "word"
        /\ m_current_header = 0 /\ m_current_message_size = 0 /\ m_message_queue = <<>>
    BY DEF Init
  <1>2. TypeOK
    <2>1. /\ p.phyword \in Nat /\ p.phyword > 0 /\ LargestSize(p) \in Nat /\ BufferSize(p) \in Nat
          /\ Len(p.dictionary) - 1 \in Nat
      BY <1>1, Sizes, WordSizes
    <2>2. 0 \in 0 .. LargestSize(p) /\ 0 \in 0 .. Len(p.dictionary) - 1 /\ Len(<<>>) = 0
          /\ Len(<<>>) <= BufferSize(p) /\ Len(<<>>) < p.phyword
      BY <2>1
    <2>3. <<>> \in Seq(UTMessages) /\ <<>> \in Seq(Bit) /\ <<>> \in Seq([1 .. p.phyword -> Bit])
      BY EmptySeq
    <2> QED BY <1>1, <2>2, <2>3 DEF TypeOK
  <1>3. InvGranules
    <2>1. Len(<<>>) = 0 /\ 0 = Granule(p) * 0 /\ 0 \in Nat
      BY <1>1, Sizes
    <2> QED BY <1>1, <2>1 DEF InvGranules, Multiple
  <1>4. <<>> \in Seq(MessagesOf(p)) /\ <<>> \in Seq(Bit) /\ <<>> \o <<>> = <<>>
    BY EmptySeq, ConcatEmptySeq
  <1>5. IsUnderway(<<>>)
    BY <1>1, <1>4, NothingYet DEF IsUnderway
  <1>6. InControl(<<>>)
    BY <1>1 DEF InControl
  <1> QED BY <1>2, <1>3, <1>4, <1>5, <1>6 DEF CodecIInv, InvUnderway

(* The inductive invariant, for all parameter sets with which words and     *)
(* subwords divide one another, all payloads and any number of messages,    *)
(* flushes and idle words: the bits in the two buffers and the words        *)
(* between them are the messages not decoded yet, in order, with padding    *)
(* only from a comma to the end of a word, and the buffer of the decoder    *)
(* holds what its place in operator() expects.                              *)
THEOREM CodecInvariance == Spec => []CodecIInv
  <1>1. Init => CodecIInv
    BY CodecInit
  <1>2. CodecIInv /\ [Next]_vars => CodecIInv'
    <2> SUFFICES ASSUME CodecIInv, [Next]_vars PROVE CodecIInv'
      OBVIOUS
    <2>1. CASE \E m \in UTMessages : EncodeMessage(m)
      BY <2>1, EncodeMessageStep
    <2>2. CASE Flush
      BY <2>2, FlushStep
    <2>3. CASE Idle
      BY <2>3, IdleStep
    <2>4. CASE DropWord
      BY <2>4, DropWordStep
    <2>5. CASE ShiftInWord
      BY <2>5, ShiftInWordStep
    <2>6. CASE DecodeHeader
      BY <2>6, DecodeHeaderStep
    <2>7. CASE DecodeMessage
      BY <2>7, DecodeMessageStep
    <2>8. CASE Take
      BY <2>8, TakeStep
    <2>9. CASE UNCHANGED vars
      <3>1. /\ parameter' = parameter /\ underway' = underway /\ m_buffer_encoder' = m_buffer_encoder
            /\ words' = words /\ m_buffer' = m_buffer /\ m_state' = m_state /\ label' = label
            /\ m_current_header' = m_current_header /\ m_current_message_size' = m_current_message_size
            /\ m_message_queue' = m_message_queue
        BY <2>9 DEF vars, encoder, current
      <3>2. TypeOK'
        <4>1. UTMessages' = UTMessages
          BY <3>1 DEF UTMessages
        <4> HIDE DEF UTMessages
        <4> QED BY <3>1, <4>1 DEF CodecIInv, TypeOK
      <3>3. InvGranules' /\ InvUnderway'
        BY <3>1 DEF CodecIInv, InvGranules, InvUnderway, IsUnderway, InControl, IsCurrent,
                    BeginsMessage, Within
      <3> QED BY <3>2, <3>3 DEF CodecIInv
    <2> QED BY <2>1, <2>2, <2>3, <2>4, <2>5, <2>6, <2>7, <2>8, <2>9 DEF Next, DecodeWord
  <1> QED BY <1>1, <1>2, PTL DEF Spec

(* Every variable keeps its type; no buffer of Encoder and Decoder          *)
(* overflows.                                                               *)
THEOREM CodecTypeCorrect == Spec => []TypeOK
  <1>1. CodecIInv => TypeOK
    BY DEF CodecIInv
  <1> QED BY <1>1, CodecInvariance, PTL

(* The first elements of a sequence that begins with another.               *)
LEMMA FirstBits ==
  ASSUME NEW S, NEW s \in Seq(S), NEW t \in Seq(S), Begins(s, t)
  PROVE  SubSeq(s, 1, Len(s)) = SubSeq(t, 1, Len(s))
  <1> DEFINE n == Len(s)
             u == SubSeq(t, 1, n)
  <1>1. n \in Nat /\ Len(t) \in Nat /\ n <= Len(t) /\ \A i \in 1 .. n : t[i] = s[i]
    BY LenProperties DEF Begins
  <1>2. SubSeq(s, 1, n) = s
    BY SubSeqFull
  <1> HIDE DEF n
  <1>3. \A i \in 1 .. n : t[i] \in S
    <2>1. \A i \in 1 .. n : i \in 1 .. Len(t)
      BY <1>1
    <2> QED BY <2>1, ElementOfSeq
  <1>4. 1 \in Int /\ n \in Int
    BY <1>1
  <1>5. /\ u \in Seq(S) /\ Len(u) = IF 1 <= n THEN n - 1 + 1 ELSE 0
        /\ \A i \in 1 .. n - 1 + 1 : u[i] = t[1 + i - 1]
    BY <1>3, <1>4, SubSeqProperties
  <1> HIDE DEF u
  <1>6. n - 1 + 1 = n /\ (~(1 <= n) => n = 0) /\ \A i \in 1 .. n : 1 + i - 1 = i
    BY <1>1
  <1>7. Len(u) = n /\ \A i \in 1 .. n : u[i] = s[i]
    BY <1>1, <1>5, <1>6
  <1>8. u = s
    BY <1>5, <1>7, SeqEqual DEF n
  <1> QED BY <1>2, <1>8 DEF u, n

(* The decoder finds what was encoded, in order, meets no header outside    *)
(* the dictionary and drops words only between messages.                    *)
THEOREM FoundInOrder == Spec => []DecodedInOrder
  <1>1. CodecIInv => DecodedInOrder
    <2> SUFFICES ASSUME CodecIInv PROVE DecodedInOrder
      OBVIOUS
    <2> DEFINE p == parameter
    <2>1. PICK q \in Seq(MessagesOf(p)) : IsUnderway(q) /\ InControl(q)
      BY DEF CodecIInv, InvUnderway
    <2>2. p \in Parameter /\ m_message_queue \in Seq(MessagesOf(p)) /\ underway \in Seq(MessagesOf(p))
      BY CodecTypes DEF CodecIInv
    <2>3. IsPrefix(m_message_queue, underway)
      <3> DEFINE d == m_message_queue
      <3>1. underway = d \o q /\ Len(underway) = Len(d) + Len(q) /\ Begins(d, underway)
        BY <2>1, <2>2, Lengthens DEF IsUnderway
      <3>2. Len(d) \in Nat /\ Len(underway) \in Nat
        BY <2>2, LenProperties
      <3>3. SubSeq(d, 1, Len(d)) = SubSeq(underway, 1, Len(d))
        BY <2>2, <3>1, FirstBits
      <3> QED BY <3>1, <3>3 DEF IsPrefix
    <2>4. ASSUME label = "decoding_header" PROVE HeaderInBuffer < Len(parameter.dictionary)
      <3>1. BeginsMessage /\ HeaderWidth(p) <= Len(m_buffer)
        BY <2>1, <2>4 DEF InControl, Within
      <3>2. Head(q) \in MessagesOf(p) /\ HeaderInBuffer = Head(q).header
        BY <2>1, <3>1, HeaderIsNext DEF CodecIInv
      <3>3. HeaderInBuffer \in 0 .. Len(p.dictionary) - 1 /\ Len(p.dictionary) - 1 \in Nat
        BY <2>2, <3>2, Sizes, WordSizes
      <3>4. Len(p.dictionary) \in Nat
        BY <2>2, LenProperties, ParameterAssumption
      <3> QED BY <3>3, <3>4
    <2>5. label = "word" /\ m_state = "dropping_leading_comma" => m_buffer = <<>>
      BY <2>1 DEF InControl
    <2> QED BY <2>3, <2>4, <2>5 DEF DecodedInOrder
  <1> QED BY <1>1, CodecInvariance, PTL

(* Once a flush has pushed the last word and the decoder has taken all      *)
(* words, every message has been decoded and no bit is left over.           *)
THEOREM FlushedCompletely == Spec => []FlushCompletes
  <1>1. CodecIInv => FlushCompletes
    <2> SUFFICES ASSUME CodecIInv, m_buffer_encoder = <<>>, words = <<>>, label = "word"
                 PROVE  m_message_queue = underway /\ m_buffer = <<>>
      BY DEF FlushCompletes
    <2> DEFINE p == parameter
    <2>1. PICK q \in Seq(MessagesOf(p)) : IsUnderway(q) /\ InControl(q)
      BY DEF CodecIInv, InvUnderway
    <2>2. PICK s \in Seq(Bit) : OnTheWay(q, s, m_buffer, <<>>, <<>>, p)
      BY <2>1 DEF IsUnderway
    <2>3. /\ p \in Parameter /\ m_message_queue \in Seq(MessagesOf(p)) /\ m_buffer \in Seq(Bit)
          /\ <<>> \in Seq(Bit) /\ <<>> \in Seq(Word(p)) /\ Len(m_buffer) \in Nat
      BY CodecTypes, EmptySeq DEF CodecIInv
    <2>4. Len(s) = Len(m_buffer) /\ (m_buffer = <<>> => q = <<>>)
      BY <2>2, <2>3, NothingLeft
    <2>5. ASSUME BeginsMessage
          PROVE  /\ Head(q) \in MessagesOf(p) /\ Len(m_buffer) >= WordWidth(p, Head(q).header)
                 /\ WordWidth(p, Head(q).header) \in Nat /\ HeaderWidth(p) \in Nat
                 /\ HeaderWidth(p) <= WordWidth(p, Head(q).header)
      <3>1. Head(q) \in MessagesOf(p) /\ Len(m_buffer) >= WordWidth(p, Head(q).header)
        BY <2>2, <2>3, <2>4, <2>5, MessageBegins DEF BeginsMessage
      <3> QED BY <2>3, <3>1, Sizes
    <2>6. m_buffer = <<>>
      <3>1. ~(BeginsMessage /\ Len(m_buffer) < HeaderWidth(p))
        BY <2>3, <2>5
      <3>2. ~(IsCurrent(q) /\ Len(m_buffer) < m_current_message_size)
        BY <2>3, <2>5 DEF IsCurrent
      <3> QED BY <2>1, <3>1, <3>2 DEF InControl
    <2>7. underway = m_message_queue
      BY <2>1, <2>3, <2>4, <2>6, ConcatEmptySeq DEF IsUnderway
    <2> QED BY <2>6, <2>7
  <1> QED BY <1>1, CodecInvariance, PTL

=============================================================================
