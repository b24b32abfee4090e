------------------------- MODULE LogviewManagerProofs -------------------------
(***************************************************************************)
(* Proofs about the log viewer's manager and its filters, for any files,   *)
(* command lines, texts and number of requests.                            *)
(***************************************************************************)
EXTENDS LogviewManager, FiniteSetTheorems, SequenceTheorems, TLAPS

-----------------------------------------------------------------------------
(* Sequences and strings.                                                  *)

(* The elements of a finite set in some order: each once, and no other.    *)
LEMMA InSomeOrder ==
  ASSUME NEW S, IsFiniteSet(S)
  PROVE  /\ SetToSeq(S) \in Seq(S)
         /\ Len(SetToSeq(S)) = Cardinality(S)
         /\ Cardinality(S) \in Nat
         /\ DOMAIN SetToSeq(S) = 1..Cardinality(S)
         /\ \A i, j \in DOMAIN SetToSeq(S) : SetToSeq(S)[i] = SetToSeq(S)[j] => i = j
         /\ Range(SetToSeq(S)) = S
<1> DEFINE n == Cardinality(S)
           q == SetToSeq(S)
<1>1. n \in Nat /\ ExistsBijection(1..n, S)
  BY FS_CardinalityType
<1>2. \E f \in [1..n -> S] : IsInjective(f)
  BY <1>1 DEF ExistsBijection, Bijection, Injection
<1>3. q \in [1..n -> S] /\ IsInjective(q)
  BY <1>2 DEF SetToSeq
<1>4. q \in Seq(S) /\ DOMAIN q = 1..n /\ Len(q) = n
  BY <1>1, <1>3, SeqDef
<1>5. \A i, j \in DOMAIN q : q[i] = q[j] => i = j
  BY <1>3 DEF IsInjective
<1>6. q \in Injection(1..n, S)
  BY <1>3 DEF Injection
<1>7. Cardinality(1..n) = n
  BY <1>1, FS_Interval
<1>8. q \in Surjection(1..n, S)
  BY <1>6, <1>7, FS_Injection
<1>9. Range(q) = S
  BY <1>3, <1>8 DEF Surjection, Range
<1> QED
  BY <1>1, <1>4, <1>5, <1>9

(* What is left of a sequence without its i-th element. *)
LEMMA Removing ==
  ASSUME NEW S, NEW s \in Seq(S), NEW i \in DOMAIN s
  PROVE  /\ RemoveAt(s, i) \in Seq(S)
         /\ Len(RemoveAt(s, i)) = Len(s) - 1
         /\ DOMAIN RemoveAt(s, i) = 1..(Len(s) - 1)
         /\ \A j \in 1..(Len(s) - 1) :
              RemoveAt(s, i)[j] = s[IF j < i THEN j ELSE j + 1]
<1> DEFINE a == SubSeq(s, 1, i - 1)
           b == SubSeq(s, i + 1, Len(s))
<1>1. Len(s) \in Nat /\ DOMAIN s = 1..Len(s) /\ i \in 1..Len(s)
  BY LenProperties
<1>2. \A j \in 1..Len(s) : s[j] \in S
  BY ElementOfSeq
<1>3. /\ a \in Seq(S) /\ Len(a) = i - 1
      /\ \A j \in 1..(i - 1) : a[j] = s[j]
  <2>1. \A j \in 1..(i - 1) : s[j] \in S
    BY <1>1, <1>2
  <2>2. /\ a \in Seq(S) /\ Len(a) = IF 1 <= i - 1 THEN (i - 1) - 1 + 1 ELSE 0
        /\ \A j \in 1..((i - 1) - 1 + 1) : a[j] = s[1 + j - 1]
    BY <1>1, <2>1, SubSeqProperties
  <2> HIDE DEF a
  <2> QED
    BY <1>1, <2>2
<1>4. /\ b \in Seq(S) /\ Len(b) = Len(s) - i
      /\ \A j \in 1..(Len(s) - i) : b[j] = s[i + j]
  <2>1. \A j \in (i + 1)..Len(s) : s[j] \in S
    BY <1>1, <1>2
  <2>2. /\ b \in Seq(S)
        /\ Len(b) = IF i + 1 <= Len(s) THEN Len(s) - (i + 1) + 1 ELSE 0
        /\ \A j \in 1..(Len(s) - (i + 1) + 1) : b[j] = s[i + 1 + j - 1]
    BY <1>1, <2>1, SubSeqProperties
  <2> HIDE DEF b
  <2>3. Len(b) = Len(s) - i
    BY <1>1, <2>2
  <2>4. ASSUME NEW j \in 1..(Len(s) - i) PROVE b[j] = s[i + j]
    <3>1. j \in 1..(Len(s) - (i + 1) + 1) /\ i + 1 + j - 1 = i + j
      BY <1>1
    <3> QED
      BY <2>2, <3>1
  <2> QED
    BY <2>2, <2>3, <2>4
<1> HIDE DEF a, b
<1>5. /\ a \o b \in Seq(S)
      /\ Len(a \o b) = Len(a) + Len(b)
      /\ \A j \in 1..(Len(a) + Len(b)) :
           (a \o b)[j] = IF j <= Len(a) THEN a[j] ELSE b[j - Len(a)]
  BY <1>3, <1>4, ConcatProperties
<1>6. RemoveAt(s, i) = a \o b
  BY DEF RemoveAt, a, b
<1>7. Len(a) + Len(b) = Len(s) - 1
  BY <1>1, <1>3, <1>4
<1>8. ASSUME NEW j \in 1..(Len(s) - 1)
      PROVE  (a \o b)[j] = s[IF j < i THEN j ELSE j + 1]
  <2>1. (a \o b)[j] = IF j <= Len(a) THEN a[j] ELSE b[j - Len(a)]
    BY <1>5, <1>7
  <2>2. CASE j < i
    BY <1>1, <1>3, <2>1, <2>2
  <2>3. CASE ~ (j < i)
    <3>1. ~ (j <= Len(a)) /\ j - Len(a) \in 1..(Len(s) - i) /\ i + (j - Len(a)) = j + 1
      BY <1>1, <1>3, <2>3
    <3> QED
      BY <1>4, <2>1, <2>3, <3>1
  <2> QED
    BY <2>2, <2>3
<1>9. DOMAIN (a \o b) = 1..(Len(s) - 1)
  BY <1>5, <1>7, LenProperties
<1> QED
  BY <1>5, <1>6, <1>7, <1>8, <1>9

(* One field behind the next, with a delimiter between them. *)
LEMMA FieldAdded ==
  ASSUME ":" \in Characters,
         NEW u \in Texts, NEW b \in Texts
  PROVE  /\ (u \o DELIMITER) \o b \in Texts
         /\ Len((u \o DELIMITER) \o b) = Len(u) + 1 + Len(b)
         /\ \A i \in 1..Len(u) : ((u \o DELIMITER) \o b)[i] = u[i]
         /\ ((u \o DELIMITER) \o b)[Len(u) + 1] = ":"
         /\ \A i \in 1..Len(b) : ((u \o DELIMITER) \o b)[Len(u) + 1 + i] = b[i]
<1> DEFINE d == DELIMITER
           v == u \o d
           w == v \o b
<1>1. d \in Texts /\ Len(d) = 1 /\ d[1] = ":"
  BY DEF DELIMITER, Texts
<1>2. Len(u) \in Nat /\ Len(b) \in Nat
  BY LenProperties DEF Texts
<1> HIDE DEF d
<1>3. /\ v \in Texts /\ Len(v) = Len(u) + Len(d)
      /\ \A i \in 1..(Len(u) + Len(d)) :
           v[i] = IF i <= Len(u) THEN u[i] ELSE d[i - Len(u)]
  BY <1>1, ConcatProperties DEF Texts
<1> HIDE DEF v
<1>4. /\ w \in Texts /\ Len(w) = Len(v) + Len(b)
      /\ \A i \in 1..(Len(v) + Len(b)) :
           w[i] = IF i <= Len(v) THEN v[i] ELSE b[i - Len(v)]
  <2>1. v \in Seq(Characters) /\ b \in Seq(Characters)
    BY <1>3 DEF Texts
  <2> QED
    BY <2>1, ConcatProperties DEF Texts
<1> HIDE DEF w
<1>5. Len(v) = Len(u) + 1 /\ Len(w) = Len(u) + 1 + Len(b)
  BY <1>1, <1>2, <1>3, <1>4
<1>6. \A i \in 1..Len(u) : w[i] = u[i]
  BY <1>1, <1>2, <1>3, <1>4, <1>5
<1>7. w[Len(u) + 1] = ":"
  BY <1>1, <1>2, <1>3, <1>4, <1>5
<1>8. ASSUME NEW i \in 1..Len(b) PROVE w[Len(u) + 1 + i] = b[i]
  <2>1. /\ Len(u) + 1 + i \in 1..(Len(v) + Len(b)) /\ ~ (Len(u) + 1 + i <= Len(v))
        /\ Len(u) + 1 + i - Len(v) = i
    BY <1>2, <1>5
  <2> QED
    BY <1>4, <2>1
<1> QED
  BY <1>4, <1>5, <1>6, <1>7, <1>8 DEF d, v, w

(* Where the delimiters of a written filter are, and what is between them. *)
Fields(w, a, b, c, d, e) ==
  LET p1 == Len(a) + 1
      p2 == p1 + Len(b) + 1
      p3 == p2 + Len(c) + 1
      p4 == p3 + Len(d) + 1
  IN  /\ w \in Texts /\ Len(w) = p4 + Len(e)
      /\ w[p1] = ":" /\ w[p2] = ":" /\ w[p3] = ":" /\ w[p4] = ":"
      /\ \A i \in 1..Len(a) : w[i] = a[i]
      /\ \A i \in 1..Len(b) : w[p1 + i] = b[i]
      /\ \A i \in 1..Len(c) : w[p2 + i] = c[i]
      /\ \A i \in 1..Len(d) : w[p3 + i] = d[i]
      /\ \A i \in 1..Len(e) : w[p4 + i] = e[i]

LEMMA WrittenFields ==
  ASSUME ":" \in Characters,
         NEW a \in Texts, NEW b \in Texts, NEW c \in Texts, NEW d \in Texts,
         NEW e \in Texts
  PROVE  Fields(a \o DELIMITER \o b \o DELIMITER \o c \o DELIMITER \o d
                  \o DELIMITER \o e, a, b, c, d, e)
<1> DEFINE u1 == (a \o DELIMITER) \o b
           u2 == (u1 \o DELIMITER) \o c
           u3 == (u2 \o DELIMITER) \o d
           w  == (u3 \o DELIMITER) \o e
           p1 == Len(a) + 1
           p2 == p1 + Len(b) + 1
           p3 == p2 + Len(c) + 1
           p4 == p3 + Len(d) + 1
<1>0. /\ Len(a) \in Nat /\ Len(b) \in Nat /\ Len(c) \in Nat /\ Len(d) \in Nat
      /\ Len(e) \in Nat
  BY LenProperties DEF Texts
<1>1. /\ u1 \in Texts /\ Len(u1) = Len(a) + 1 + Len(b)
      /\ \A i \in 1..Len(a) : u1[i] = a[i]
      /\ u1[Len(a) + 1] = ":"
      /\ \A i \in 1..Len(b) : u1[Len(a) + 1 + i] = b[i]
  BY FieldAdded
<1> HIDE DEF u1
<1>2. /\ u2 \in Texts /\ Len(u2) = Len(u1) + 1 + Len(c)
      /\ \A i \in 1..Len(u1) : u2[i] = u1[i]
      /\ u2[Len(u1) + 1] = ":"
      /\ \A i \in 1..Len(c) : u2[Len(u1) + 1 + i] = c[i]
  BY <1>1, FieldAdded
<1> HIDE DEF u2
<1>3. /\ u3 \in Texts /\ Len(u3) = Len(u2) + 1 + Len(d)
      /\ \A i \in 1..Len(u2) : u3[i] = u2[i]
      /\ u3[Len(u2) + 1] = ":"
      /\ \A i \in 1..Len(d) : u3[Len(u2) + 1 + i] = d[i]
  BY <1>2, FieldAdded
<1> HIDE DEF u3
<1>4. /\ w \in Texts /\ Len(w) = Len(u3) + 1 + Len(e)
      /\ \A i \in 1..Len(u3) : w[i] = u3[i]
      /\ w[Len(u3) + 1] = ":"
      /\ \A i \in 1..Len(e) : w[Len(u3) + 1 + i] = e[i]
  BY <1>3, FieldAdded
<1> HIDE DEF w
<1>5. /\ p1 \in Nat /\ p2 \in Nat /\ p3 \in Nat /\ p4 \in Nat
      /\ Len(u1) + 1 = p2 /\ Len(u2) + 1 = p3 /\ Len(u3) + 1 = p4
  BY <1>0, <1>1, <1>2, <1>3
<1>6. \A i \in 1..Len(u2) : w[i] = u2[i]
  BY <1>0, <1>3, <1>4, <1>5
<1>7. \A i \in 1..Len(u1) : w[i] = u1[i]
  BY <1>0, <1>2, <1>5, <1>6
<1>8. w[p1] = ":" /\ \A i \in 1..Len(a) : w[i] = a[i]
  BY <1>0, <1>1, <1>5, <1>7
<1>9. w[p2] = ":" /\ \A i \in 1..Len(b) : w[p1 + i] = b[i]
  <2>1. p2 \in 1..Len(u2)
    BY <1>0, <1>2, <1>5
  <2>2. \A i \in 1..Len(b) : p1 + i \in 1..Len(u1)
    BY <1>0, <1>1, <1>5
  <2> QED
    BY <1>1, <1>2, <1>5, <1>6, <1>7, <2>1, <2>2
<1>10. w[p3] = ":" /\ \A i \in 1..Len(c) : w[p2 + i] = c[i]
  <2>1. p3 \in 1..Len(u3)
    BY <1>0, <1>3, <1>5
  <2>2. \A i \in 1..Len(c) : p2 + i \in 1..Len(u2) /\ w[p2 + i] = u2[p2 + i]
    BY <1>0, <1>2, <1>5, <1>6
  <2>3. w[p3] = u3[p3] /\ u3[p3] = ":"
    BY <1>3, <1>4, <1>5, <2>1
  <2>4. \A i \in 1..Len(c) : u2[p2 + i] = c[i]
    BY <1>2, <1>5
  <2> QED
    BY <2>2, <2>3, <2>4
<1>11. w[p4] = ":" /\ \A i \in 1..Len(d) : w[p3 + i] = d[i]
  <2>2. \A i \in 1..Len(d) : p3 + i \in 1..Len(u3)
    BY <1>0, <1>3, <1>5
  <2> QED
    BY <1>3, <1>4, <1>5, <2>2
<1>12. Len(w) = p4 + Len(e) /\ \A i \in 1..Len(e) : w[p4 + i] = e[i]
  BY <1>4, <1>5
<1>13. Fields(w, a, b, c, d, e)
  BY <1>4, <1>8, <1>9, <1>10, <1>11, <1>12 DEF Fields
<1> QED
  BY <1>13 DEF w, u1, u2, u3

LEMMA OneMore ==
  ASSUME NEW S, IsFiniteSet(S), NEW n \in Nat, Cardinality(S) = n,
         NEW x, x \notin S, NEW T, T = S \cup {x}
  PROVE  IsFiniteSet(T) /\ Cardinality(T) = n + 1
<1>1. IsFiniteSet(S \cup {x}) /\ Cardinality(S \cup {x}) = Cardinality(S) + 1
  BY FS_AddElement
<1> QED
  BY <1>1

(* The n-th delimiter is found where four of them are known. *)
LEMMA CutsAt ==
  ASSUME NEW w \in Texts,
         NEW p1 \in 1..Len(w), NEW p2 \in 1..Len(w), NEW p3 \in 1..Len(w),
         NEW p4 \in 1..Len(w),
         p1 < p2, p2 < p3, p3 < p4,
         w[p1] = ":", w[p2] = ":", w[p3] = ":", w[p4] = ":",
         \A i \in 1..p4 : w[i] = ":" => i \in {p1, p2, p3, p4}
  PROVE  Cut(w, 1) = p1 /\ Cut(w, 2) = p2 /\ Cut(w, 3) = p3 /\ Cut(w, 4) = p4
<1> DEFINE cuts == {i \in DOMAIN w : <<w[i]>> = DELIMITER}
           upto(i) == {j \in cuts : j <= i}
<1>1. Len(w) \in Nat /\ DOMAIN w = 1..Len(w)
  BY LenProperties DEF Texts
<1>2. cuts = {i \in 1..Len(w) : w[i] = ":"}
  BY <1>1 DEF DELIMITER
<1>3. cuts \subseteq 1..Len(w) /\ IsFiniteSet(cuts)
  <2>1. cuts \subseteq 1..Len(w)
    BY <1>2
  <2>2. IsFiniteSet(1..Len(w))
    BY <1>1, FS_Interval
  <2> HIDE DEF cuts
  <2> QED
    BY <2>1, <2>2, FS_Subset
<1>4. /\ p1 \in cuts /\ p2 \in cuts /\ p3 \in cuts /\ p4 \in cuts
      /\ \A i \in cuts : i <= p4 => i \in {p1, p2, p3, p4}
  BY <1>1, <1>2
<1> HIDE DEF cuts
<1> DEFINE c1 == {p1}
           c2 == {p1, p2}
           c3 == {p1, p2, p3}
           c4 == {p1, p2, p3, p4}
<1>5. upto(p1) = c1 /\ upto(p2) = c2 /\ upto(p3) = c3 /\ upto(p4) = c4
  <2>1. \A i \in cuts : i \in Nat
    BY <1>1, <1>3
  <2>2. \A i \in cuts : i <= p4 => i = p1 \/ i = p2 \/ i = p3 \/ i = p4
    BY <1>4
  <2>3. /\ p1 \in Nat /\ p2 \in Nat /\ p3 \in Nat /\ p4 \in Nat
        /\ p1 < p2 /\ p2 < p3 /\ p3 < p4
    BY <1>1
  <2>4. \A i \in cuts : i <= p1 <=> i = p1
    BY <2>1, <2>2, <2>3
  <2>5. \A i \in cuts : i <= p2 <=> i = p1 \/ i = p2
    BY <2>1, <2>2, <2>3
  <2>6. \A i \in cuts : i <= p3 <=> i = p1 \/ i = p2 \/ i = p3
    BY <2>1, <2>2, <2>3
  <2>7. \A i \in cuts : i <= p4 <=> i = p1 \/ i = p2 \/ i = p3 \/ i = p4
    BY <2>1, <2>2, <2>3
  <2>8. p1 \in cuts /\ p2 \in cuts /\ p3 \in cuts /\ p4 \in cuts
    BY <1>4
  <2>9. upto(p1) = c1
    BY <2>4, <2>8
  <2>10. upto(p2) = c2
    BY <2>5, <2>8
  <2>11. upto(p3) = c3
    BY <2>6, <2>8
  <2>12. upto(p4) = c4
    BY <2>7, <2>8
  <2> QED
    BY <2>9, <2>10, <2>11, <2>12
<1>6. IsFiniteSet(c1) /\ Cardinality(c1) = 1
  BY FS_Singleton
<1>7. IsFiniteSet(c2) /\ Cardinality(c2) = 1 + 1
  <2>1. c2 = c1 \cup {p2} /\ p2 \notin c1
    OBVIOUS
  <2> HIDE DEF c1, c2
  <2> QED
    BY <1>6, <2>1, OneMore
<1>8. IsFiniteSet(c3) /\ Cardinality(c3) = 2 + 1
  <2>1. c3 = c2 \cup {p3} /\ p3 \notin c2
    BY <1>1
  <2> HIDE DEF c2, c3
  <2> QED
    BY <1>7, <2>1, OneMore
<1>9. IsFiniteSet(c4) /\ Cardinality(c4) = 3 + 1
  <2>1. c4 = c3 \cup {p4} /\ p4 \notin c3
    BY <1>1
  <2> HIDE DEF c3, c4
  <2> QED
    BY <1>8, <2>1, OneMore
<1>10. ASSUME NEW i \in cuts, ~ (i <= p4)
       PROVE  Cardinality(upto(i)) \in Nat /\ Cardinality(upto(i)) >= 5
  <2>1. i \notin c4 /\ c4 \cup {i} \subseteq upto(i)
    BY <1>1, <1>3, <1>4, <1>10
  <2>2. upto(i) \subseteq cuts
    OBVIOUS
  <2> HIDE DEF c4, upto
  <2>3. IsFiniteSet(c4 \cup {i}) /\ Cardinality(c4 \cup {i}) = 4 + 1
    BY <1>9, <2>1, OneMore
  <2>4. IsFiniteSet(upto(i))
    BY <1>3, <2>2, FS_Subset
  <2>5. Cardinality(upto(i)) \in Nat
    BY <2>4, FS_CardinalityType
  <2>6. Cardinality(c4 \cup {i}) <= Cardinality(upto(i))
    BY <2>1, <2>4, FS_Subset
  <2> QED
    BY <2>3, <2>5, <2>6
<1> HIDE DEF c1, c2, c3, c4, upto
<1>11. /\ Cardinality(upto(p1)) = 1 /\ Cardinality(upto(p2)) = 2
       /\ Cardinality(upto(p3)) = 3 /\ Cardinality(upto(p4)) = 4
  BY <1>5, <1>6, <1>7, <1>8, <1>9
<1>12. ASSUME NEW i \in cuts
       PROVE  /\ Cardinality(upto(i)) = 1 => i = p1
              /\ Cardinality(upto(i)) = 2 => i = p2
              /\ Cardinality(upto(i)) = 3 => i = p3
              /\ Cardinality(upto(i)) = 4 => i = p4
  BY <1>4, <1>10, <1>11
<1>13. \A n : Cut(w, n) = CHOOSE i \in cuts : Cardinality(upto(i)) = n
  BY DEF Cut, cuts, upto
<1>14. Cut(w, 1) = p1
  BY <1>4, <1>11, <1>12, <1>13
<1>15. Cut(w, 2) = p2
  BY <1>4, <1>11, <1>12, <1>13
<1>16. Cut(w, 3) = p3
  BY <1>4, <1>11, <1>12, <1>13
<1>17. Cut(w, 4) = p4
  BY <1>4, <1>11, <1>12, <1>13
<1> QED
  BY <1>14, <1>15, <1>16, <1>17

LEMMA Segment ==
  ASSUME NEW w, NEW a \in Texts, NEW m \in Nat,
         \A i \in 1..Len(a) : w[m + i] = a[i]
  PROVE  SubSeq(w, m + 1, m + Len(a)) = a
<1> DEFINE s == SubSeq(w, m + 1, m + Len(a))
<1>1. Len(a) \in Nat /\ a \in Seq(Characters)
  BY LenProperties DEF Texts
<1>2. \A i \in 1..Len(a) : a[i] \in Characters
  BY <1>1, ElementOfSeq
<1>3. ASSUME NEW j \in (m + 1)..(m + Len(a)) PROVE w[j] \in Characters
  <2>1. j - m \in 1..Len(a) /\ m + (j - m) = j
    BY <1>1
  <2> QED
    BY <1>2, <2>1
<1>4. /\ s \in Seq(Characters)
      /\ Len(s) = IF m + 1 <= m + Len(a) THEN m + Len(a) - (m + 1) + 1 ELSE 0
      /\ \A i \in 1..(m + Len(a) - (m + 1) + 1) : s[i] = w[m + 1 + i - 1]
  BY <1>1, <1>3, SubSeqProperties
<1> HIDE DEF s
<1>5. Len(s) = Len(a)
  BY <1>1, <1>4
<1>6. ASSUME NEW i \in 1..Len(s) PROVE s[i] = a[i]
  <2>1. i \in 1..(m + Len(a) - (m + 1) + 1) /\ m + 1 + i - 1 = m + i
    BY <1>1, <1>5
  <2> QED
    BY <1>4, <1>5, <2>1
<1>7. s = a
  BY <1>1, <1>4, <1>5, <1>6, SeqEqual
<1> QED
  BY <1>7 DEF s

(* A filter is read as it was written, whatever its expression holds: the *)
(* fields in front of it have no delimiter.                                *)
LEMMA ReadAsWritten ==
  ASSUME ":" \in Characters, NEW f, IsFilter(f)
  PROVE  Read(Written(f)) = f
<1> DEFINE a == f.name
           b == f.look.invisible
           c == f.look.foreground
           d == f.look.background
           e == f.regex
           w == Written(f)
           p1 == Len(a) + 1
           p2 == p1 + Len(b) + 1
           p3 == p2 + Len(c) + 1
           p4 == p3 + Len(d) + 1
<1>1. /\ a \in Texts /\ b \in Texts /\ c \in Texts /\ d \in Texts /\ e \in Texts
      /\ f = [name |-> a, regex |-> e,
              look |-> [invisible |-> b, foreground |-> c, background |-> d]]
  <2>1. f \in [name : Texts, regex : Texts, look : Layouts]
    BY DEF IsFilter
  <2>2. f = [name |-> a, regex |-> e, look |-> f.look] /\ f.look \in Layouts
    BY <2>1
  <2>3. f.look = [invisible |-> b, foreground |-> c, background |-> d]
    BY <2>2 DEF Layouts
  <2> QED
    BY <2>1, <2>2, <2>3 DEF Layouts
<1>2. ~ Has(a, ":") /\ ~ Has(b, ":") /\ ~ Has(c, ":") /\ ~ Has(d, ":")
  <2>1. f.look \in Layouts /\ \A k \in DOMAIN f.look : ~ Has(f.look[k], ":")
    BY DEF IsFilter, IsLook
  <2>2. DOMAIN f.look = {"invisible", "foreground", "background"}
    BY <2>1 DEF Layouts
  <2> QED
    BY <2>1, <2>2 DEF IsFilter
<1>3. Fields(w, a, b, c, d, e)
  BY <1>1, WrittenFields DEF Written
<1>4. Read(w) = [name |-> Token(w, 1), regex |-> Token(w, 5),
                 look |-> [invisible |-> Token(w, 2), foreground |-> Token(w, 3),
                           background |-> Token(w, 4)]]
  BY DEF Read
<1> HIDE DEF w, a, b, c, d, e
<1>5. /\ Len(a) \in Nat /\ Len(b) \in Nat /\ Len(c) \in Nat /\ Len(d) \in Nat
      /\ Len(e) \in Nat
  BY <1>1, LenProperties DEF Texts
<1>6. /\ w \in Texts /\ Len(w) = p4 + Len(e)
      /\ w[p1] = ":" /\ w[p2] = ":" /\ w[p3] = ":" /\ w[p4] = ":"
      /\ \A i \in 1..Len(a) : w[i] = a[i]
      /\ \A i \in 1..Len(b) : w[p1 + i] = b[i]
      /\ \A i \in 1..Len(c) : w[p2 + i] = c[i]
      /\ \A i \in 1..Len(d) : w[p3 + i] = d[i]
      /\ \A i \in 1..Len(e) : w[p4 + i] = e[i]
  BY <1>3 DEF Fields
<1>p. /\ p1 = Len(a) + 1 /\ p2 = p1 + Len(b) + 1 /\ p3 = p2 + Len(c) + 1
      /\ p4 = p3 + Len(d) + 1
  OBVIOUS
<1> HIDE DEF p1, p2, p3, p4
<1>7. /\ \A i \in 1..Len(a) : a[i] # ":"
      /\ \A i \in 1..Len(b) : b[i] # ":"
      /\ \A i \in 1..Len(c) : c[i] # ":"
      /\ \A i \in 1..Len(d) : d[i] # ":"
  BY <1>1, <1>2, LenProperties DEF Texts, Has
<1>8. /\ p1 \in Nat /\ p2 \in Nat /\ p3 \in Nat /\ p4 \in Nat
      /\ p1 >= 1 /\ p1 < p2 /\ p2 < p3 /\ p3 < p4 /\ p4 <= Len(w)
      /\ Len(w) \in Nat
  BY <1>5, <1>6, <1>p
<1>9. ASSUME NEW i \in 1..p4, w[i] = ":" PROVE i \in {p1, p2, p3, p4}
  <2>1. CASE i < p1
    <3>1. i \in 1..Len(a)
      BY <1>5, <1>8, <1>p, <2>1
    <3> QED
      BY <1>6, <1>7, <1>9, <3>1
  <2>2. CASE p1 < i /\ i < p2
    <3>1. PICK k \in 1..Len(b) : p1 + k = i
      <4>1. i - p1 \in 1..Len(b) /\ p1 + (i - p1) = i
        BY <1>5, <1>8, <1>p, <2>2
      <4> QED
        BY <4>1
    <3>2. w[p1 + k] = b[k] /\ b[k] # ":"
      BY <1>6, <1>7
    <3> QED
      BY <1>9, <3>1, <3>2
  <2>3. CASE p2 < i /\ i < p3
    <3>1. PICK k \in 1..Len(c) : p2 + k = i
      <4>1. i - p2 \in 1..Len(c) /\ p2 + (i - p2) = i
        BY <1>5, <1>8, <1>p, <2>3
      <4> QED
        BY <4>1
    <3>2. w[p2 + k] = c[k] /\ c[k] # ":"
      BY <1>6, <1>7
    <3> QED
      BY <1>9, <3>1, <3>2
  <2>4. CASE p3 < i /\ i < p4
    <3>1. PICK k \in 1..Len(d) : p3 + k = i
      <4>1. i - p3 \in 1..Len(d) /\ p3 + (i - p3) = i
        BY <1>5, <1>8, <1>p, <2>4
      <4> QED
        BY <4>1
    <3>2. w[p3 + k] = d[k] /\ d[k] # ":"
      BY <1>6, <1>7
    <3> QED
      BY <1>9, <3>1, <3>2
  <2> QED
    BY <1>8, <2>1, <2>2, <2>3, <2>4
<1>10. /\ Cut(w, 1) = p1 /\ Cut(w, 2) = p2 /\ Cut(w, 3) = p3 /\ Cut(w, 4) = p4
  <2>1. /\ p1 \in 1..Len(w) /\ p2 \in 1..Len(w) /\ p3 \in 1..Len(w)
        /\ p4 \in 1..Len(w)
    BY <1>8
  <2>2. \A i \in 1..p4 : w[i] = ":" => i \in {p1, p2, p3, p4}
    BY <1>9
  <2>3. w \in Texts /\ w[p1] = ":" /\ w[p2] = ":" /\ w[p3] = ":" /\ w[p4] = ":"
    BY <1>6
  <2>4. p1 < p2 /\ p2 < p3 /\ p3 < p4
    BY <1>8
  <2> QED
    BY <2>1, <2>2, <2>3, <2>4, CutsAt
<1>11. /\ End(w, 1) = p1 /\ End(w, 2) = p2 /\ End(w, 3) = p3 /\ End(w, 4) = p4
       /\ End(w, 5) = Len(w) + 1
  BY <1>10 DEF End, MAX_TOKENS
<1>12. Token(w, 1) = a
  <2>1. Token(w, 1) = SubSeq(w, 1, p1 - 1)
    BY <1>11 DEF Token
  <2>2. \A i \in 1..Len(a) : w[0 + i] = a[i]
    BY <1>5, <1>6
  <2>3. SubSeq(w, 0 + 1, 0 + Len(a)) = a
    BY <1>1, <2>2, Segment
  <2>4. 0 + 1 = 1 /\ 0 + Len(a) = p1 - 1
    BY <1>5, <1>p
  <2> QED
    BY <2>1, <2>3, <2>4
<1>13. Token(w, 2) = b
  <2>1. Token(w, 2) = SubSeq(w, End(w, 1) + 1, End(w, 2) - 1)
    BY DEF Token
  <2>2. SubSeq(w, p1 + 1, p1 + Len(b)) = b
    BY <1>1, <1>6, <1>8, Segment
  <2>3. p1 + Len(b) = p2 - 1
    BY <1>5, <1>8, <1>p
  <2> QED
    BY <1>11, <2>1, <2>2, <2>3
<1>14. Token(w, 3) = c
  <2>1. Token(w, 3) = SubSeq(w, End(w, 2) + 1, End(w, 3) - 1)
    BY DEF Token
  <2>2. SubSeq(w, p2 + 1, p2 + Len(c)) = c
    BY <1>1, <1>6, <1>8, Segment
  <2>3. p2 + Len(c) = p3 - 1
    BY <1>5, <1>8, <1>p
  <2> QED
    BY <1>11, <2>1, <2>2, <2>3
<1>15. Token(w, 4) = d
  <2>1. Token(w, 4) = SubSeq(w, End(w, 3) + 1, End(w, 4) - 1)
    BY DEF Token
  <2>2. SubSeq(w, p3 + 1, p3 + Len(d)) = d
    BY <1>1, <1>6, <1>8, Segment
  <2>3. p3 + Len(d) = p4 - 1
    BY <1>5, <1>8, <1>p
  <2> QED
    BY <1>11, <2>1, <2>2, <2>3
<1>16. Token(w, 5) = e
  <2>1. Token(w, 5) = SubSeq(w, End(w, 4) + 1, End(w, 5) - 1)
    BY DEF Token
  <2>2. SubSeq(w, p4 + 1, p4 + Len(e)) = e
    BY <1>1, <1>6, <1>8, Segment
  <2>3. End(w, 4) + 1 = p4 + 1 /\ End(w, 5) - 1 = p4 + Len(e)
    BY <1>5, <1>6, <1>8, <1>11
  <2> QED
    BY <2>1, <2>2, <2>3
<1>17. Read(w) = f
  BY <1>1, <1>4, <1>12, <1>13, <1>14, <1>15, <1>16
<1> QED
  BY <1>17 DEF w

-----------------------------------------------------------------------------
(* The filters.                                                            *)

FilterSet == {f \in [name : Texts, regex : Texts, look : Layouts] : IsFilter(f)}

(* What is true of the menu, the tags and the filters that are on, with    *)
(* the dialog open or not: whatever has been made of the table since, the  *)
(* menu names what is on, and every tag that is not the window's own, so   *)
(* that making it anew takes them all off.                                 *)
TagsInv ==
  /\ \A f \in active_filters : f \in DOMAIN made /\ made[f].name \in menu
  /\ tagged \subseteq active_filters
  /\ \A t \in tag_table : t[1] \in BuiltIn \cup menu
  /\ \A name \in menu : \E t \in tag_table : t[1] = name
  /\ \A t, u \in tag_table : t[1] = u[1] => t = u

OwnTags == {t \in tag_table : t[1] \notin BuiltIn}

InTable ==
  /\ active_filters \subseteq filters
  /\ menu = {made[f].name : f \in filters}
  /\ OwnTags = {TagOf(f) : f \in {g \in filters : made[g].name \notin BuiltIn}}

(* The table of the preferences. *)
TableInv ==
  /\ made \in Seq(FilterSet)
  /\ filters \subseteq DOMAIN made
  /\ \A f, g \in filters : made[f].name = made[g].name => f = g
  /\ saved = Saved(filters, made)
  /\ dialog \in [at : {"closed", "open", "form"}, old_name : Texts]

FiltersInv == TableInv /\ TagsInv /\ (dialog.at = "closed" => InTable)

LEMMA FiltersInStepHolds == FiltersInv => FiltersInStep
<1> SUFFICES ASSUME FiltersInv PROVE FiltersInStep
  OBVIOUS
<1>1. ASSUME NEW f \in filters PROVE Read(Written(made[f])) = made[f]
  <2>1. made[f] \in FilterSet
    BY LenProperties, ElementOfSeq DEF FiltersInv, TableInv
  <2> QED
    BY <2>1, ReadAsWritten, TextsAssumption DEF FilterSet
<1>2. {Read(s) : s \in saved} = {made[f] : f \in filters}
  BY <1>1 DEF FiltersInv, TableInv, Saved
<1> QED
  BY <1>2 DEF FiltersInv, TagsInv, InTable, OwnTags, FiltersInStep

(* The tags after those of the filters were offered to a table that has    *)
(* one for a name.                                                         *)
LEMMA TagsAdded ==
  ASSUME NEW tags,
         \A t, u \in tags : t[1] = u[1] => t = u,
         \A t \in tags : t[1] \in BuiltIn,
         \A f, g \in filters : made[f].name = made[g].name => f = g
  PROVE  /\ \A t, u \in Added(tags) : t[1] = u[1] => t = u
         /\ \A f \in filters : \E t \in Added(tags) : t[1] = made[f].name
         /\ \A t \in Added(tags) : t[1] \in BuiltIn \cup {made[f].name : f \in filters}
         /\ {t \in Added(tags) : t[1] \notin BuiltIn} =
              {TagOf(f) : f \in {g \in filters : made[g].name \notin BuiltIn}}
<1> DEFINE new == {t \in {TagOf(f) : f \in filters} : \A u \in tags : u[1] # t[1]}
<1>1. Added(tags) = tags \cup new
  BY DEF Added
<1>2. \A f : TagOf(f)[1] = made[f].name /\ TagOf(f)[2] = f
  BY DEF TagOf
<1>3. \A t \in new : \E f \in filters : t = TagOf(f) /\ t[1] = made[f].name
  BY <1>2
<1>4. \A t, u \in new : t[1] = u[1] => t = u
  BY <1>3
<1>5. \A t \in new, u \in tags : t[1] # u[1]
  OBVIOUS
<1>6. \A t, u \in Added(tags) : t[1] = u[1] => t = u
  <2> HIDE DEF new
  <2> QED
    BY <1>1, <1>4, <1>5
<1>7. ASSUME NEW f \in filters PROVE \E t \in Added(tags) : t[1] = made[f].name
  <2>1. CASE \E u \in tags : u[1] = TagOf(f)[1]
    BY <1>1, <1>2, <2>1
  <2>2. CASE \A u \in tags : u[1] # TagOf(f)[1]
    <3>1. TagOf(f) \in new
      BY <2>2
    <3> QED
      BY <1>1, <1>2, <3>1
  <2> QED
    BY <2>1, <2>2
<1>8. ASSUME NEW t \in Added(tags)
      PROVE  t[1] \in BuiltIn \cup {made[f].name : f \in filters}
  BY <1>1, <1>3
<1>9. ASSUME NEW t \in Added(tags), t[1] \notin BuiltIn
      PROVE  \E f \in filters : made[f].name \notin BuiltIn /\ t = TagOf(f)
  <2>1. t \in new
    BY <1>1, <1>9
  <2> QED
    BY <1>3, <1>9, <2>1
<1>10. ASSUME NEW f \in filters, made[f].name \notin BuiltIn
       PROVE  TagOf(f) \in Added(tags) /\ TagOf(f)[1] \notin BuiltIn
  <2>1. \A u \in tags : u[1] # TagOf(f)[1]
    BY <1>2, <1>10
  <2>2. TagOf(f) \in new
    BY <2>1
  <2> QED
    BY <1>1, <1>2, <1>10, <2>2
<1> HIDE DEF new
<1>11. {t \in Added(tags) : t[1] \notin BuiltIn} =
         {TagOf(f) : f \in {g \in filters : made[g].name \notin BuiltIn}}
  BY <1>9, <1>10
<1> QED
  BY <1>6, <1>7, <1>8, <1>11

LEMMA FiltersAtStart == FiltersInit => FiltersInv
<1> SUFFICES ASSUME FiltersInit PROVE FiltersInv
  OBVIOUS
<1>1. /\ made \in Seq(Loaded) /\ Range(made) = Loaded
      /\ \A i, j \in DOMAIN made : made[i] = made[j] => i = j
  BY InSomeOrder, LoadedAssumption DEF FiltersInit
<1>2. Loaded \subseteq FilterSet
  BY LoadedAssumption DEF FilterSet, IsFilter
<1>3. made \in Seq(FilterSet)
  BY <1>1, <1>2, SeqMonotonic
<1>4. filters = DOMAIN made /\ \A f \in filters : made[f] \in Loaded
  BY <1>1 DEF FiltersInit, Range
<1>5. \A f, g \in filters : made[f].name = made[g].name => f = g
  BY <1>1, <1>4, LoadedAssumption
<1>6. menu = {made[f].name : f \in filters}
  <2>1. menu = {f.name : f \in Range(made)} /\ filters = DOMAIN made
    BY <1>1 DEF FiltersInit
  <2> QED
    BY <2>1 DEF Range
<1>7. TableInv
  BY <1>3, <1>4, <1>5 DEF FiltersInit, TableInv, Texts
<1>8. /\ \A t, u \in BuiltInTags : t[1] = u[1] => t = u
      /\ \A t \in BuiltInTags : t[1] \in BuiltIn
  BY DEF BuiltInTags
<1>9. /\ \A t, u \in tag_table : t[1] = u[1] => t = u
      /\ \A f \in filters : \E t \in tag_table : t[1] = made[f].name
      /\ \A t \in tag_table : t[1] \in BuiltIn \cup {made[f].name : f \in filters}
      /\ OwnTags = {TagOf(f) : f \in {g \in filters : made[g].name \notin BuiltIn}}
  <2>1. tag_table = Added(BuiltInTags)
    BY DEF FiltersInit
  <2> QED
    BY <1>5, <1>8, <2>1, TagsAdded DEF OwnTags
<1>10. active_filters = {} /\ tagged = {}
  BY DEF FiltersInit
<1>11. TagsInv
  BY <1>6, <1>9, <1>10 DEF TagsInv
<1>12. InTable
  BY <1>6, <1>9, <1>10 DEF InTable
<1> QED
  BY <1>7, <1>11, <1>12 DEF FiltersInv

(* Another view of the same filters. *)
LEMMA ViewChanges ==
  ASSUME FiltersInv, UNCHANGED <<table, dialog, switch>>, tagged' \subseteq active_filters
  PROVE  FiltersInv'
<1>1. /\ made' = made /\ filters' = filters /\ saved' = saved /\ dialog' = dialog
      /\ menu' = menu /\ tag_table' = tag_table /\ active_filters' = active_filters
  BY DEF table, switch
<1> QED
  BY <1>1 DEF FiltersInv, TableInv, TagsInv, InTable, OwnTags, Saved, TagOf

(* What the dialog does while it is open leaves the menu, the tags and the *)
(* filters that are on as they were, and never forgets a filter.           *)
LEMMA DialogChanges ==
  ASSUME FiltersInv, UNCHANGED <<switch, view>>,
         TableInv', dialog'.at # "closed",
         \A f \in DOMAIN made : f \in DOMAIN made' /\ made'[f] = made[f]
  PROVE  FiltersInv'
<1>1. /\ menu' = menu /\ tag_table' = tag_table /\ active_filters' = active_filters
      /\ tagged' = tagged
  BY DEF switch, view
<1>2. TagsInv'
  BY <1>1 DEF FiltersInv, TagsInv
<1> QED
  BY <1>2 DEF FiltersInv

LEMMA FilterStep ==
  ASSUME FiltersInv, FiltersNext
  PROVE  FiltersInv'
<1> USE DEF table, switch, view
<1>1. ASSUME NEW name \in menu, FilterToggled(name) PROVE FiltersInv'
  <2>1. /\ made' = made /\ filters' = filters /\ saved' = saved /\ dialog' = dialog
        /\ menu' = menu /\ tag_table' = tag_table /\ InTable
    BY <1>1 DEF FilterToggled, FiltersInv
  <2>2. Named(name) \subseteq filters /\ \A f \in Named(name) : made[f].name = name
    BY DEF Named
  <2>3. active_filters' \subseteq active_filters \cup Named(name)
    BY <1>1 DEF FilterToggled
  <2>4. tagged' \subseteq active_filters'
    BY <1>1 DEF FilterToggled, FilterBuffer, FiltersInv, TagsInv
  <2>5. TableInv'
    BY <2>1 DEF FiltersInv, TableInv, Saved
  <2>6. \A f \in active_filters' : f \in DOMAIN made /\ made[f].name \in menu
    BY <1>1, <2>2, <2>3 DEF FiltersInv, TagsInv, TableInv
  <2>7. TagsInv'
    BY <2>1, <2>4, <2>6 DEF FiltersInv, TagsInv
  <2>8. active_filters' \subseteq filters
    BY <2>1, <2>2, <2>3 DEF InTable
  <2>9. InTable'
    BY <2>1, <2>8 DEF InTable, OwnTags, TagOf
  <2> QED
    BY <2>5, <2>7, <2>9 DEF FiltersInv
<1>2. CASE ToggleMatchFilters
  <2>1. UNCHANGED <<table, dialog, menu, tag_table, active_filters>>
    BY <1>2 DEF ToggleMatchFilters
  <2>2. tagged' \subseteq active_filters
    BY <1>2 DEF ToggleMatchFilters, FilterBuffer, FiltersInv, TagsInv
  <2> QED
    BY <2>1, <2>2 DEF FiltersInv, TableInv, TagsInv, InTable, OwnTags, Saved, TagOf
<1>3. CASE ManageFilters
  <2>1. /\ made' = made /\ filters' = filters /\ saved' = saved
        /\ dialog' = [dialog EXCEPT !.at = "open"] /\ UNCHANGED <<switch, view>>
    BY <1>3 DEF ManageFilters
  <2>2. /\ dialog' \in [at : {"closed", "open", "form"}, old_name : Texts]
        /\ dialog'.at = "open"
    BY <2>1 DEF FiltersInv, TableInv
  <2>3. TableInv'
    BY <2>1, <2>2 DEF FiltersInv, TableInv, Saved
  <2> QED
    BY <2>1, <2>2, <2>3, DialogChanges
<1>4. CASE CloseManager
  <2>1. /\ made' = made /\ filters' = filters /\ saved' = saved
        /\ menu' = {made[f].name : f \in filters}
        /\ tag_table' = Added(Unlisted(tag_table))
        /\ tagged' = {f \in tagged : TagOf(f) \in Unlisted(tag_table)}
        /\ active_filters' = {}
        /\ dialog' = [dialog EXCEPT !.at = "closed"]
    BY <1>4 DEF CloseManager, TagsRenewed, NoneActive
  <2>2. TableInv'
    BY <2>1 DEF FiltersInv, TableInv, Saved
  <2>3. /\ \A t, u \in Unlisted(tag_table) : t[1] = u[1] => t = u
        /\ \A t \in Unlisted(tag_table) : t[1] \in BuiltIn
    BY DEF Unlisted, FiltersInv, TagsInv
  <2>4. tagged' = {}
    <3>1. \A f \in tagged : made[f].name \in menu
      BY DEF FiltersInv, TagsInv
    <3>2. \A f \in tagged : TagOf(f) \notin Unlisted(tag_table)
      BY <3>1 DEF Unlisted, TagOf
    <3> QED
      BY <2>1, <3>2
  <2>5. \A f, g \in filters : made[f].name = made[g].name => f = g
    BY DEF FiltersInv, TableInv
  <2>6. /\ \A t, u \in tag_table' : t[1] = u[1] => t = u
        /\ \A f \in filters : \E t \in tag_table' : t[1] = made[f].name
        /\ \A t \in tag_table' : t[1] \in BuiltIn \cup {made[f].name : f \in filters}
        /\ {t \in tag_table' : t[1] \notin BuiltIn} =
             {TagOf(f) : f \in {g \in filters : made[g].name \notin BuiltIn}}
    BY <2>1, <2>3, <2>5, TagsAdded
  <2>7. TagsInv'
    BY <2>1, <2>4, <2>6 DEF TagsInv
  <2>8. InTable'
    BY <2>1, <2>6 DEF InTable, OwnTags, TagOf
  <2> QED
    BY <2>2, <2>7, <2>8 DEF FiltersInv
<1>5. CASE CancelForm
  <2>1. /\ made' = made /\ filters' = filters /\ saved' = saved
        /\ UNCHANGED <<switch, view>> /\ dialog' = [at |-> "open", old_name |-> <<>>]
    BY <1>5 DEF CancelForm
  <2>2. /\ dialog' \in [at : {"closed", "open", "form"}, old_name : Texts]
        /\ dialog'.at = "open"
    BY <2>1 DEF Texts
  <2>3. TableInv'
    BY <2>1, <2>2 DEF FiltersInv, TableInv, Saved
  <2> QED
    BY <2>1, <2>2, <2>3, DialogChanges
<1>6. ASSUME NEW name \in Typed, EditFilter(name) PROVE FiltersInv'
  <2>1. /\ made' = made /\ filters' = filters /\ saved' = saved
        /\ UNCHANGED <<switch, view>> /\ dialog' = [at |-> "form", old_name |-> name]
    BY <1>6 DEF EditFilter
  <2>2. /\ dialog' \in [at : {"closed", "open", "form"}, old_name : Texts]
        /\ dialog'.at = "form"
    BY <2>1, TextsAssumption
  <2>3. TableInv'
    BY <2>1, <2>2 DEF FiltersInv, TableInv, Saved
  <2> QED
    BY <2>1, <2>2, <2>3, DialogChanges
<1>7. ASSUME NEW name \in Typed, RemoveFilter(name) PROVE FiltersInv'
  <2>1. /\ made' = made /\ filters' = filters \ Named(name)
        /\ saved' = Saved(filters', made) /\ dialog' = dialog
        /\ UNCHANGED <<switch, view>> /\ dialog.at = "open"
    BY <1>7 DEF RemoveFilter
  <2>2. TableInv'
    BY <2>1 DEF FiltersInv, TableInv, Saved
  <2> QED
    BY <2>1, <2>2, DialogChanges
<1>8. ASSUME NEW name \in Typed, NEW regex \in Regexes, NEW look \in Looks,
             Apply(name, regex, look)
      PROVE  FiltersInv'
  <2> DEFINE f == [name |-> name, regex |-> regex, look |-> look]
  <2>1. /\ made' = Append(made, f) /\ filters' = LeftBy(name) \cup {Len(made')}
        /\ saved' = Saved(filters', made')
        /\ dialog' = [at |-> "open", old_name |-> <<>>]
        /\ UNCHANGED <<switch, view>> /\ ~ Has(name, ":")
    BY <1>8 DEF Apply, CheckName
  <2>2. f \in FilterSet /\ f.name = name
    <3>1. IsLook(look) /\ name \in Texts /\ regex \in Texts
      BY TextsAssumption
    <3> QED
      BY <2>1, <3>1 DEF FilterSet, IsFilter, IsLook
  <2> HIDE DEF f
  <2>3. made \in Seq(FilterSet) /\ Len(made) \in Nat /\ DOMAIN made = 1..Len(made)
    BY LenProperties DEF FiltersInv, TableInv
  <2>4. /\ made' \in Seq(FilterSet) /\ Len(made') = Len(made) + 1
        /\ DOMAIN made' = 1..(Len(made) + 1)
        /\ \A g \in DOMAIN made : made'[g] = made[g]
        /\ made'[Len(made')] = f
    BY <2>1, <2>2, <2>3, AppendProperties, LenProperties
  <2>5. /\ LeftBy(name) \subseteq filters /\ filters \subseteq DOMAIN made
        /\ \A g \in LeftBy(name) : made[g].name # name
    BY DEF LeftBy, Named, FiltersInv, TableInv
  <2>6. filters' \subseteq DOMAIN made' /\ \A g \in DOMAIN made : g \in DOMAIN made'
    BY <2>1, <2>3, <2>4, <2>5
  <2>7. ASSUME NEW g \in filters', NEW h \in filters', made'[g].name = made'[h].name
        PROVE  g = h
    <3>1. CASE g \in LeftBy(name) /\ h \in LeftBy(name)
      BY <2>4, <2>5, <2>7, <3>1 DEF FiltersInv, TableInv
    <3>2. CASE g \notin LeftBy(name)
      BY <2>1, <2>2, <2>4, <2>5, <2>7, <3>2
    <3>3. CASE h \notin LeftBy(name)
      BY <2>1, <2>2, <2>4, <2>5, <2>7, <3>3
    <3> QED
      BY <3>1, <3>2, <3>3
  <2>8. /\ dialog' \in [at : {"closed", "open", "form"}, old_name : Texts]
        /\ dialog'.at = "open"
    BY <2>1 DEF Texts
  <2>9. TableInv'
    BY <2>1, <2>4, <2>6, <2>7, <2>8 DEF TableInv, Saved
  <2> QED
    BY <2>1, <2>4, <2>6, <2>8, <2>9, DialogChanges
<1> QED
  BY <1>1, <1>2, <1>3, <1>4, <1>5, <1>6, <1>7, <1>8 DEF FiltersNext

-----------------------------------------------------------------------------
(* The loads.                                                              *)

LoadSet == [file : Files, set_active : {0, 1}, is_multiple : {0, 1}]

(* The loads that the operation counts. *)
Many(ls) == {i \in DOMAIN ls : ls[i].is_multiple = 1}

Once(ls, f) ==
  \A i, j \in DOMAIN ls : ls[i].file = f /\ ls[j].file = f => i = j

LEMMA ManyIsFinite ==
  ASSUME NEW s \in Seq(LoadSet)
  PROVE  IsFiniteSet(Many(s)) /\ Cardinality(Many(s)) \in Nat
<1>1. Len(s) \in Nat /\ DOMAIN s = 1..Len(s)
  BY LenProperties
<1>2. IsFiniteSet(1..Len(s)) /\ Many(s) \subseteq 1..Len(s)
  BY <1>1, FS_Interval DEF Many
<1>3. IsFiniteSet(Many(s))
  BY <1>2, FS_Subset
<1> QED
  BY <1>3, FS_CardinalityType

(* The loads of names, one each and all counted. *)
LEMMA LoadsOfNames ==
  ASSUME NEW q \in Seq(Files), NEW active
  PROVE  /\ Loads(q, active) \in Seq(LoadSet)
         /\ Len(Loads(q, active)) = Len(q)
         /\ DOMAIN Loads(q, active) = DOMAIN q
         /\ \A i \in DOMAIN q : /\ Loads(q, active)[i].file = q[i]
                                /\ Loads(q, active)[i].is_multiple = 1
         /\ Cardinality(Many(Loads(q, active))) = Len(q)
<1> DEFINE ls == Loads(q, active)
<1>1. Len(q) \in Nat /\ DOMAIN q = 1..Len(q) /\ \A i \in DOMAIN q : q[i] \in Files
  BY LenProperties, ElementOfSeq
<1>2. \A i \in DOMAIN q : Load(q[i], IF q[i] = active THEN 1 ELSE 0, 1) \in LoadSet
  BY <1>1 DEF Load, LoadSet
<1>3. ls \in [1..Len(q) -> LoadSet]
  BY <1>1, <1>2 DEF Loads
<1>4. ls \in Seq(LoadSet) /\ Len(ls) = Len(q) /\ DOMAIN ls = DOMAIN q
  BY <1>1, <1>3, SeqDef
<1>5. \A i \in DOMAIN q : ls[i].file = q[i] /\ ls[i].is_multiple = 1
  BY DEF Loads, Load
<1> HIDE DEF ls
<1>6. Many(ls) = 1..Len(q)
  BY <1>1, <1>4, <1>5 DEF Many
<1>7. Cardinality(1..Len(q)) = Len(q)
  BY <1>1, FS_Interval
<1> QED
  BY <1>4, <1>5, <1>6, <1>7 DEF ls

(* A load ends. *)
LEMMA OneEnds ==
  ASSUME NEW s \in Seq(LoadSet), NEW i \in DOMAIN s,
         NEW t, t = RemoveAt(s, i)
  PROVE  /\ t \in Seq(LoadSet)
         /\ \A j \in DOMAIN t : \E k \in DOMAIN s : k # i /\ t[j] = s[k]
         /\ \A k \in DOMAIN s : k # i => \E j \in DOMAIN t : t[j] = s[k]
         /\ \A f : Once(s, f) => Once(t, f)
         /\ Once(s, s[i].file) => \A j \in DOMAIN t : t[j].file # s[i].file
         /\ Cardinality(Many(t)) = IF s[i].is_multiple = 1
                                   THEN Cardinality(Many(s)) - 1
                                   ELSE Cardinality(Many(s))
<1>1. Len(s) \in Nat /\ DOMAIN s = 1..Len(s) /\ i \in 1..Len(s)
  BY LenProperties
<1>2. /\ t \in Seq(LoadSet) /\ DOMAIN t = 1..(Len(s) - 1)
      /\ \A j \in 1..(Len(s) - 1) : t[j] = s[IF j < i THEN j ELSE j + 1]
  BY Removing
<1> DEFINE at(j) == IF j < i THEN j ELSE j + 1
<1>3. \A j \in DOMAIN t : at(j) \in DOMAIN s /\ at(j) # i /\ t[j] = s[at(j)]
  BY <1>1, <1>2
<1>4. \A j, k \in DOMAIN t : at(j) = at(k) => j = k
  BY <1>1, <1>2
<1>5. ASSUME NEW k \in DOMAIN s, k # i
      PROVE  \E j \in DOMAIN t : at(j) = k
  <2>1. CASE k < i
    BY <1>1, <1>2, <2>1
  <2>2. CASE ~ (k < i)
    <3>1. k - 1 \in DOMAIN t /\ at(k - 1) = k
      BY <1>1, <1>2, <1>5, <2>2
    <3> QED
      BY <3>1
  <2> QED
    BY <2>1, <2>2
<1> HIDE DEF at
<1>6. \A j \in DOMAIN t : \E k \in DOMAIN s : k # i /\ t[j] = s[k]
  BY <1>3
<1>7. \A k \in DOMAIN s : k # i => \E j \in DOMAIN t : t[j] = s[k]
  BY <1>3, <1>5
<1>8. ASSUME NEW f, Once(s, f) PROVE Once(t, f)
  BY <1>3, <1>4, <1>8 DEF Once
<1>9. ASSUME Once(s, s[i].file), NEW j \in DOMAIN t PROVE t[j].file # s[i].file
  BY <1>3, <1>9 DEF Once
<1>10. Cardinality(Many(t)) = Cardinality(Many(s) \ {i})
  <2> DEFINE a == Many(t)
             b == Many(s) \ {i}
             g == [j \in a |-> at(j)]
  <2>1. g \in [a -> b]
    BY <1>3 DEF Many
  <2>2. \A j, k \in a : g[j] = g[k] => j = k
    BY <1>4 DEF Many
  <2>3. \A k \in b : \E j \in a : g[j] = k
    BY <1>3, <1>5 DEF Many
  <2> HIDE DEF g
  <2>4. g \in Bijection(a, b)
    BY <2>1, <2>2, <2>3 DEF Bijection, Injection, Surjection, IsInjective
  <2>5. ExistsBijection(a, b)
    BY <2>4 DEF ExistsBijection
  <2>6. IsFiniteSet(a)
    BY <1>2, ManyIsFinite
  <2> HIDE DEF a, b
  <2>7. Cardinality(b) = Cardinality(a)
    BY <2>5, <2>6, FS_Bijection
  <2> QED
    BY <2>7 DEF a, b
<1>11. Cardinality(Many(s) \ {i}) = IF s[i].is_multiple = 1
                                    THEN Cardinality(Many(s)) - 1
                                    ELSE Cardinality(Many(s))
  <2>1. i \in Many(s) <=> s[i].is_multiple = 1
    BY DEF Many
  <2> QED
    BY <2>1, ManyIsFinite, FS_RemoveElement
<1> QED
  BY <1>2, <1>6, <1>7, <1>8, <1>9, <1>10, <1>11

(* One load more, which is not counted. *)
OneBegun(s, l, t) ==
  /\ t \in Seq(LoadSet)
  /\ \A k \in DOMAIN s : k \in DOMAIN t /\ t[k] = s[k]
  /\ \A j \in DOMAIN t : (j \in DOMAIN s /\ t[j] = s[j]) \/ t[j] = l
  /\ \A f : f # l.file /\ Once(s, f) => Once(t, f)
  /\ (\A k \in DOMAIN s : s[k].file # l.file) => Once(t, l.file)
  /\ Many(t) = Many(s)

(* A load of a file is begun that is not counted. *)
LEMMA OneBegins ==
  ASSUME NEW s \in Seq(LoadSet), NEW l \in LoadSet, l.is_multiple = 0,
         NEW t, t = Append(s, l)
  PROVE  OneBegun(s, l, t)
<1>1. Len(s) \in Nat /\ DOMAIN s = 1..Len(s)
  BY LenProperties
<1>2. /\ t \in Seq(LoadSet) /\ DOMAIN t = 1..(Len(s) + 1)
      /\ \A j \in 1..Len(s) : t[j] = s[j]
      /\ t[Len(s) + 1] = l
  BY <1>1, AppendProperties, LenProperties
<1>3. \A k \in DOMAIN s : k \in DOMAIN t /\ t[k] = s[k]
  BY <1>1, <1>2
<1>4. \A j \in DOMAIN t : j \in DOMAIN s \/ j = Len(s) + 1
  BY <1>1, <1>2
<1>5. Many(t) = Many(s)
  BY <1>2, <1>3, <1>4 DEF Many
<1>6. \A f : f # l.file /\ Once(s, f) => Once(t, f)
  BY <1>2, <1>3, <1>4 DEF Once
<1>7. (\A k \in DOMAIN s : s[k].file # l.file) => Once(t, l.file)
  BY <1>2, <1>3, <1>4 DEF Once
<1> QED
  BY <1>2, <1>3, <1>4, <1>5, <1>6, <1>7 DEF OneBegun

(* The loads of some files more, all counted. *)
ManyBegun(s, M, t) ==
  /\ t \in Seq(LoadSet)
  /\ \A k \in DOMAIN s : k \in DOMAIN t /\ t[k] = s[k]
  /\ \A j \in DOMAIN t : (j \in DOMAIN s /\ t[j] = s[j]) \/ t[j].file \in M
  /\ \A f \in M : \E j \in DOMAIN t : t[j].file = f /\ t[j].is_multiple = 1
  /\ \A f : f \notin M /\ Once(s, f) => Once(t, f)
  /\ \A f \in M : (\A k \in DOMAIN s : s[k].file # f) => Once(t, f)
  /\ Cardinality(Many(t)) = Cardinality(M)

(* The loads of the files that were found, behind those the user began.    *)
LEMMA ManyBegin ==
  ASSUME NEW s \in Seq(LoadSet), Many(s) = {},
         NEW M \in SUBSET Files, NEW active,
         NEW t, t = s \o Loads(SetToSeq(M), active)
  PROVE  ManyBegun(s, M, t)
<1> DEFINE q == SetToSeq(M)
           b == Loads(q, active)
           n == Cardinality(M)
<1>1. IsFiniteSet(M)
  BY FilesAssumption, FS_Subset
<1>2. /\ q \in Seq(M) /\ Len(q) = n /\ n \in Nat /\ DOMAIN q = 1..n
      /\ \A i, j \in DOMAIN q : q[i] = q[j] => i = j
      /\ Range(q) = M
  BY <1>1, InSomeOrder
<1> HIDE DEF q
<1>3. q \in Seq(Files)
  BY <1>2, SeqMonotonic
<1>4. /\ b \in Seq(LoadSet) /\ Len(b) = n /\ DOMAIN b = 1..n
      /\ \A i \in 1..n : b[i].file = q[i] /\ b[i].is_multiple = 1
  BY <1>2, <1>3, LoadsOfNames
<1> HIDE DEF b, n
<1>5. Len(s) \in Nat /\ DOMAIN s = 1..Len(s)
  BY LenProperties
<1>6. /\ t \in Seq(LoadSet) /\ DOMAIN t = 1..(Len(s) + n)
      /\ \A i \in 1..(Len(s) + n) :
           t[i] = IF i <= Len(s) THEN s[i] ELSE b[i - Len(s)]
  <2>1. t = s \o b
    BY DEF b, q
  <2>2. /\ s \o b \in Seq(LoadSet) /\ Len(s \o b) = Len(s) + Len(b)
        /\ \A i \in 1..(Len(s) + Len(b)) :
             (s \o b)[i] = IF i <= Len(s) THEN s[i] ELSE b[i - Len(s)]
    BY <1>4, ConcatProperties
  <2> QED
    BY <1>4, <2>1, <2>2, LenProperties
<1>7. \A k \in DOMAIN s : k \in DOMAIN t /\ t[k] = s[k]
  BY <1>2, <1>5, <1>6
<1>8. ASSUME NEW j \in DOMAIN t, j \notin DOMAIN s
      PROVE  /\ j - Len(s) \in 1..n /\ t[j] = b[j - Len(s)]
             /\ t[j].file = q[j - Len(s)] /\ t[j].is_multiple = 1
  <2>1. j - Len(s) \in 1..n /\ ~ (j <= Len(s)) /\ j \in 1..(Len(s) + n)
    BY <1>2, <1>5, <1>6, <1>8
  <2>2. t[j] = b[j - Len(s)]
    BY <1>6, <2>1
  <2> QED
    BY <1>4, <2>1, <2>2
<1>9. \A i \in 1..n : q[i] \in M
  BY <1>2, ElementOfSeq
<1>10. \A j \in DOMAIN t : (j \in DOMAIN s /\ t[j] = s[j]) \/ t[j].file \in M
  BY <1>7, <1>8, <1>9
<1>11. ASSUME NEW f \in M
       PROVE  \E j \in DOMAIN t : t[j].file = f /\ t[j].is_multiple = 1
  <2>1. PICK i \in 1..n : q[i] = f
    BY <1>2 DEF Range
  <2>2. /\ Len(s) + i \in DOMAIN t /\ Len(s) + i \notin DOMAIN s
        /\ Len(s) + i - Len(s) = i
    BY <1>2, <1>5, <1>6
  <2>3. t[Len(s) + i].file = f /\ t[Len(s) + i].is_multiple = 1
    BY <1>8, <2>1, <2>2
  <2> QED
    BY <2>2, <2>3
<1>12. ASSUME NEW f, f \notin M, Once(s, f) PROVE Once(t, f)
  BY <1>7, <1>8, <1>9, <1>12 DEF Once
<1>13. ASSUME NEW f \in M, \A k \in DOMAIN s : s[k].file # f PROVE Once(t, f)
  <2>1. \A i, j \in DOMAIN t : t[i].file = f /\ t[j].file = f => i - Len(s) = j - Len(s)
    BY <1>2, <1>7, <1>8, <1>13
  <2>2. \A i, j \in DOMAIN t : i - Len(s) = j - Len(s) => i = j
    BY <1>2, <1>5, <1>6
  <2> QED
    BY <2>1, <2>2 DEF Once
<1>14. Many(t) = (Len(s) + 1)..(Len(s) + n)
  <2>1. \A i \in DOMAIN s : s[i].is_multiple # 1
    BY DEF Many
  <2>2. \A i : i \in DOMAIN t /\ i \notin DOMAIN s <=> i \in (Len(s) + 1)..(Len(s) + n)
    BY <1>2, <1>5, <1>6
  <2> QED
    BY <1>7, <1>8, <2>1, <2>2 DEF Many
<1>15. Cardinality((Len(s) + 1)..(Len(s) + n)) = n
  BY <1>2, <1>5, FS_Interval
<1> QED
  BY <1>6, <1>7, <1>10, <1>11, <1>12, <1>13, <1>14, <1>15 DEF n, ManyBegun

-----------------------------------------------------------------------------
(* The manager, its list and the settings.                                 *)

ManagerTypes ==
  /\ file_of \in Seq(Files)
  /\ logs \in [Files -> Nat]
  /\ \A f \in Files : logs[f] # 0 => logs[f] \in DOMAIN file_of
  /\ rows \subseteq DOMAIN file_of
  /\ active_log \in DOMAIN file_of \cup {0}
  /\ loads \in Seq(LoadSet)
  /\ op \in Op \cup {None}
  /\ stored \subseteq Files /\ named \subseteq Files /\ hurried \subseteq Files

(* The operation is there as long as a load that it counts, and none       *)
(* before the system's logs have been found.                               *)
EndsWithItsLoads ==
  /\ op = None => Many(loads) = {}
  /\ op # None => Cardinality(Many(loads)) + op.current <= op.total
  /\ enumerating = 1 => op = None /\ named = {}

ForStart(f) ==
  \E i \in DOMAIN loads : loads[i].file = f /\ loads[i].is_multiple = 1

Failed(f) == op # None /\ f \in op.errors

(* What holds of a file that nobody opened or closed at a bad moment: its  *)
(* row is the table's log; it is loaded by one thread at most, and only    *)
(* while it is not open; it is stored if it is open and then it has not    *)
(* failed; and if the program was started with it and it is stored, it is  *)
(* open, or is being loaded for the start, or will be dropped with the     *)
(* files that failed.                                                      *)
InStep(f) ==
  /\ {l \in rows : file_of[l] = f} = {logs[f]} \ {0}
  /\ Once(loads, f)
  /\ Loading(f) => logs[f] = 0
  /\ logs[f] # 0 => f \in stored
  /\ Failed(f) => logs[f] = 0 /\ ~ Loading(f)
  /\ f \in named /\ f \in stored =>
       \/ logs[f] # 0
       \/ ForStart(f)
       \/ Failed(f)

ManagerInv ==
  ManagerTypes /\ EndsWithItsLoads /\ \A f \in Files \ hurried : InStep(f)

LEMMA RowsHold == ManagerInv => RowsAreTheManagers
  BY DEF ManagerInv, InStep, RowsAreTheManagers

LEMMA NextStartHolds == ManagerInv => NextStartOpensThese
<1> SUFFICES ASSUME ManagerInv, op = None, loads = <<>>
             PROVE  LET open == {file_of[l] : l \in rows}
                    IN  /\ open \subseteq hurried \cup stored
                        /\ named \cap stored \subseteq hurried \cup open
  BY DEF NextStartOpensThese
<1> DEFINE open == {file_of[l] : l \in rows}
<1>1. ASSUME NEW l \in rows PROVE file_of[l] \in hurried \cup stored
  <2>1. file_of[l] \in Files /\ DOMAIN file_of \subseteq Nat \ {0}
    BY LenProperties, ElementOfSeq DEF ManagerInv, ManagerTypes
  <2>2. CASE file_of[l] \notin hurried
    <3>1. l \in {logs[file_of[l]]} \ {0}
      BY <2>1, <2>2 DEF ManagerInv, InStep
    <3> QED
      BY <2>1, <2>2, <3>1 DEF ManagerInv, InStep
  <2> QED
    BY <2>2
<1>2. ASSUME NEW f \in named, f \in stored, f \notin hurried PROVE f \in open
  <2>1. f \in Files
    BY DEF ManagerInv, ManagerTypes
  <2>2. ~ ForStart(f) /\ ~ Failed(f)
    BY DEF ForStart, Failed
  <2>3. logs[f] # 0
    BY <1>2, <2>1, <2>2 DEF ManagerInv, InStep
  <2>4. logs[f] \in {l \in rows : file_of[l] = f}
    BY <1>2, <2>1, <2>3 DEF ManagerInv, InStep
  <2> QED
    BY <2>4
<1> QED
  BY <1>1, <1>2

LEMMA ManagerAtStart == Init => ManagerInv
<1> SUFFICES ASSUME Init PROVE ManagerInv
  OBVIOUS
<1>1. /\ file_of = <<>> /\ logs = [f \in Files |-> 0] /\ active_log = 0 /\ rows = {}
      /\ stored \subseteq Files
  BY DEF Init
<1>2. ASSUME NEW q \in Seq(Files), NEW active,
             loads = Loads(q, active), op = NewOp(Len(q)),
             enumerating = 0, named = Range(q), hurried = Twice(q)
      PROVE  ManagerInv
  <2>1. /\ Len(q) \in Nat /\ DOMAIN q = 1..Len(q) /\ named \subseteq Files
        /\ \A i \in DOMAIN q : q[i] \in Files
    BY <1>2, LenProperties, ElementOfSeq DEF Range
  <2>2. /\ loads \in Seq(LoadSet) /\ DOMAIN loads = DOMAIN q
        /\ \A i \in DOMAIN q : loads[i].file = q[i] /\ loads[i].is_multiple = 1
        /\ Cardinality(Many(loads)) = Len(q)
    BY <1>2, LoadsOfNames
  <2>3. /\ op \in Op /\ op # None /\ op.total = Len(q) /\ op.current = 0
        /\ op.errors = {}
    BY <1>2, <2>1, NoneAssumption DEF NewOp, Op
  <2>4. hurried \subseteq Files
    BY <1>2, <2>1 DEF Twice, Range
  <2>5. ManagerTypes
    BY <1>1, <2>1, <2>2, <2>3, <2>4 DEF ManagerTypes
  <2>6. EndsWithItsLoads
    BY <1>2, <2>1, <2>2, <2>3 DEF EndsWithItsLoads
  <2>7. ASSUME NEW f \in Files \ hurried PROVE InStep(f)
    <3>1. Once(loads, f)
      BY <1>2, <2>2, <2>7 DEF Once, Twice, Range
    <3>2. f \in named => ForStart(f)
      BY <1>2, <2>2 DEF Range, ForStart
    <3> QED
      BY <1>1, <2>3, <3>1, <3>2 DEF InStep, Failed
  <2> QED
    BY <2>5, <2>6, <2>7 DEF ManagerInv
<1>3. CASE \E names \in CommandLines :
             /\ loads = Loads(names, None) /\ op = NewOp(Len(names))
             /\ enumerating = 0 /\ named = Range(names) /\ hurried = Twice(names)
  BY <1>2, <1>3, CommandLinesAssumption
<1>4. CASE /\ stored # {}
           /\ loads = Loads(SetToSeq(stored), active_file)
           /\ op = NewOp(Cardinality(stored))
           /\ enumerating = 0 /\ named = stored /\ hurried = {}
  <2> DEFINE q == SetToSeq(stored)
  <2>1. IsFiniteSet(stored)
    BY <1>1, FilesAssumption, FS_Subset
  <2>2. /\ q \in Seq(stored) /\ Len(q) = Cardinality(stored) /\ Range(q) = stored
        /\ \A i, j \in DOMAIN q : q[i] = q[j] => i = j
    BY <2>1, InSomeOrder
  <2> HIDE DEF q
  <2>3. q \in Seq(Files)
    BY <1>1, <2>2, SeqMonotonic
  <2>4. Twice(q) = {}
    BY <2>2 DEF Twice
  <2>5. loads = Loads(q, active_file)
    BY <1>4 DEF q
  <2> QED
    BY <1>2, <1>4, <2>2, <2>3, <2>4, <2>5
<1>5. CASE /\ stored = {} /\ loads = <<>> /\ op = None
           /\ enumerating = 1 /\ named = {} /\ hurried = {}
  <2>1. ManagerTypes
    BY <1>1, <1>5 DEF ManagerTypes
  <2>2. EndsWithItsLoads
    BY <1>5 DEF EndsWithItsLoads, Many
  <2>3. ASSUME NEW f \in Files PROVE InStep(f)
    BY <1>1, <1>5 DEF InStep, Once, Loading, Failed
  <2> QED
    BY <2>1, <2>2, <2>3 DEF ManagerInv
<1> QED
  BY <1>3, <1>4, <1>5 DEF Init

(* The end of a load that may be counted. *)
LEMMA OperationGoesOn ==
  ASSUME op \in Op \cup {None}, EndsWithItsLoads,
         loads \in Seq(LoadSet), NEW i \in DOMAIN loads, loads' = RemoveAt(loads, i),
         enumerating' = enumerating, named' = named,
         NEW failed \in SUBSET Files, NEW names \in SUBSET Files,
         EndOfOne(loads[i], failed, names)
  PROVE  /\ op' \in Op \cup {None}
         /\ EndsWithItsLoads'
         /\ stored' \subseteq names
         /\ \/ /\ loads[i].is_multiple = 0
               /\ op' = op /\ stored' = names
            \/ /\ loads[i].is_multiple = 1
               /\ op # None /\ op' # None
               /\ op'.errors = op.errors \cup failed /\ stored' = names
            \/ /\ loads[i].is_multiple = 1
               /\ op # None /\ op' = None
               /\ stored' = names \ (op.errors \cup failed)
<1>1. /\ loads' \in Seq(LoadSet)
      /\ Cardinality(Many(loads')) = IF loads[i].is_multiple = 1
                                     THEN Cardinality(Many(loads)) - 1
                                     ELSE Cardinality(Many(loads))
  BY OneEnds
<1>2. /\ IsFiniteSet(Many(loads)) /\ Cardinality(Many(loads)) \in Nat
      /\ IsFiniteSet(Many(loads')) /\ Cardinality(Many(loads')) \in Nat
  BY <1>1, ManyIsFinite
<1>3. loads[i].is_multiple \in {0, 1}
  <2>1. loads[i] \in LoadSet
    BY LenProperties, ElementOfSeq
  <2> QED
    BY <2>1 DEF LoadSet
<1>4. Many(loads') = {} <=> Cardinality(Many(loads')) = 0
  BY <1>2, FS_EmptySet
<1>5. Many(loads) = {} <=> Cardinality(Many(loads)) = 0
  BY <1>2, FS_EmptySet
<1>6. CASE loads[i].is_multiple = 0
  <2>1. op' = op /\ stored' = names
    BY <1>6 DEF EndOfOne
  <2>2. Cardinality(Many(loads')) = Cardinality(Many(loads))
    BY <1>1, <1>6
  <2>3. EndsWithItsLoads'
    BY <1>4, <1>5, <2>1, <2>2 DEF EndsWithItsLoads
  <2> QED
    BY <1>6, <2>1, <2>3
<1>7. CASE loads[i].is_multiple = 1
  <2> DEFINE next == Counted(op, failed)
  <2>1. Cardinality(Many(loads')) = Cardinality(Many(loads)) - 1
    BY <1>1, <1>7
  <2>2. op # None /\ op \in Op
    BY <1>2, <1>5, <2>1 DEF EndsWithItsLoads
  <2>3. /\ next \in Op /\ next.total = op.total /\ next.current = op.current + 1
        /\ next.errors = op.errors \cup failed
    <3>1. op \in [total : Nat, current : Nat, errors : SUBSET Files]
      BY <2>2 DEF Op
    <3>2. next = [total |-> op.total, current |-> op.current + 1,
                  errors |-> op.errors \cup failed]
      <4> DEFINE n == op.current + 1
                 x == op.errors \cup failed
      <4>1. next = [op EXCEPT !.current = n, !.errors = x]
        BY DEF Counted
      <4> HIDE DEF n, x, next
      <4>2. next = [total |-> op.total, current |-> n, errors |-> x]
        BY <3>1, <4>1
      <4> QED
        BY <4>2 DEF n, x
    <3> HIDE DEF next
    <3>3. op.total \in Nat /\ op.current + 1 \in Nat /\ op.errors \cup failed \subseteq Files
      BY <3>1
    <3>4. next \in Op
      BY <3>2, <3>3 DEF Op
    <3> QED
      BY <3>2, <3>4
  <2>4. next # None
    BY <2>3, NoneAssumption
  <2>5. op.total \in Nat /\ op.current \in Nat
    BY <2>2 DEF Op
  <2>6. Cardinality(Many(loads)) + op.current <= op.total
    BY <2>2 DEF EndsWithItsLoads
  <2>7. IF next.current = next.total
        THEN op' = None /\ stored' = names \ next.errors
        ELSE op' = next /\ stored' = names
    BY <1>7 DEF EndOfOne, Kept
  <2> HIDE DEF next
  <2>8. enumerating # 1
    BY <2>2 DEF EndsWithItsLoads
  <2>9. CASE next.current = next.total
    <3>1. op' = None /\ stored' = names \ next.errors
      BY <2>7, <2>9
    <3>2. Cardinality(Many(loads')) = 0
      BY <1>2, <2>1, <2>3, <2>5, <2>6, <2>9
    <3>3. EndsWithItsLoads'
      BY <1>4, <2>8, <3>1, <3>2 DEF EndsWithItsLoads
    <3> QED
      BY <1>7, <2>2, <2>3, <3>1, <3>3
  <2>10. CASE next.current # next.total
    <3>1. op' = next /\ stored' = names
      BY <2>7, <2>10
    <3>2. Cardinality(Many(loads')) + next.current <= next.total
      BY <1>2, <2>1, <2>3, <2>5, <2>6
    <3>3. EndsWithItsLoads'
      BY <2>4, <2>8, <3>1, <3>2 DEF EndsWithItsLoads
    <3> QED
      BY <1>7, <2>2, <2>3, <2>4, <3>1, <3>3
  <2> QED
    BY <2>9, <2>10
<1> QED
  BY <1>3, <1>6, <1>7

(* What the end of a load means for the files. *)
LEMMA LoadLeaves ==
  ASSUME loads \in Seq(LoadSet), NEW i \in DOMAIN loads, loads' = RemoveAt(loads, i),
         NEW f, f = loads[i].file
  PROVE  /\ loads' \in Seq(LoadSet)
         /\ loads[i] \in LoadSet
         /\ Loading(f)
         /\ \A g : Loading(g)' => Loading(g)
         /\ \A g : g # f /\ ForStart(g) => ForStart(g)'
         /\ \A g : Once(loads, g) => Once(loads', g)
         /\ Once(loads, f) => ~ Loading(f)'
         /\ Once(loads, f) /\ ForStart(f)
              => loads[i].is_multiple = 1
<1>1. /\ loads' \in Seq(LoadSet)
      /\ \A j \in DOMAIN loads' : \E k \in DOMAIN loads : k # i /\ loads'[j] = loads[k]
      /\ \A k \in DOMAIN loads : k # i => \E j \in DOMAIN loads' : loads'[j] = loads[k]
      /\ \A g : Once(loads, g) => Once(loads', g)
      /\ Once(loads, f)
           => \A j \in DOMAIN loads' : loads'[j].file # f
  BY OneEnds
<1>2. loads[i] \in LoadSet
  BY LenProperties, ElementOfSeq
<1>3. \A g : Loading(g)' => Loading(g)
  BY <1>1 DEF Loading
<1>4. ASSUME NEW g, g # f, ForStart(g) PROVE ForStart(g)'
  <2>1. PICK k \in DOMAIN loads : loads[k].file = g /\ loads[k].is_multiple = 1
    BY <1>4 DEF ForStart
  <2>2. k # i
    BY <1>4, <2>1
  <2> QED
    BY <1>1, <2>1, <2>2 DEF ForStart
<1>5. Once(loads, f) => ~ Loading(f)'
  BY <1>1 DEF Loading
<1>6. Once(loads, f) /\ ForStart(f) => loads[i].is_multiple = 1
  BY DEF Once, ForStart
<1>7. Loading(f)
  BY DEF Loading
<1> QED
  BY <1>1, <1>2, <1>3, <1>4, <1>5, <1>6, <1>7

LEMMA ManagerStays ==
  ASSUME ManagerInv,
         UNCHANGED <<stored, file_of, logs, loads, op, rows, enumerating, history>>,
         active_log' \in DOMAIN file_of \cup {0}
  PROVE  ManagerInv'
<1>1. /\ stored' = stored /\ file_of' = file_of /\ logs' = logs /\ loads' = loads
      /\ op' = op /\ rows' = rows /\ enumerating' = enumerating
      /\ named' = named /\ hurried' = hurried
  BY DEF history
<1>2. ManagerTypes'
  BY <1>1 DEF ManagerInv, ManagerTypes
<1>3. EndsWithItsLoads'
  BY <1>1 DEF ManagerInv, EndsWithItsLoads
<1>4. ASSUME NEW f \in Files \ hurried PROVE InStep(f)'
  BY <1>1 DEF ManagerInv, InStep, Loading, ForStart, Failed
<1> QED
  BY <1>1, <1>2, <1>3, <1>4 DEF ManagerInv

LEMMA LoadDoneStep ==
  ASSUME ManagerInv, NEW i \in DOMAIN loads, LoadDone(i)
  PROVE  ManagerInv'
<1> DEFINE f == loads[i].file
           l == Len(file_of) + 1
           names == StoreLog(f)
<1>1. /\ loads' = RemoveAt(loads, i) /\ file_of' = Append(file_of, f)
      /\ logs' = [logs EXCEPT ![f] = l] /\ rows' = rows \cup {l}
      /\ EndOfOne(loads[i], {}, names)
      /\ active_log' \in {l, active_log}
      /\ enumerating' = enumerating /\ named' = named /\ hurried' = hurried
  BY DEF LoadDone, LogAdded, SetActiveLog, ShowsSame, history
<1>2. ManagerTypes /\ EndsWithItsLoads /\ \A g \in Files \ hurried : InStep(g)
  BY DEF ManagerInv
<1>3. /\ loads' \in Seq(LoadSet) /\ loads[i] \in LoadSet /\ Loading(f)
      /\ \A g : Loading(g)' => Loading(g)
      /\ \A g : g # f /\ ForStart(g) => ForStart(g)'
      /\ \A g : Once(loads, g) => Once(loads', g)
  BY <1>1, <1>2, LoadLeaves DEF ManagerTypes
<1>4. \A g : g = f /\ Once(loads, g) => ~ Loading(g)'
  BY <1>1, <1>2, LoadLeaves DEF ManagerTypes
<1>5. f \in Files
  BY <1>3 DEF LoadSet
<1>6. /\ Len(file_of) \in Nat /\ DOMAIN file_of = 1..Len(file_of)
      /\ file_of' \in Seq(Files) /\ DOMAIN file_of' = 1..(Len(file_of) + 1)
      /\ l \in DOMAIN file_of' /\ l \notin DOMAIN file_of /\ l # 0 /\ l \in Nat
      /\ file_of'[l] = f
      /\ \A k \in DOMAIN file_of : k \in DOMAIN file_of' /\ file_of'[k] = file_of[k]
  BY <1>1, <1>2, <1>5, AppendProperties, LenProperties DEF ManagerTypes
<1>7. names = stored \cup {f} /\ names \subseteq Files
  BY <1>2, <1>5 DEF StoreLog, ManagerTypes
<1> HIDE DEF f, l, names
<1>8. /\ op' \in Op \cup {None} /\ EndsWithItsLoads' /\ stored' \subseteq names
      /\ \/ /\ loads[i].is_multiple = 0
            /\ op' = op /\ stored' = names
         \/ /\ loads[i].is_multiple = 1
            /\ op # None /\ op' # None
            /\ op'.errors = op.errors \cup {} /\ stored' = names
         \/ /\ loads[i].is_multiple = 1
            /\ op # None /\ op' = None
            /\ stored' = names \ (op.errors \cup {})
  <2> DEFINE none == {}
  <2>1. none \in SUBSET Files /\ names \in SUBSET Files
    BY <1>7
  <2>2. EndOfOne(loads[i], none, names)
    BY <1>1
  <2> HIDE DEF none
  <2>3. /\ op' \in Op \cup {None} /\ EndsWithItsLoads' /\ stored' \subseteq names
        /\ \/ /\ loads[i].is_multiple = 0
              /\ op' = op /\ stored' = names
           \/ /\ loads[i].is_multiple = 1
              /\ op # None /\ op' # None
              /\ op'.errors = op.errors \cup none /\ stored' = names
           \/ /\ loads[i].is_multiple = 1
              /\ op # None /\ op' = None
              /\ stored' = names \ (op.errors \cup none)
    BY <1>1, <1>2, <2>1, <2>2, OperationGoesOn DEF ManagerTypes
  <2> QED
    BY <2>3 DEF none
<1>9. \A g : /\ Failed(g)' => Failed(g)
             /\ Failed(g) /\ ~ Failed(g)' => g \notin stored'
             /\ g \in names /\ ~ Failed(g) => g \in stored'
  BY <1>8 DEF Failed
<1>10. /\ logs' \in [Files -> Nat] /\ logs'[f] = l
       /\ \A g \in Files : g # f => logs'[g] = logs[g]
  BY <1>1, <1>2, <1>5, <1>6 DEF ManagerTypes
<1>11. ManagerTypes'
  <2>1. \A g \in Files : logs'[g] # 0 => logs'[g] \in DOMAIN file_of'
    BY <1>2, <1>6, <1>10 DEF ManagerTypes
  <2>2. rows' \subseteq DOMAIN file_of' /\ active_log' \in DOMAIN file_of' \cup {0}
    BY <1>1, <1>2, <1>6 DEF ManagerTypes
  <2> QED
    BY <1>1, <1>2, <1>3, <1>6, <1>7, <1>8, <1>10, <2>1, <2>2 DEF ManagerTypes
<1>12. ASSUME NEW g \in Files \ hurried PROVE InStep(g)'
  <2>1. InStep(g)
    BY <1>2
  <2>2. CASE g = f
    <3>1. logs[g] = 0 /\ Once(loads, g) /\ ~ Failed(g)
      BY <1>3, <2>1, <2>2 DEF InStep
    <3>2. {k \in rows : file_of[k] = g} = {}
      BY <2>1, <3>1 DEF InStep
    <3>3. {k \in rows' : file_of'[k] = g} = {l}
      BY <1>1, <1>2, <1>6, <2>2, <3>2 DEF ManagerTypes
    <3>4. logs'[g] = l /\ ~ Loading(g)' /\ Once(loads', g)
      BY <1>3, <1>4, <1>10, <2>2, <3>1
    <3>5. g \in stored' /\ ~ Failed(g)'
      BY <1>7, <1>9, <2>2, <3>1
    <3> QED
      BY <1>6, <3>3, <3>4, <3>5 DEF InStep
  <2>3. CASE g # f
    <3>1. {k \in rows' : file_of'[k] = g} = {k \in rows : file_of[k] = g}
      BY <1>1, <1>2, <1>6, <2>3 DEF ManagerTypes
    <3>2. logs'[g] = logs[g] /\ (g \in names <=> g \in stored)
      BY <1>7, <1>10, <2>3
    <3>3. g \in stored' => g \in stored
      BY <1>8, <3>2
    <3>4. logs'[g] # 0 => g \in stored'
      BY <1>9, <2>1, <3>2 DEF InStep
    <3>5. /\ Once(loads', g) /\ (Loading(g)' => logs'[g] = 0)
          /\ (Failed(g)' => logs'[g] = 0 /\ ~ Loading(g)')
      BY <1>3, <1>9, <2>1, <3>2 DEF InStep
    <3>6. g \in named' /\ g \in stored' => logs'[g] # 0 \/ ForStart(g)' \/ Failed(g)'
      BY <1>1, <1>3, <1>9, <2>1, <2>3, <3>2, <3>3 DEF InStep
    <3>7. {k \in rows' : file_of'[k] = g} = {logs'[g]} \ {0}
      BY <2>1, <3>1, <3>2 DEF InStep
    <3> QED
      BY <3>4, <3>5, <3>6, <3>7 DEF InStep
  <2> QED
    BY <2>2, <2>3
<1> QED
  BY <1>1, <1>8, <1>11, <1>12 DEF ManagerInv

LEMMA LoadFailedStep ==
  ASSUME ManagerInv, NEW i \in DOMAIN loads, LoadFailed(i)
  PROVE  ManagerInv'
<1> DEFINE f == loads[i].file
<1>1. /\ loads' = RemoveAt(loads, i) /\ file_of' = file_of /\ logs' = logs
      /\ rows' = rows /\ active_log' = active_log
      /\ EndOfOne(loads[i], {f}, stored)
      /\ enumerating' = enumerating /\ named' = named /\ hurried' = hurried
  BY DEF LoadFailed, list, history
<1>2. ManagerTypes /\ EndsWithItsLoads /\ \A g \in Files \ hurried : InStep(g)
  BY DEF ManagerInv
<1>3. /\ loads' \in Seq(LoadSet) /\ loads[i] \in LoadSet /\ Loading(f)
      /\ \A g : Loading(g)' => Loading(g)
      /\ \A g : g # f /\ ForStart(g) => ForStart(g)'
      /\ \A g : Once(loads, g) => Once(loads', g)
  BY <1>1, <1>2, LoadLeaves DEF ManagerTypes
<1>4. \A g : g = f /\ Once(loads, g) =>
               ~ Loading(g)' /\ (ForStart(g) => loads[i].is_multiple = 1)
  BY <1>1, <1>2, LoadLeaves DEF ManagerTypes
<1>5. f \in Files
  BY <1>3 DEF LoadSet
<1> HIDE DEF f
<1>8. /\ op' \in Op \cup {None} /\ EndsWithItsLoads' /\ stored' \subseteq stored
      /\ \/ /\ loads[i].is_multiple = 0
            /\ op' = op /\ stored' = stored
         \/ /\ loads[i].is_multiple = 1
            /\ op # None /\ op' # None
            /\ op'.errors = op.errors \cup {f} /\ stored' = stored
         \/ /\ loads[i].is_multiple = 1
            /\ op # None /\ op' = None
            /\ stored' = stored \ (op.errors \cup {f})
  BY <1>1, <1>2, <1>5, OperationGoesOn DEF ManagerTypes
<1>9. \A g : /\ Failed(g)' => Failed(g) \/ g = f
             /\ Failed(g) /\ ~ Failed(g)' => g \notin stored'
             /\ g \in stored /\ ~ Failed(g) /\ g # f => g \in stored'
  BY <1>8 DEF Failed
<1>10. \A g : g = f /\ loads[i].is_multiple = 1 => Failed(g)' \/ g \notin stored'
  BY <1>8 DEF Failed
<1>11. ManagerTypes'
  BY <1>1, <1>2, <1>3, <1>8 DEF ManagerTypes
<1>12. ASSUME NEW g \in Files \ hurried PROVE InStep(g)'
  <2>1. InStep(g)
    BY <1>2
  <2>2. {k \in rows' : file_of'[k] = g} = {logs'[g]} \ {0}
    BY <1>1, <2>1 DEF InStep
  <2>3. CASE g = f
    <3>1. logs[g] = 0 /\ Once(loads, g) /\ ~ Failed(g)
      BY <1>3, <2>1, <2>3 DEF InStep
    <3>2. ~ Loading(g)' /\ Once(loads', g) /\ logs'[g] = 0
      BY <1>1, <1>3, <1>4, <2>3, <3>1
    <3>3. g \in named' /\ g \in stored' => loads[i].is_multiple = 1
      BY <1>1, <1>4, <1>8, <2>1, <2>3, <3>1 DEF InStep
    <3>4. g \in named' /\ g \in stored' => Failed(g)'
      BY <1>10, <2>3, <3>3
    <3> QED
      BY <2>2, <3>2, <3>4 DEF InStep
  <2>4. CASE g # f
    <3>1. g \in stored' => g \in stored
      BY <1>8
    <3>2. logs'[g] # 0 => g \in stored'
      BY <1>1, <1>9, <2>1, <2>4 DEF InStep
    <3>3. /\ Once(loads', g) /\ (Loading(g)' => logs'[g] = 0)
          /\ (Failed(g)' => logs'[g] = 0 /\ ~ Loading(g)')
      BY <1>1, <1>3, <1>9, <2>1, <2>4 DEF InStep
    <3>4. g \in named' /\ g \in stored' => logs'[g] # 0 \/ ForStart(g)' \/ Failed(g)'
      BY <1>1, <1>3, <1>9, <2>1, <2>4, <3>1 DEF InStep
    <3> QED
      BY <2>2, <3>2, <3>3, <3>4 DEF InStep
  <2> QED
    BY <2>3, <2>4
<1> QED
  BY <1>1, <1>8, <1>11, <1>12 DEF ManagerInv

LEMMA EnumerateStep ==
  ASSUME ManagerInv, NEW found \in SUBSET Files, EnumerateDone(found)
  PROVE  ManagerInv'
<1>1. ManagerTypes /\ EndsWithItsLoads /\ \A g \in Files \ hurried : InStep(g)
  BY DEF ManagerInv
<1>2. /\ enumerating = 1 /\ enumerating' = 0 /\ named' = found
      /\ op = None /\ Many(loads) = {}
  BY <1>1 DEF EnumerateDone, EndsWithItsLoads
<1>3. CASE found = {} /\ UNCHANGED <<manager, settings, list, view, hurried>>
  <2>1. /\ stored' = stored /\ file_of' = file_of /\ logs' = logs /\ loads' = loads
        /\ op' = op /\ rows' = rows /\ active_log' = active_log /\ hurried' = hurried
    BY <1>3 DEF manager, settings, list
  <2>2. ManagerTypes'
    BY <1>1, <1>2, <1>3, <2>1 DEF ManagerTypes
  <2>3. EndsWithItsLoads'
    BY <1>2, <2>1 DEF EndsWithItsLoads
  <2>4. ASSUME NEW g \in Files \ hurried PROVE InStep(g)'
    BY <1>1, <1>2, <1>3, <2>1 DEF InStep, Loading, ForStart, Failed
  <2> QED
    BY <2>1, <2>2, <2>3, <2>4 DEF ManagerInv
<1>4. ASSUME NEW first \in found,
             op' = NewOp(Cardinality(found)),
             loads' = loads \o Loads(SetToSeq({f \in found : logs[f] = 0}), first),
             hurried' = hurried \cup {f \in found : Loading(f) \/ logs[f] # 0},
             IF logs[first] # 0 THEN SetActiveLog(logs[first], file_of, 0)
             ELSE ShowsSame,
             UNCHANGED <<wild, stored, file_of, logs, rows, bold, dated>>
      PROVE  ManagerInv'
  <2> DEFINE missing == {f \in found : logs[f] = 0}
  <2>1. /\ stored' = stored /\ file_of' = file_of /\ logs' = logs /\ rows' = rows
        /\ active_log' \in {active_log, logs[first]}
        /\ (active_log' # active_log => logs[first] # 0)
    BY <1>4 DEF SetActiveLog, ShowsSame
  <2>2. missing \in SUBSET Files /\ IsFiniteSet(found) /\ missing \in SUBSET found
    BY FilesAssumption, FS_Subset
  <2>3. /\ IsFiniteSet(missing) /\ Cardinality(missing) <= Cardinality(found)
        /\ Cardinality(missing) \in Nat /\ Cardinality(found) \in Nat
    <3> HIDE DEF missing
    <3> QED
      BY <2>2, FS_Subset, FS_CardinalityType
  <2>4. /\ op' \in Op /\ op' # None /\ op'.errors = {} /\ op'.current = 0
        /\ op'.total = Cardinality(found)
    <3> DEFINE n == Cardinality(found)
    <3>1. n \in Nat /\ op' = NewOp(n)
      BY <1>4, <2>3
    <3> HIDE DEF n
    <3>2. op' \in Op /\ op'.errors = {} /\ op'.current = 0 /\ op'.total = n
      BY <3>1 DEF NewOp, Op
    <3> QED
      BY <3>2, NoneAssumption DEF n
  <2>5. loads' = loads \o Loads(SetToSeq(missing), first)
    BY <1>4
  <2> HIDE DEF missing
  <2>6. /\ loads' \in Seq(LoadSet)
        /\ \A k \in DOMAIN loads : k \in DOMAIN loads' /\ loads'[k] = loads[k]
        /\ \A j \in DOMAIN loads' :
             (j \in DOMAIN loads /\ loads'[j] = loads[j]) \/ loads'[j].file \in missing
        /\ \A f \in missing : \E j \in DOMAIN loads' :
                                loads'[j].file = f /\ loads'[j].is_multiple = 1
        /\ \A f : f \notin missing /\ Once(loads, f) => Once(loads', f)
        /\ \A f \in missing :
             (\A k \in DOMAIN loads : loads[k].file # f) => Once(loads', f)
        /\ Cardinality(Many(loads')) = Cardinality(missing)
    <3>1. ManyBegun(loads, missing, loads')
      BY <1>1, <1>2, <2>2, <2>5, ManyBegin DEF ManagerTypes
    <3> QED
      BY <3>1 DEF ManyBegun
  <2>7. hurried' \subseteq Files
    BY <1>1, <1>4 DEF ManagerTypes
  <2>8. ManagerTypes'
    <3>1. active_log' \in DOMAIN file_of \cup {0}
      BY <1>1, <2>1 DEF ManagerTypes
    <3> QED
      BY <1>1, <1>2, <2>1, <2>4, <2>6, <2>7, <3>1 DEF ManagerTypes
  <2>9. EndsWithItsLoads'
    BY <1>2, <2>3, <2>4, <2>6 DEF EndsWithItsLoads
  <2>10. ASSUME NEW g \in Files \ hurried' PROVE InStep(g)'
    <3>1. g \notin hurried /\ InStep(g)
      BY <1>1, <1>4
    <3>2. {k \in rows' : file_of'[k] = g} = {logs'[g]} \ {0}
      BY <2>1, <3>1 DEF InStep
    <3>3. (logs'[g] # 0 => g \in stored') /\ ~ Failed(g)'
      BY <2>1, <2>4, <3>1 DEF InStep, Failed
    <3>4. CASE g \in found
      <4>1. ~ Loading(g) /\ logs[g] = 0
        BY <1>4, <3>4
      <4>2. g \in missing
        BY <3>4, <4>1 DEF missing
      <4>3. Once(loads', g) /\ ForStart(g)'
        BY <2>6, <4>1, <4>2 DEF Loading, ForStart
      <4> QED
        BY <2>1, <3>2, <3>3, <4>1, <4>3 DEF InStep
    <3>5. CASE g \notin found
      <4>1. g \notin missing
        BY <3>5 DEF missing
      <4>2. Once(loads', g) /\ (Loading(g)' => Loading(g))
        BY <2>6, <3>1, <4>1 DEF InStep, Loading
      <4> QED
        BY <1>2, <2>1, <3>1, <3>2, <3>3, <3>5, <4>2 DEF InStep
    <3> QED
      BY <3>4, <3>5
  <2> QED
    BY <2>8, <2>9, <2>10 DEF ManagerInv
<1> QED
  BY <1>3, <1>4 DEF EnumerateDone

LEMMA OpenFileStep ==
  ASSUME ManagerInv, NEW f \in Files, OpenFile(f)
  PROVE  ManagerInv'
<1>1. ManagerTypes /\ EndsWithItsLoads /\ \A g \in Files \ hurried : InStep(g)
  BY DEF ManagerInv
<1>2. /\ stored' = stored /\ file_of' = file_of /\ logs' = logs /\ rows' = rows
      /\ op' = op /\ enumerating' = enumerating /\ named' = named
      /\ hurried \subseteq hurried' /\ hurried' \subseteq Files
      /\ (f \notin hurried' => ~ Loading(f) /\ op = None)
  BY <1>1 DEF OpenFile, ManagerTypes
<1>3. CASE logs[f] # 0
  <2>1. loads' = loads /\ active_log' = logs[f]
    BY <1>3 DEF OpenFile, SetActiveLog
  <2>2. ManagerTypes'
    BY <1>1, <1>2, <1>3, <2>1 DEF ManagerTypes
  <2>3. EndsWithItsLoads'
    BY <1>1, <1>2, <2>1 DEF EndsWithItsLoads
  <2>4. ASSUME NEW g \in Files \ hurried' PROVE InStep(g)'
    <3>1. InStep(g)
      BY <1>1, <1>2
    <3> QED
      BY <1>2, <2>1, <3>1 DEF InStep, Loading, ForStart, Failed
  <2> QED
    BY <2>2, <2>3, <2>4 DEF ManagerInv
<1>4. CASE logs[f] = 0
  <2> DEFINE l == Load(f, 1, 0)
  <2>1. loads' = Append(loads, l) /\ active_log' = active_log
    BY <1>4 DEF OpenFile, ShowsSame
  <2>2. l \in LoadSet /\ l.is_multiple = 0 /\ l.file = f
    BY DEF Load, LoadSet
  <2> HIDE DEF l
  <2>3. /\ loads' \in Seq(LoadSet)
        /\ \A k \in DOMAIN loads : k \in DOMAIN loads' /\ loads'[k] = loads[k]
        /\ \A j \in DOMAIN loads' :
             (j \in DOMAIN loads /\ loads'[j] = loads[j]) \/ loads'[j] = l
        /\ \A g : g # f /\ Once(loads, g) => Once(loads', g)
        /\ (\A k \in DOMAIN loads : loads[k].file # f) => Once(loads', f)
        /\ Many(loads') = Many(loads)
    <3>1. OneBegun(loads, l, loads')
      BY <1>1, <2>1, <2>2, OneBegins DEF ManagerTypes
    <3> QED
      BY <2>2, <3>1 DEF OneBegun
  <2>4. ManagerTypes'
    BY <1>1, <1>2, <2>1, <2>3 DEF ManagerTypes
  <2>5. EndsWithItsLoads'
    BY <1>1, <1>2, <2>3 DEF EndsWithItsLoads
  <2>6. ASSUME NEW g \in Files \ hurried' PROVE InStep(g)'
    <3>1. InStep(g)
      BY <1>1, <1>2
    <3>2. /\ {k \in rows' : file_of'[k] = g} = {logs'[g]} \ {0}
          /\ logs'[g] # 0 => g \in stored'
      BY <1>2, <3>1 DEF InStep
    <3>3. (Failed(g)' <=> Failed(g)) /\ (ForStart(g) => ForStart(g)')
      BY <1>2, <2>3 DEF Failed, ForStart
    <3>4. CASE g = f
      <4>1. ~ Loading(g) /\ ~ Failed(g) /\ ~ ForStart(g)
        BY <1>2, <3>4 DEF Failed, ForStart, Loading
      <4>2. Once(loads', g)
        BY <2>3, <3>4, <4>1 DEF Loading
      <4> QED
        BY <1>2, <1>4, <3>1, <3>2, <3>3, <3>4, <4>1, <4>2 DEF InStep
    <3>5. CASE g # f
      <4>1. Once(loads', g) /\ (Loading(g)' => Loading(g))
        BY <2>2, <2>3, <3>1, <3>5 DEF InStep, Loading
      <4> QED
        BY <1>2, <3>1, <3>2, <3>3, <4>1 DEF InStep
    <3> QED
      BY <3>4, <3>5
  <2> QED
    BY <2>4, <2>5, <2>6 DEF ManagerInv
<1> QED
  BY <1>3, <1>4

LEMMA CloseStep ==
  ASSUME ManagerInv, CloseActiveLog
  PROVE  ManagerInv'
<1> DEFINE f == file_of[active_log]
<1>1. ManagerTypes /\ EndsWithItsLoads /\ \A g \in Files \ hurried : InStep(g)
  BY DEF ManagerInv
<1>2. /\ active_log # 0
      /\ rows' = rows \ {active_log} /\ stored' = stored \ {f}
      /\ logs' = [logs EXCEPT ![f] = 0]
      /\ file_of' = file_of /\ loads' = loads /\ op' = op
      /\ enumerating' = enumerating /\ named' = named
      /\ active_log' \in rows' \cup {active_log}
      /\ hurried' \in {hurried, hurried \cup {f}}
      /\ (hurried' = hurried =>
            f \in hurried \/ (~ Loading(f) /\ op = None /\ active_log \in rows))
  BY DEF CloseActiveLog, RemoveStoredLog, OutOfTable, SetActiveLog, ShowsSame
<1>3. active_log \in DOMAIN file_of /\ f \in Files
  BY <1>1, <1>2, LenProperties, ElementOfSeq DEF ManagerTypes
<1>4. \A g : g = f /\ g \notin hurried' =>
               ~ Loading(g) /\ op = None /\ active_log \in rows /\ g \notin hurried
  BY <1>2
<1> HIDE DEF f
<1>5. /\ logs' \in [Files -> Nat] /\ logs'[f] = 0
      /\ \A g \in Files : g # f => logs'[g] = logs[g]
  BY <1>1, <1>2, <1>3 DEF ManagerTypes
<1>6. ManagerTypes'
  <2>1. \A g \in Files : logs'[g] # 0 => logs'[g] \in DOMAIN file_of'
    BY <1>1, <1>2, <1>5 DEF ManagerTypes
  <2>2. hurried' \subseteq Files /\ active_log' \in DOMAIN file_of'
    BY <1>1, <1>2, <1>3 DEF ManagerTypes
  <2> QED
    BY <1>1, <1>2, <1>5, <2>1, <2>2 DEF ManagerTypes
<1>7. EndsWithItsLoads'
  BY <1>1, <1>2 DEF EndsWithItsLoads
<1>8. ASSUME NEW g \in Files \ hurried' PROVE InStep(g)'
  <2>1. g \notin hurried /\ InStep(g)
    BY <1>1, <1>2
  <2>2. /\ (Loading(g)' <=> Loading(g)) /\ (ForStart(g)' <=> ForStart(g))
        /\ (Failed(g)' <=> Failed(g)) /\ Once(loads', g)
    BY <1>2, <2>1 DEF Loading, ForStart, Failed, InStep
  <2>3. CASE g = f
    <3>1. ~ Loading(g) /\ ~ Failed(g) /\ active_log \in rows
      BY <1>4, <2>3 DEF Failed
    <3>2. {k \in rows : file_of[k] = g} = {logs[g]} \ {0}
      BY <2>1 DEF InStep
    <3>3. active_log \in {k \in rows : file_of[k] = g}
      BY <2>3, <3>1 DEF f
    <3>4. {k \in rows' : file_of'[k] = g} = {}
      BY <1>2, <3>2, <3>3
    <3>5. logs'[g] = 0 /\ g \notin stored'
      BY <1>2, <1>5, <2>3
    <3> QED
      BY <2>2, <3>1, <3>4, <3>5 DEF InStep
  <2>4. CASE g # f
    <3>1. file_of[active_log] # g
      BY <2>4 DEF f
    <3>2. {k \in rows' : file_of'[k] = g} = {k \in rows : file_of[k] = g}
      BY <1>2, <3>1
    <3>3. logs'[g] = logs[g] /\ (g \in stored' <=> g \in stored) /\ named' = named
      BY <1>2, <1>5, <2>4
    <3> QED
      BY <2>1, <2>2, <3>2, <3>3 DEF InStep
  <2> QED
    BY <2>3, <2>4
<1> QED
  BY <1>6, <1>7, <1>8 DEF ManagerInv

-----------------------------------------------------------------------------
(* All of it.                                                              *)

(* No step of the manager touches the filters, but for the view: a new     *)
(* buffer has no tags and new lines get those of filters that are on.      *)
LEMMA FiltersLeftAlone ==
  ASSUME FiltersInv,
         \/ \E i \in DOMAIN loads : LoadDone(i) \/ LoadFailed(i)
         \/ \E found \in SUBSET Files : EnumerateDone(found)
         \/ \E f \in Files : OpenFile(f)
         \/ CloseActiveLog
         \/ \E l \in rows : SelectLog(l) \/ SelectDay(l) \/ ExpandRow(l) \/ LogChanged(l)
         \/ ReadNewLines
  PROVE  FiltersInv'
<1>1. tagged \subseteq active_filters
  BY DEF FiltersInv, TagsInv
<1> USE DEF SetActiveLog, ShowsSame, NewBuffer, view
<1>2. ASSUME NEW i \in DOMAIN loads, LoadDone(i) PROVE FiltersInv'
  BY <1>1, <1>2, ViewChanges DEF LoadDone
<1>3. ASSUME NEW i \in DOMAIN loads, LoadFailed(i) PROVE FiltersInv'
  BY <1>1, <1>3, ViewChanges DEF LoadFailed, filterVars
<1>4. ASSUME NEW found \in SUBSET Files, EnumerateDone(found) PROVE FiltersInv'
  BY <1>1, <1>4, ViewChanges DEF EnumerateDone
<1>5. ASSUME NEW f \in Files, OpenFile(f) PROVE FiltersInv'
  BY <1>1, <1>5, ViewChanges DEF OpenFile
<1>6. CASE CloseActiveLog
  BY <1>1, <1>6, ViewChanges DEF CloseActiveLog
<1>7. ASSUME NEW l \in rows, SelectLog(l) PROVE FiltersInv'
  BY <1>1, <1>7, ViewChanges DEF SelectLog
<1>8. ASSUME NEW l \in rows, SelectDay(l) PROVE FiltersInv'
  BY <1>1, <1>8, ViewChanges DEF SelectDay
<1>9. ASSUME NEW l \in rows, ExpandRow(l) PROVE FiltersInv'
  BY <1>1, <1>9, ViewChanges DEF ExpandRow
<1>10. ASSUME NEW l \in rows, LogChanged(l) PROVE FiltersInv'
  BY <1>1, <1>10, ViewChanges DEF LogChanged, filterVars
<1>11. CASE ReadNewLines
  BY <1>1, <1>11, ViewChanges DEF ReadNewLines, FilterBuffer
<1> QED
  BY <1>2, <1>3, <1>4, <1>5, <1>6, <1>7, <1>8, <1>9, <1>10, <1>11

(* Showing another log, or other lines of it, leaves the lists as they are. *)
LEMMA ShowingStep ==
  ASSUME ManagerInv,
         \/ \E l \in rows : SelectLog(l) \/ SelectDay(l) \/ ExpandRow(l) \/ LogChanged(l)
         \/ ReadNewLines
  PROVE  ManagerInv'
<1>1. active_log \in DOMAIN file_of \cup {0} /\ rows \subseteq DOMAIN file_of
  BY DEF ManagerInv, ManagerTypes
<1> USE DEF SetActiveLog, history
<1>2. ASSUME NEW l \in rows, SelectLog(l) PROVE ManagerInv'
  BY <1>1, <1>2, ManagerStays DEF SelectLog
<1>3. ASSUME NEW l \in rows, SelectDay(l) PROVE ManagerInv'
  BY <1>1, <1>3, ManagerStays DEF SelectDay
<1>4. ASSUME NEW l \in rows, ExpandRow(l) PROVE ManagerInv'
  BY <1>1, <1>4, ManagerStays DEF ExpandRow
<1>5. ASSUME NEW l \in rows, LogChanged(l) PROVE ManagerInv'
  BY <1>1, <1>5, ManagerStays DEF LogChanged, settings, manager
<1>6. CASE ReadNewLines
  BY <1>1, <1>6, ManagerStays DEF ReadNewLines, settings, manager
<1> QED
  BY <1>2, <1>3, <1>4, <1>5, <1>6

Inv == FiltersInv /\ ManagerInv

LEMMA InvStays ==
  ASSUME Inv, [Next]_vars
  PROVE  Inv'
<1> USE DEF Inv
<1>1. active_log \in DOMAIN file_of \cup {0}
  BY DEF ManagerInv, ManagerTypes
<1>2. CASE FiltersNext /\ UNCHANGED managerVars
  <2>1. ManagerInv'
    BY <1>1, <1>2, ManagerStays DEF managerVars, settings, manager, list, history
  <2> QED
    BY <1>2, <2>1, FilterStep
<1>3. ASSUME NEW i \in DOMAIN loads, LoadDone(i) \/ LoadFailed(i) PROVE Inv'
  BY <1>3, FiltersLeftAlone, LoadDoneStep, LoadFailedStep
<1>4. ASSUME NEW found \in SUBSET Files, EnumerateDone(found) PROVE Inv'
  BY <1>4, FiltersLeftAlone, EnumerateStep
<1>5. ASSUME NEW f \in Files, OpenFile(f) PROVE Inv'
  BY <1>5, FiltersLeftAlone, OpenFileStep
<1>6. CASE CloseActiveLog
  BY <1>6, FiltersLeftAlone, CloseStep
<1>7. CASE \/ \E l \in rows : SelectLog(l) \/ SelectDay(l) \/ ExpandRow(l) \/ LogChanged(l)
           \/ ReadNewLines
  BY <1>7, FiltersLeftAlone, ShowingStep
<1>8. CASE UNCHANGED vars
  <2>1. UNCHANGED <<table, dialog, switch>> /\ tagged' = tagged
    BY <1>8 DEF vars, filterVars, view
  <2>2. UNCHANGED <<stored, file_of, logs, loads, op, rows, enumerating, history>>
    BY <1>8 DEF vars, managerVars, settings, manager, list
  <2>3. active_log' = active_log
    BY <1>8 DEF vars, managerVars, manager
  <2>4. FiltersInv'
    BY <2>1, ViewChanges DEF FiltersInv, TagsInv
  <2> QED
    BY <1>1, <2>2, <2>3, <2>4, ManagerStays
<1> QED
  BY <1>2, <1>3, <1>4, <1>5, <1>6, <1>7, <1>8 DEF Next, Undefined

LEMMA InvHolds == Spec => []Inv
<1>1. Init => Inv
  BY FiltersAtStart, ManagerAtStart DEF Init, Inv
<1>2. Inv /\ [Next]_vars => Inv'
  BY InvStays
<1> QED
  BY <1>1, <1>2, PTL DEF Spec

(* Whatever filters are added, renamed and removed, and whatever their     *)
(* expressions hold, a restart reads the ones of the table, and every name *)
(* of the menu has one tag; while the dialog is closed those that are on   *)
(* are in the table, the menu names exactly it, the tags are those of its  *)
(* filters, but for names of the window's own tags, and no text is tagged  *)
(* by a filter that is off.                                                *)
THEOREM FiltersStayInStep == Spec => []FiltersInStep
<1>1. Inv => FiltersInStep
  BY FiltersInStepHolds DEF Inv
<1> QED
  BY <1>1, InvHolds, PTL

(* In whatever order loads end, for any number of files: the rows of the   *)
(* list are the logs of the manager's table, for every file that was not   *)
(* opened or closed while a load was under way.                            *)
THEOREM RowsStayTheManagers == Spec => []RowsAreTheManagers
<1>1. Inv => RowsAreTheManagers
  BY RowsHold DEF Inv
<1> QED
  BY <1>1, InvHolds, PTL

(* Once the loads have ended the stored names are those of the logs that   *)
(* are open, and the files that could not be loaded are gone from them.    *)
THEOREM NextStartIsRight == Spec => []NextStartOpensThese
<1>1. Inv => NextStartOpensThese
  BY NextStartHolds DEF Inv
<1> QED
  BY <1>1, InvHolds, PTL

=============================================================================
