------------------------- MODULE LogviewReaderProofs -------------------------
(***************************************************************************)
(* Proofs about the reads of the log viewer, for any logs, any number of   *)
(* lines and reads, and any dates of the lines: no line is lost or         *)
(* returned twice, the cached days point at their own lines, and the view  *)
(* holds the active log.                                                   *)
(*                                                                         *)
(* Of the reads of one log only the one matters that has taken the NULL    *)
(* off the array: the array is then what was taken from the stream.  A     *)
(* second one ends the behaviour (raced).                                  *)
(***************************************************************************)
EXTENDS LogviewReader, SequenceTheorems, WellFoundedInduction, TLAPS

-----------------------------------------------------------------------------
(* Sequences.                                                              *)

(* What is left of a sequence without its i-th element. *)
LEMMA Removing ==
  ASSUME NEW S, NEW s \in Seq(S), NEW i \in DOMAIN s
  PROVE  /\ RemoveAt(s, i) \in Seq(S)
         /\ Len(RemoveAt(s, i)) = Len(s) - 1
         /\ DOMAIN RemoveAt(s, i) = 1..(Len(s) - 1)
         /\ \A j \in 1..(Len(s) - 1) :
              RemoveAt(s, i)[j] = s[IF j < i THEN j ELSE j + 1]
<1> DEFINE a == SubSeq(s, 1, i - 1)
           b == SubSeq(s, i + 1, Len(s))
<1>1. Len(s) \in Nat /\ DOMAIN s = 1..Len(s) /\ i \in 1..Len(s)
  BY LenProperties
<1>2. \A j \in 1..Len(s) : s[j] \in S
  BY ElementOfSeq
<1>3. /\ a \in Seq(S) /\ Len(a) = i - 1
      /\ \A j \in 1..(i - 1) : a[j] = s[j]
  <2>1. \A j \in 1..(i - 1) : s[j] \in S
    BY <1>1, <1>2
  <2>2. /\ a \in Seq(S) /\ Len(a) = IF 1 <= i - 1 THEN (i - 1) - 1 + 1 ELSE 0
        /\ \A j \in 1..((i - 1) - 1 + 1) : a[j] = s[1 + j - 1]
    BY <1>1, <2>1, SubSeqProperties
  <2> HIDE DEF a
  <2> QED
    BY <1>1, <2>2
<1>4. /\ b \in Seq(S) /\ Len(b) = Len(s) - i
      /\ \A j \in 1..(Len(s) - i) : b[j] = s[i + j]
  <2>1. \A j \in (i + 1)..Len(s) : s[j] \in S
    BY <1>1, <1>2
  <2>2. /\ b \in Seq(S)
        /\ Len(b) = IF i + 1 <= Len(s) THEN Len(s) - (i + 1) + 1 ELSE 0
        /\ \A j \in 1..(Len(s) - (i + 1) + 1) : b[j] = s[i + 1 + j - 1]
    BY <1>1, <2>1, SubSeqProperties
  <2> HIDE DEF b
  <2>3. Len(b) = Len(s) - i
    BY <1>1, <2>2
  <2>4. ASSUME NEW j \in 1..(Len(s) - i) PROVE b[j] = s[i + j]
    <3>1. j \in 1..(Len(s) - (i + 1) + 1) /\ i + 1 + j - 1 = i + j
      BY <1>1
    <3> QED
      BY <2>2, <3>1
  <2> QED
    BY <2>2, <2>3, <2>4
<1> HIDE DEF a, b
<1>5. /\ a \o b \in Seq(S)
      /\ Len(a \o b) = Len(a) + Len(b)
      /\ \A j \in 1..(Len(a) + Len(b)) :
           (a \o b)[j] = IF j <= Len(a) THEN a[j] ELSE b[j - Len(a)]
  BY <1>3, <1>4, ConcatProperties
<1>6. RemoveAt(s, i) = a \o b
  BY DEF RemoveAt, a, b
<1>7. Len(a) + Len(b) = Len(s) - 1
  BY <1>1, <1>3, <1>4
<1>8. ASSUME NEW j \in 1..(Len(s) - 1)
      PROVE  (a \o b)[j] = s[IF j < i THEN j ELSE j + 1]
  <2>1. (a \o b)[j] = IF j <= Len(a) THEN a[j] ELSE b[j - Len(a)]
    BY <1>5, <1>7
  <2>2. CASE j < i
    BY <1>1, <1>3, <2>1, <2>2
  <2>3. CASE ~ (j < i)
    <3>1. ~ (j <= Len(a)) /\ j - Len(a) \in 1..(Len(s) - i) /\ i + (j - Len(a)) = j + 1
      BY <1>1, <1>3, <2>3
    <3> QED
      BY <1>4, <2>1, <2>3, <3>1
  <2> QED
    BY <2>2, <2>3
<1>9. DOMAIN (a \o b) = 1..(Len(s) - 1)
  BY <1>5, <1>7, LenProperties
<1> QED
  BY <1>5, <1>6, <1>7, <1>8, <1>9

(* The first numbers, and what is counted from one of them on.             *)
LEMMA UptoIs ==
  ASSUME NEW n \in Nat
  PROVE  /\ Upto(n) \in Seq(Nat) /\ Len(Upto(n)) = n /\ \A i \in 1..n : Upto(n)[i] = i
         /\ Append(Upto(n), n + 1) = Upto(n + 1)
         /\ n > 0 => Upto(n) # <<>>
         /\ Upto(0) = <<>>
BY DEF Upto

Terminated(n) == Append(Upto(n), 0)

LEMMA TerminatedIs ==
  ASSUME NEW n \in Nat
  PROVE  /\ Terminated(n) \in Seq(Nat) /\ Len(Terminated(n)) = n + 1
         /\ Terminated(n) # <<>> /\ Front(Terminated(n)) = Upto(n)
<1>1. Upto(n) \in Seq(Nat) /\ Len(Upto(n)) = n
  BY UptoIs
<1> QED BY <1>1 DEF Terminated, Front

(* The strings from a position on: up to the NULL, or to the end.          *)
Rest(n, k) == [i \in 1..n - k |-> k + i]

LEMMA FromArray ==
  ASSUME NEW n \in Nat, NEW k \in 0..n
  PROVE  From(Terminated(n), k) = Rest(n, k)
<1> DEFINE ls == Terminated(n)
<1>1. Len(ls) = n + 1 /\ ls[n + 1] = 0 /\ \A i \in 1..n : ls[i] = i
  BY DEF Upto, Terminated
<1>2. {j \in 1..Len(ls) - k : \A m \in 1..j : ls[k + m] # 0} = 1..n - k
  <2> HIDE DEF ls
  <2>1. \A m \in 1..n - k : ls[k + m] # 0
    BY <1>1
  <2>2. ls[k + (n - k + 1)] = 0
    BY <1>1
  <2> QED BY <1>1, <2>1, <2>2
<1>3. \A i \in 1..n - k : ls[k + i] = k + i
  BY <1>1
<1> QED BY <1>2, <1>3 DEF From, Rest

LEMMA FromOpenArray ==
  ASSUME NEW n \in Nat
  PROVE  From(Upto(n), 0) = Upto(n)
<1>1. Len(Upto(n)) = n /\ \A i \in 1..n : Upto(n)[i] = i
  BY UptoIs
<1> DEFINE ls == Upto(n)
<1>2. {j \in 1..Len(ls) - 0 : \A m \in 1..j : ls[0 + m] # 0} = 1..n
  <2> HIDE DEF ls
  <2>1. \A m \in 1..n : ls[0 + m] # 0
    BY <1>1 DEF ls
  <2> QED BY <1>1, <2>1 DEF ls
<1>3. From(ls, 0) = [i \in 1..n |-> ls[0 + i]]
  BY <1>2 DEF From
<1>4. From(ls, 0) = [i \in 1..n |-> i]
  <2>1. \A i \in 1..n : ls[0 + i] = i
    BY <1>1
  <2> HIDE DEF ls
  <2> QED BY <1>3, <2>1
<1> QED BY <1>4 DEF Upto

LEMMA FromNothing == From(<<>>, 0) = <<>>
<1>1. Upto(0) = <<>> /\ From(Upto(0), 0) = Upto(0)
  BY UptoIs, FromOpenArray
<1> QED BY <1>1

LEMMA RestIs ==
  ASSUME NEW n \in Nat, NEW k \in 0..n
  PROVE  /\ Rest(n, k) \in Seq(Nat) /\ Len(Rest(n, k)) = n - k
         /\ \A i \in 1..n - k : Rest(n, k)[i] = k + i
         /\ Rest(n, 0) = Upto(n)
         /\ Upto(k) \o Rest(n, k) = Upto(n)
<1>1. /\ Rest(n, k) \in Seq(Nat) /\ Len(Rest(n, k)) = n - k
      /\ \A i \in 1..n - k : Rest(n, k)[i] = k + i
  BY DEF Rest
<1>2. Rest(n, 0) = Upto(n)
  BY DEF Rest, Upto
<1>3. Upto(k) \o Rest(n, k) = Upto(n)
  <2>1. Upto(k) \in Seq(Nat) /\ Len(Upto(k)) = k /\ \A i \in 1..k : Upto(k)[i] = i
    BY UptoIs
  <2>2. /\ Upto(n) \in Seq(Nat) /\ Len(Upto(n)) = n /\ \A i \in 1..n : Upto(n)[i] = i
    BY UptoIs
  <2> DEFINE s == Upto(k) \o Rest(n, k)
  <2>3. s \in Seq(Nat) /\ Len(s) = n
        /\ \A i \in 1..n : s[i] = IF i <= k THEN Upto(k)[i] ELSE Rest(n, k)[i - k]
    BY <1>1, <2>1, ConcatProperties
  <2>4. \A i \in 1..n : s[i] = Upto(n)[i]
    <3> HIDE DEF s
    <3> TAKE i \in 1..n
    <3>1. CASE i <= k
      BY <2>1, <2>2, <2>3, <3>1
    <3>2. CASE i > k
      <4>1. i - k \in 1..n - k /\ k + (i - k) = i
        BY <3>2
      <4>2. Rest(n, k)[i - k] = i
        BY <1>1, <4>1
      <4>3. s[i] = Rest(n, k)[i - k]
        BY <2>3, <3>2
      <4> QED BY <2>2, <4>2, <4>3
    <3> QED BY <3>1, <3>2
  <2> HIDE DEF s
  <2>5. s = Upto(n)
    BY <2>2, <2>3, <2>4, SeqEqual
  <2> QED BY <2>5 DEF s
<1> QED BY <1>1, <1>2, <1>3

(* A set of numbers with a bound has a largest and a smallest.              *)
LEMMA LeastOf ==
  ASSUME NEW S \in SUBSET Nat, S # {}
  PROVE  Min(S) \in S /\ \A d \in S : Min(S) <= d
<1>1. PICK c \in S : \A d \in S : <<d, c>> \notin OpToRel(<, Nat)
  BY NatLessThanWellFounded, WFMin
<1>2. \A d \in S : ~(d < c)
  BY <1>1 DEF OpToRel
<1>3. \A d \in S : c <= d
  BY <1>2
<1> QED BY <1>3 DEF Min

LEMMA MostOf ==
  ASSUME NEW S \in SUBSET Nat, S # {}, NEW n \in Nat, \A y \in S : y <= n
  PROVE  /\ Max(S) \in S /\ \A d \in S : d <= Max(S)
         /\ \E x \in S : \A y \in S : y <= x
<1> DEFINE T == {n - y : y \in S}
<1>1. T \in SUBSET Nat /\ T # {}
  <2>1. \A y \in S : n - y \in Nat
    OBVIOUS
  <2>2. \E y : y \in S
    OBVIOUS
  <2> QED BY <2>1, <2>2
<1>2. Min(T) \in T /\ \A u \in T : Min(T) <= u
  <2> HIDE DEF T
  <2> QED BY <1>1, LeastOf
<1>3. PICK x \in S : Min(T) = n - x
  BY <1>2
<1>4. \A y \in S : x >= y
  <2> TAKE y \in S
  <2>1. n - y \in T
    OBVIOUS
  <2>2. n - x <= n - y
    BY <1>2, <1>3, <2>1
  <2> QED BY <2>2
<1>5. Max(S) \in S /\ \A y \in S : Max(S) >= y
  BY <1>4 DEF Max
<1> QED BY <1>4, <1>5

-----------------------------------------------------------------------------
(* The days.                                                               *)

DaySet == [date : Nat, first_line : Nat, last_line : Nat]

LEMMA DatesIn ==
  ASSUME NEW l \in Logs, NEW i \in 1..Len(Dates[l])
  PROVE  Dates[l][i] \in Nat /\ Len(Dates[l]) \in Nat
<1>1. Dates[l] \in Seq(Nat)
  BY DatesAssumption
<1> QED BY <1>1, ElementOfSeq, LenProperties

LEMMA DatesRise ==
  ASSUME NEW l \in Logs, NEW i \in 1..Len(Dates[l]), NEW j \in 1..Len(Dates[l]),
         i <= j, Dates[l][i] # 0, Dates[l][j] # 0
  PROVE  Dates[l][i] <= Dates[l][j]
<1>1. Dates[l] \in Seq(Nat) /\ DOMAIN Dates[l] = 1..Len(Dates[l])
  BY DatesAssumption, LenProperties
<1> QED BY <1>1, DatesAssumption

LEMMA ShiftIs ==
  ASSUME NEW d \in DaySet, NEW k \in Nat
  PROVE  /\ Shift(d, k) \in DaySet
         /\ Shift(d, k) = [date |-> d.date, first_line |-> d.first_line + k,
                           last_line |-> d.last_line + k]
         /\ k = 0 => Shift(d, k) = d
<1>1. d = [date |-> d.date, first_line |-> d.first_line, last_line |-> d.last_line]
      /\ d.date \in Nat /\ d.first_line \in Nat /\ d.last_line \in Nat
  BY DEF DaySet
<1>2. Shift(d, k) = [date |-> d.date, first_line |-> d.first_line + k,
                     last_line |-> d.last_line + k]
  BY DEF Shift
<1>3. [date |-> d.date, first_line |-> d.first_line + k, last_line |-> d.last_line + k] \in DaySet
  BY <1>1 DEF DaySet
<1>4. k = 0 => d.first_line + k = d.first_line /\ d.last_line + k = d.last_line
  BY <1>1
<1> QED BY <1>1, <1>2, <1>3, <1>4

(* A day has lines, all of them counted; it begins with its date, and its  *)
(* lines have no other.                                                    *)
DayHolds(l, d, n) ==
  /\ d.date # 0 /\ d.first_line <= d.last_line /\ d.last_line < n
  /\ Dates[l][d.first_line + 1] = d.date
  /\ \A k \in d.first_line + 1..d.last_line + 1 : Dates[l][k] \in {0, d.date}
DatesDiffer(ds) == \A d, e \in ds : e.date = d.date => e = d
DaysHold(l, ds, n) ==
  /\ ds \in SUBSET DaySet /\ \A d \in ds : DayHolds(l, d, n)
  /\ DatesDiffer(ds) /\ (ds = {} => n = 0)

(* The lines from one with a date up to the next with a later one.          *)
LEMMA LinesOfADay ==
  ASSUME NEW l \in Logs, NEW a \in 1..Len(Dates[l]), NEW b \in 1..Len(Dates[l]),
         Dates[l][a] # 0, \A k \in a..b : ~(Dates[l][k] > Dates[l][a])
  PROVE  \A k \in a..b : Dates[l][k] \in {0, Dates[l][a]}
<1> TAKE k \in a..b
<1>1. k \in 1..Len(Dates[l]) /\ a <= k
  BY DatesIn
<1>2. Dates[l][k] \in Nat /\ Dates[l][a] \in Nat
  BY <1>1, DatesIn
<1>3. Dates[l][k] # 0 => Dates[l][a] <= Dates[l][k]
  BY <1>1, DatesRise
<1>4. ~(Dates[l][k] > Dates[l][a])
  OBVIOUS
<1> QED BY <1>2, <1>3, <1>4

(* Of the lines from k + 1 to n.                                           *)
Day(l, ls, d) ==
  [date |-> d, first_line |-> Min(At(l, ls, d)) - 1, last_line |-> Min(After(l, ls, d)) - 2]

LEMMA DayRead ==
  ASSUME NEW l \in Logs, NEW n \in 0..Len(Dates[l]), NEW k \in 0..n,
         NEW i \in 1..n - k, NEW d, d = Dates[l][k + i], d # 0
  PROVE  LET day == Day(l, Rest(n, k), d)
         IN  day \in DaySet /\ day.date = d /\ DayHolds(l, Shift(day, k), n)
<1>0. Len(Dates[l]) \in Nat /\ Len(Rest(n, k)) = n - k
  <2>1. Len(Dates[l]) \in Nat
    BY DatesAssumption, LenProperties
  <2> QED BY <2>1, RestIs
<1> DEFINE S == At(l, Rest(n, k), d)
           T == After(l, Rest(n, k), d)
<1>1. DOMAIN Rest(n, k) = 1..n - k /\ \A j \in 1..n - k : Rest(n, k)[j] = k + j
  BY DEF Rest
<1>2. S = {j \in 1..n - k : Dates[l][k + j] = d}
  BY <1>1 DEF At
<1>3. T = {j \in 1..n - k : Dates[l][k + j] > d} \cup {n - k + 1}
  BY <1>0, <1>1 DEF After
<1> HIDE DEF S, T
<1>4. i \in S /\ S \in SUBSET Nat /\ n - k + 1 \in T /\ T \in SUBSET Nat
  BY <1>0, <1>2, <1>3
<1>5. PICK x \in S : x = Min(S) /\ \A j \in S : x <= j
  BY <1>4, LeastOf
<1>6. PICK y \in T : y = Min(T) /\ \A j \in T : y <= j
  BY <1>4, LeastOf
<1>7. x \in 1..n - k /\ Dates[l][k + x] = d /\ y \in 1..n - k + 1
  BY <1>0, <1>2, <1>3, <1>5, <1>6
<1>8. ASSUME NEW j \in 1..n - k, Dates[l][k + j] > d PROVE x < j
  <2>1. k + j \in 1..Len(Dates[l]) /\ k + x \in 1..Len(Dates[l])
    BY <1>0, <1>7
  <2>2. Dates[l][k + j] \in Nat /\ d \in Nat
    BY <1>7, <2>1, DatesIn
  <2>3. CASE k + j <= k + x
    <3>1. Dates[l][k + j] <= Dates[l][k + x]
      BY <1>7, <1>8, <2>1, <2>2, <2>3, DatesRise
    <3> QED BY <1>7, <1>8, <2>2, <3>1
  <2> QED BY <1>0, <1>7, <2>3
<1>9. x < y
  <2>1. y = n - k + 1 \/ (y \in 1..n - k /\ Dates[l][k + y] > d)
    BY <1>3, <1>6
  <2> QED BY <1>0, <1>7, <1>8, <2>1
<1>10. \A m \in k + x..k + y - 1 : Dates[l][m] \in {0, d}
  <2>1. k + x \in 1..Len(Dates[l]) /\ k + y - 1 \in 1..Len(Dates[l])
    BY <1>0, <1>7, <1>9
  <2>2. ASSUME NEW m \in k + x..k + y - 1 PROVE ~(Dates[l][m] > Dates[l][k + x])
    <3>1. m - k \in 1..n - k /\ k + (m - k) = m /\ m - k < y
      BY <1>0, <1>7, <1>9
    <3>2. m - k \notin T
      BY <1>6, <1>7, <3>1
    <3> QED BY <1>3, <1>7, <3>1, <3>2
  <2> QED BY <1>7, <2>1, <2>2, LinesOfADay
<1> DEFINE day == Day(l, Rest(n, k), d)
<1>11. day = [date |-> d, first_line |-> x - 1, last_line |-> y - 2]
  BY <1>5, <1>6 DEF Day, S, T
<1> HIDE DEF day
<1>12. d \in Nat
  <2>1. k + x \in 1..Len(Dates[l])
    BY <1>0, <1>7
  <2> QED BY <1>7, <2>1, DatesIn
<1>13. day \in DaySet /\ day.date = d
  <2>1. x - 1 \in Nat /\ y - 2 \in Nat
    BY <1>0, <1>7, <1>9
  <2> QED BY <1>11, <1>12, <2>1 DEF DaySet
<1>14. Shift(day, k) = [date |-> d, first_line |-> x - 1 + k, last_line |-> y - 2 + k]
  BY <1>11 DEF Shift
<1>15. x - 1 + k + 1 = k + x /\ y - 2 + k + 1 = k + y - 1
       /\ x - 1 + k <= y - 2 + k /\ y - 2 + k < n
  BY <1>0, <1>7, <1>9
<1>16. DayHolds(l, Shift(day, k), n)
  BY <1>7, <1>10, <1>14, <1>15 DEF DayHolds
<1> QED BY <1>13, <1>16 DEF day

LEMMA DatesRead ==
  ASSUME NEW l \in Logs, NEW n \in 0..Len(Dates[l]), NEW k \in 0..n
  PROVE  LET new == LogReadDates(l, Rest(n, k))
         IN  /\ new \in SUBSET DaySet /\ DatesDiffer(new)
             /\ (BeginsWithDate(l) /\ k = 0 /\ new = {} => n = 0)
             /\ \A d \in new : DayHolds(l, Shift(d, k), n)
<1> DEFINE ls  == Rest(n, k)
           new == LogReadDates(l, ls)
<1>0. Len(Dates[l]) \in Nat
  BY DatesAssumption, LenProperties
<1>1. DOMAIN ls = 1..n - k /\ \A i \in 1..n - k : ls[i] = k + i
  BY DEF Rest
<1>2. new = {Day(l, ls, d) : d \in {Dates[l][ls[i]] : i \in DOMAIN ls} \ {0}}
  BY DEF LogReadDates, Day
<1> HIDE DEF ls, new
<1>3. \A e \in new : \E i \in 1..n - k :
        Dates[l][k + i] # 0 /\ e = Day(l, ls, Dates[l][k + i])
  BY <1>1, <1>2
<1>4. ASSUME NEW i \in 1..n - k, Dates[l][k + i] # 0
      PROVE  /\ Day(l, ls, Dates[l][k + i]) \in DaySet
             /\ Day(l, ls, Dates[l][k + i]).date = Dates[l][k + i]
             /\ DayHolds(l, Shift(Day(l, ls, Dates[l][k + i]), k), n)
  <2>1. PICK d : d = Dates[l][k + i]
    OBVIOUS
  <2>2. d # 0
    BY <1>4, <2>1
  <2> QED BY <2>1, <2>2, DayRead DEF ls
<1>5. new \in SUBSET DaySet /\ \A e \in new : DayHolds(l, Shift(e, k), n)
  BY <1>3, <1>4
<1>6. DatesDiffer(new)
  <2>1. \A e \in new : e = Day(l, ls, e.date)
    BY <1>3, <1>4
  <2> QED BY <2>1 DEF DatesDiffer
<1>7. ASSUME BeginsWithDate(l), k = 0, 0 < n PROVE new # {}
  <2>1. 1 \in 1..n - k /\ k + 1 = 1 /\ 1 \in DOMAIN ls
    BY <1>0, <1>1, <1>7
  <2>2. Dates[l][ls[1]] # 0
    <3>1. Dates[l] # <<>>
      BY <1>0, <1>7
    <3> QED BY <1>1, <1>7, <2>1, <3>1 DEF BeginsWithDate
  <2> QED BY <1>2, <2>1, <2>2
<1> QED BY <1>0, <1>5, <1>6, <1>7 DEF ls, new

(* The last of the days there are.                                         *)
LEMMA LastDayIs ==
  ASSUME NEW l \in Logs, NEW n \in 0..Len(Dates[l]), NEW ds, DaysHold(l, ds, n), ds # {}
  PROVE  /\ LastDay(ds) \in ds
         /\ \A e \in ds : e.date <= LastDay(ds).date
<1> DEFINE S == {d.first_line : d \in ds}
<1>0. Len(Dates[l]) \in Nat
  BY DatesAssumption, LenProperties
<1>1. \A d \in ds : /\ d \in DaySet /\ d.first_line \in Nat /\ d.date \in Nat /\ d.date # 0
                    /\ d.first_line + 1 \in 1..Len(Dates[l]) /\ d.first_line <= n
                    /\ Dates[l][d.first_line + 1] = d.date
  <2> TAKE d \in ds
  <2>1. d \in DaySet /\ DayHolds(l, d, n)
    BY DEF DaysHold
  <2>2. d.first_line \in Nat /\ d.last_line \in Nat /\ d.date \in Nat
    BY <2>1 DEF DaySet
  <2> QED BY <1>0, <2>1, <2>2 DEF DayHolds
<1>2. S \in SUBSET Nat /\ S # {} /\ \A y \in S : y <= n
  BY <1>1
<1>3. PICK x \in S : \A y \in S : y <= x
  <2> HIDE DEF S
  <2>1. n \in Nat
    BY <1>0
  <2> QED BY <1>2, <2>1, MostOf
<1>4. PICK d \in ds : x = d.first_line
  BY <1>3
<1>5. ASSUME NEW e \in ds PROVE e.date <= d.date
  <2>1. e.first_line <= d.first_line
    BY <1>3, <1>4
  <2>2. e.first_line + 1 <= d.first_line + 1
    BY <1>1, <2>1
  <2>3. Dates[l][e.first_line + 1] <= Dates[l][d.first_line + 1]
    BY <1>1, <2>2, DatesRise
  <2> QED BY <1>1, <2>3
<1> HIDE DEF S
<1>6. \E f \in ds : \A e \in ds : e.date <= f.date
  BY <1>5
<1> QED BY <1>6 DEF LastDay

(* The last day goes on: its end moves over lines of the same date, if not *)
(* as far as it should.                                                    *)
LEMMA DayGoesOn ==
  ASSUME NEW l \in Logs, NEW n \in 0..Len(Dates[l]), NEW k \in 0..n,
         NEW d \in DaySet, DayHolds(l, d, k),
         NEW e \in DaySet, e.date = d.date, DayHolds(l, Shift(e, k), n)
  PROVE  LET more == [d EXCEPT !.last_line = @ + e.last_line]
         IN  more \in DaySet /\ DayHolds(l, more, n) /\ more.date = d.date
<1> DEFINE a == d.last_line
           b == e.last_line
           f == d.first_line
           g == e.first_line
           more == [d EXCEPT !.last_line = @ + b]
<1>0. Len(Dates[l]) \in Nat /\ k \in Nat /\ n \in Nat
  BY DatesAssumption, LenProperties
<1>1. a \in Nat /\ b \in Nat /\ f \in Nat /\ g \in Nat /\ d.date \in Nat
  BY DEF DaySet
<1>2. Shift(e, k) = [date |-> d.date, first_line |-> g + k, last_line |-> b + k]
  BY <1>0, ShiftIs
<1>3. more = [date |-> d.date, first_line |-> f, last_line |-> a + b]
  BY DEF DaySet
<1> HIDE DEF a, b, f, g, more
<1>4. /\ b + k < n /\ g + k <= b + k /\ Dates[l][g + k + 1] = d.date
      /\ \A j \in g + k + 1..b + k + 1 : Dates[l][j] \in {0, d.date}
  BY <1>2 DEF DayHolds
<1>5. a < k /\ f <= a /\ Dates[l][f + 1] = d.date /\ d.date # 0
  BY DEF DayHolds, a, f
<1>6. more \in DaySet /\ more.date = d.date
  BY <1>1, <1>3 DEF DaySet
<1>7. ASSUME NEW j \in f + 1..a + b + 1 PROVE Dates[l][j] \in {0, d.date}
  <2>1. CASE j >= g + k + 1
    <3>1. j \in g + k + 1..b + k + 1
      BY <1>0, <1>1, <1>4, <1>5, <2>1
    <3> QED BY <1>4, <3>1
  <2>2. CASE ~(j >= g + k + 1)
    <3>1. /\ f + 1 <= j /\ j <= g + k + 1 /\ j \in 1..Len(Dates[l])
          /\ f + 1 \in 1..Len(Dates[l]) /\ g + k + 1 \in 1..Len(Dates[l])
      BY <1>0, <1>1, <1>4, <1>5, <2>2
    <3>2. CASE Dates[l][j] # 0
      <4>1. Dates[l][f + 1] <= Dates[l][j] /\ Dates[l][j] <= Dates[l][g + k + 1]
        BY <1>4, <1>5, <3>1, <3>2, DatesRise
      <4>2. Dates[l][j] \in Nat
        BY <3>1, DatesIn
      <4> QED BY <1>1, <1>4, <1>5, <4>1, <4>2
    <3> QED BY <3>2
  <2> QED BY <2>1, <2>2
<1>8. f <= a + b /\ a + b < n
  BY <1>0, <1>1, <1>4, <1>5
<1>9. DayHolds(l, more, n)
  BY <1>3, <1>5, <1>7, <1>8 DEF DayHolds
<1> QED BY <1>6, <1>9 DEF more, b

LEMMA DaysAdded ==
  ASSUME NEW l \in Logs, BeginsWithDate(l), NEW n \in 0..Len(Dates[l]), NEW k \in 0..n,
         NEW old, DaysHold(l, old, k), NEW new, new = LogReadDates(l, Rest(n, k))
  PROVE  DaysHold(l, AddNewDays(old, new, k), n)
<1>0. n \in Nat /\ k \in Nat
  BY DatesAssumption, LenProperties
<1>1. /\ new \in SUBSET DaySet /\ DatesDiffer(new) /\ (k = 0 /\ new = {} => n = 0)
      /\ \A d \in new : DayHolds(l, Shift(d, k), n)
  BY DatesRead
<1>2. \A d \in new : Shift(d, k) \in DaySet /\ Shift(d, k).date = d.date
  BY <1>0, <1>1, ShiftIs
<1>3. \A d \in old : d \in DaySet /\ DayHolds(l, d, k) /\ DayHolds(l, d, n)
  BY <1>0 DEF DaysHold, DayHolds, DaySet
<1>4. CASE old = {}
  <2>1. k = 0 /\ AddNewDays(old, new, k) = new
    BY <1>4 DEF AddNewDays, DaysHold
  <2>2. \A d \in new : Shift(d, k) = d
    BY <1>1, <2>1, ShiftIs
  <2> QED BY <1>1, <2>1, <2>2 DEF DaysHold
<1>5. CASE old # {}
  <2> DEFINE last == LastDay(old)
             same == {e \in new : e.date = last.date}
             more == {d.last_line : d \in same}
             on   == [last EXCEPT !.last_line = @ + (IF more = {} THEN 0 ELSE Max(more))]
             late == {Shift(d, k) : d \in {e \in new : e.date > last.date}}
  <2>1. last \in old /\ \A e \in old : e.date <= last.date
    <3>1. k \in 0..Len(Dates[l])
      BY <1>0, DatesAssumption, LenProperties
    <3> QED BY <1>5, <3>1, LastDayIs
  <2>2. AddNewDays(old, new, k) = ((old \ {last}) \cup {on}) \cup late
    BY <1>5 DEF AddNewDays
  <2>3. on \in DaySet /\ DayHolds(l, on, n) /\ on.date = last.date
    <3>1. CASE more = {}
      <4>1. on = last
        BY <1>3, <3>1, <2>1 DEF DaySet
      <4> HIDE DEF on
      <4> QED BY <4>1, <2>1, <1>3
    <3>2. CASE more # {}
      <4>1. PICK e \in same : TRUE
        BY <3>2
      <4>2. e \in new /\ e.date = last.date /\ \A d \in same : d = e
        BY <4>1, <1>1 DEF DatesDiffer
      <4>3. more = {e.last_line} /\ e.last_line \in Nat
        BY <1>1, <4>1, <4>2 DEF DaySet
      <4>4. Max(more) = e.last_line
        <5> HIDE DEF more
        <5>1. more \in SUBSET Nat /\ more # {} /\ \A y \in more : y <= e.last_line
          BY <4>3
        <5>2. Max(more) \in more
          BY <4>3, <5>1, MostOf
        <5> QED BY <4>3, <5>2
      <4>5. on = [last EXCEPT !.last_line = @ + e.last_line]
        BY <3>2, <4>4
      <4> HIDE DEF on, last, same, more
      <4> QED BY <2>1, <1>1, <1>3, <4>2, <4>5, DayGoesOn
    <3> QED BY <3>1, <3>2
  <2>4. \A d \in late : d \in DaySet /\ DayHolds(l, d, n) /\ d.date > last.date
    BY <1>1, <1>2
  <2>5. DatesDiffer(late)
    BY <1>1, <1>2 DEF DatesDiffer
  <2>6. \A d \in old \ {last} : d \in DaySet /\ DayHolds(l, d, n) /\ d.date < last.date
    <3> TAKE d \in old \ {last}
    <3>1. d.date <= last.date /\ d.date # last.date
      BY <2>1 DEF DaysHold, DatesDiffer
    <3>2. d.date \in Nat /\ last.date \in Nat
      BY <1>3, <2>1 DEF DaySet
    <3> QED BY <1>3, <3>1, <3>2
  <2>7. last.date \in Nat
    BY <1>3, <2>1 DEF DaySet
  <2>8. DatesDiffer(old \ {last})
    BY DEF DaysHold, DatesDiffer
  <2> HIDE DEF last, on, late
  <2> DEFINE all == ((old \ {last}) \cup {on}) \cup late
  <2>9. all \in SUBSET DaySet /\ all # {} /\ \A d \in all : DayHolds(l, d, n)
    BY <2>3, <2>4, <2>6
  <2>10. DatesDiffer(all)
    <3> SUFFICES ASSUME NEW d \in all, NEW e \in all, e.date = d.date PROVE e = d
      BY DEF DatesDiffer
    <3>1. d.date \in Nat
      BY <2>9 DEF DaySet
    <3>2. CASE d.date < last.date
      <4>1. d \in old \ {last} /\ e \in old \ {last}
        BY <3>1, <3>2, <2>3, <2>4, <2>7
      <4> QED BY <4>1, <2>8 DEF DatesDiffer
    <3>3. CASE d.date = last.date
      BY <3>1, <3>3, <2>3, <2>4, <2>6, <2>7
    <3>4. CASE d.date > last.date
      <4>1. d \in late /\ e \in late
        BY <3>1, <3>4, <2>3, <2>6, <2>7
      <4> QED BY <4>1, <2>5 DEF DatesDiffer
    <3> QED BY <3>1, <3>2, <3>3, <3>4, <2>7
  <2> HIDE DEF all
  <2>11. DaysHold(l, all, n)
    BY <2>9, <2>10 DEF DaysHold
  <2> QED BY <2>2, <2>11 DEF all
<1> QED BY <1>4, <1>5

-----------------------------------------------------------------------------
(* The state.                                                              *)

ReadSet   == [log : Logs, at : {"pushed", "reading", "end"}, cancelled : {0, 1}]
ResultSet == [log : Logs, err : {0, 1}, from : Nat, len : Nat]
Counts    == [Logs -> Nat]

Typed ==
  /\ taken \in Counts /\ lines_no \in Counts /\ cached \subseteq Logs
  /\ lines \in [Logs -> Seq(Nat)] /\ given \in [Logs -> Seq(Nat)]
  /\ file \in Counts /\ days = [l \in Logs |-> days[l]]
  /\ reads \in Seq(ReadSet) /\ idle \in Seq(ResultSet)
  /\ {active, monitor_id} \subseteq Logs \cup {None} /\ handlers \in Counts
  /\ monitor_id # None => handlers[monitor_id] > 0
  /\ raced \in {0, 1} /\ calm \in {0, 1}

(* The reads of a log that have taken the NULL off its array.              *)
Running(l) == {i \in DOMAIN reads : reads[i].log = l /\ reads[i].at # "pushed"}

(* The array holds what was taken from the stream, and ends with the NULL  *)
(* unless the one thread that reads the log has it.                        *)
ArrayHolds(l) ==
  /\ \A i, j \in Running(l) : i = j
  /\ l \notin cached => taken[l] = 0 /\ lines[l] = <<>> /\ Running(l) = {}
  /\ l \in cached =>
       lines[l] = IF Running(l) = {} THEN Terminated(taken[l]) ELSE Upto(taken[l])

(* What was returned is counted, and is an initial part of it.             *)
CountHolds(l) ==
  /\ given[l] = Upto(lines_no[l]) /\ lines_no[l] <= taken[l]
  /\ taken[l] <= file[l] /\ file[l] <= Len(Dates[l])

DaysTrue(l) == BeginsWithDate(l) => DaysHold(l, days[l], lines_no[l])

LinesInv ==
  /\ Typed
  /\ \A l \in Logs : CountHolds(l) /\ DaysTrue(l)
  /\ raced = 0 => \A l \in Logs : ArrayHolds(l)

LEMMA UnterminatedIs ==
  ASSUME NEW l
  PROVE  Unterminated(l) <=> Running(l) # {}
BY DEF Unterminated, Running

-----------------------------------------------------------------------------
(* The list of the reads.                                                  *)

LEMMA CancelIs ==
  ASSUME NEW rs \in Seq(ReadSet)
  PROVE  /\ Cancel(rs) \in Seq(ReadSet) /\ Len(Cancel(rs)) = Len(rs)
         /\ \A i \in 1..Len(rs) : Cancel(rs)[i].log = rs[i].log /\ Cancel(rs)[i].at = rs[i].at
<1>1. CASE rs = <<>>
  BY <1>1 DEF Cancel
<1>2. CASE rs # <<>>
  <2> DEFINE n == Len(rs)
             r == [rs[n] EXCEPT !.cancelled = 1]
  <2>1. n \in 1..n /\ n \in Nat /\ DOMAIN rs = 1..n /\ \A i \in 1..n : rs[i] \in ReadSet
    BY <1>2, LenProperties, EmptySeq, ElementOfSeq
  <2>2. rs[n] \in ReadSet
    BY <2>1
  <2>3. r \in ReadSet /\ r.log = rs[n].log /\ r.at = rs[n].at
    <3> HIDE DEF n
    <3> QED BY <2>2 DEF ReadSet
  <2>4. Cancel(rs) = [rs EXCEPT ![n] = r]
    BY <1>2 DEF Cancel
  <2> HIDE DEF r
  <2>5. /\ Cancel(rs) \in Seq(ReadSet) /\ Len(Cancel(rs)) = n
        /\ \A i \in 1..n : Cancel(rs)[i] = IF i = n THEN r ELSE rs[i]
    BY <2>1, <2>3, <2>4, ExceptSeq
  <2> QED BY <2>3, <2>5
<1> QED BY <1>1, <1>2

(* A push changes nothing of the reads there are, but that one is cancelled. *)
Pushed(new) ==
  /\ new \in Seq(ReadSet) /\ Len(new) >= Len(reads)
  /\ \A i \in 1..Len(reads) : new[i].log = reads[i].log /\ new[i].at = reads[i].at
  /\ \A i \in 1..Len(new) : i > Len(reads) => new[i].at = "pushed"

LEMMA PushedNone == reads \in Seq(ReadSet) => Pushed(reads)
<1>1. reads \in Seq(ReadSet) => Len(reads) \in Nat
  BY LenProperties
<1> QED BY <1>1 DEF Pushed

LEMMA PushedOne ==
  ASSUME reads \in Seq(ReadSet), NEW l \in Logs
  PROVE  /\ Pushed(ScheduleLogRead(l)) /\ Len(ScheduleLogRead(l)) = Len(reads) + 1
         /\ ScheduleLogRead(l)[Len(reads) + 1] = NewRead(l)
<1> DEFINE c == Cancel(reads)
<1>1. NewRead(l) \in ReadSet /\ NewRead(l).at = "pushed"
  BY DEF NewRead, ReadSet
<1>2. /\ c \in Seq(ReadSet) /\ Len(c) = Len(reads) /\ Len(reads) \in Nat
      /\ \A i \in 1..Len(reads) : c[i].log = reads[i].log /\ c[i].at = reads[i].at
  BY CancelIs, LenProperties
<1> HIDE DEF c
<1> DEFINE s == Append(c, NewRead(l))
<1>3. /\ s \in Seq(ReadSet) /\ Len(s) = Len(c) + 1 /\ s[Len(c) + 1] = NewRead(l)
      /\ \A i \in 1..Len(c) : s[i] = c[i]
  BY <1>1, <1>2
<1> HIDE DEF s
<1>4. \A i \in 1..Len(s) : i > Len(reads) => s[i].at = "pushed"
  BY <1>1, <1>2, <1>3
<1>5. Pushed(s) /\ Len(s) = Len(reads) + 1 /\ s[Len(reads) + 1] = NewRead(l)
  BY <1>2, <1>3, <1>4 DEF Pushed
<1> QED BY <1>5 DEF s, c, ScheduleLogRead

LEMMA PushedSeveral ==
  ASSUME reads \in Seq(ReadSet), NEW l \in Logs, handlers[l] \in Nat
  PROVE  Pushed(LogChanged(l))
<1> DEFINE c == Cancel(reads)
           n == handlers[l] - 1
           d == [NewRead(l) EXCEPT !.cancelled = 1]
           more == [k \in 1..n |-> d]
<1>1. CASE handlers[l] = 0
  BY <1>1, PushedNone DEF LogChanged
<1>2. CASE handlers[l] # 0
  <2>1. /\ c \in Seq(ReadSet) /\ Len(c) = Len(reads) /\ Len(reads) \in Nat
        /\ \A i \in 1..Len(reads) : c[i].log = reads[i].log /\ c[i].at = reads[i].at
    BY CancelIs, LenProperties
  <2>2. NewRead(l) \in ReadSet /\ NewRead(l).at = "pushed"
    BY DEF NewRead, ReadSet
  <2>3. d \in ReadSet /\ d.at = "pushed"
    BY DEF NewRead, ReadSet
  <2>4. n \in Nat
    BY <1>2
  <2> HIDE DEF c, d, n
  <2>5. more \in Seq(ReadSet) /\ Len(more) = n /\ \A i \in 1..n : more[i].at = "pushed"
    BY <2>3, <2>4
  <2> HIDE DEF more
  <2> DEFINE s == c \o more
  <2>6. /\ s \in Seq(ReadSet) /\ Len(s) = Len(c) + n
        /\ \A i \in 1..Len(c) + n : s[i] = IF i <= Len(c) THEN c[i] ELSE more[i - Len(c)]
    <3>1. /\ s \in Seq(ReadSet) /\ Len(s) = Len(c) + Len(more)
          /\ \A i \in 1..Len(c) + Len(more) :
               s[i] = IF i <= Len(c) THEN c[i] ELSE more[i - Len(c)]
      BY <2>1, <2>5, ConcatProperties
    <3> HIDE DEF s
    <3> QED BY <2>5, <3>1
  <2> HIDE DEF s
  <2>7. /\ \A i \in 1..Len(reads) : s[i].log = reads[i].log /\ s[i].at = reads[i].at
        /\ \A i \in 1..Len(s) : i > Len(reads) => s[i].at = "pushed"
    <3>1. ASSUME NEW i \in 1..Len(reads) PROVE s[i] = c[i]
      BY <2>1, <2>4, <2>6
    <3>2. ASSUME NEW i \in 1..Len(s), i > Len(reads) PROVE s[i].at = "pushed"
      <4>1. i - Len(c) \in 1..n /\ s[i] = more[i - Len(c)]
        BY <2>1, <2>4, <2>6, <3>2
      <4> QED BY <2>5, <4>1
    <3> QED BY <2>1, <3>1, <3>2
  <2> DEFINE t == Append(s, NewRead(l))
  <2>8. /\ t \in Seq(ReadSet) /\ Len(t) = Len(s) + 1 /\ t[Len(s) + 1] = NewRead(l)
        /\ \A i \in 1..Len(s) : t[i] = s[i]
    BY <2>2, <2>6
  <2>9. t = LogChanged(l)
    BY <1>2 DEF LogChanged, s, more, n, d, c
  <2> HIDE DEF t
  <2>10. Len(s) \in Nat /\ Len(s) >= Len(reads)
    BY <2>1, <2>4, <2>6
  <2>11. \A i \in 1..Len(t) : i > Len(reads) => t[i].at = "pushed"
    BY <2>2, <2>7, <2>8, <2>10
  <2>12. Pushed(t)
    BY <2>1, <2>7, <2>8, <2>10, <2>11 DEF Pushed
  <2> QED BY <2>9, <2>12
<1> QED BY <1>1, <1>2

LEMMA PushedRunning ==
  ASSUME reads \in Seq(ReadSet), Pushed(reads'), NEW l
  PROVE  Running(l)' = Running(l)
<1>1. /\ DOMAIN reads = 1..Len(reads) /\ Len(reads) \in Nat
      /\ DOMAIN reads' = 1..Len(reads') /\ Len(reads') \in Nat
  BY LenProperties DEF Pushed
<1> QED BY <1>1 DEF Pushed, Running

LEMMA MovesIs ==
  ASSUME reads \in Seq(ReadSet), NEW i \in DOMAIN reads,
         NEW at \in {"pushed", "reading", "end"}, Moves(i, at)
  PROVE  /\ reads' \in Seq(ReadSet) /\ Len(reads') = Len(reads) /\ DOMAIN reads' = DOMAIN reads
         /\ reads'[i].log = reads[i].log /\ reads'[i].at = at
         /\ reads'[i].cancelled = reads[i].cancelled
         /\ \A j \in DOMAIN reads : j # i => reads'[j] = reads[j]
<1> DEFINE r == [reads[i] EXCEPT !.at = at]
<1>1. reads[i] \in ReadSet /\ DOMAIN reads = 1..Len(reads)
  BY LenProperties, ElementOfSeq
<1>2. /\ r \in ReadSet /\ r.log = reads[i].log /\ r.at = at
      /\ r.cancelled = reads[i].cancelled
  BY <1>1 DEF ReadSet
<1>3. reads' = [reads EXCEPT ![i] = r]
  BY DEF Moves
<1> HIDE DEF r
<1>4. /\ reads' \in Seq(ReadSet) /\ Len(reads') = Len(reads)
      /\ \A j \in 1..Len(reads) : reads'[j] = IF j = i THEN r ELSE reads[j]
  BY <1>1, <1>2, <1>3, ExceptSeq
<1>5. DOMAIN reads' = 1..Len(reads)
  BY <1>4, LenProperties
<1> QED BY <1>1, <1>2, <1>4, <1>5

LEMMA MovesRunning ==
  ASSUME reads \in Seq(ReadSet), NEW i \in DOMAIN reads,
         NEW at \in {"reading", "end"}, Moves(i, at), NEW l
  PROVE  /\ reads[i].at # "pushed" \/ reads[i].log # l => Running(l)' = Running(l)
         /\ reads[i].log = l => Running(l)' = Running(l) \cup {i}
BY MovesIs DEF Running

(* A read that has ended leaves the others, in their order.                *)
LEMMA GoneRunning ==
  ASSUME reads \in Seq(ReadSet), NEW i \in DOMAIN reads, reads' = RemoveAt(reads, i),
         reads[i].at # "pushed", NEW l, \A j, k \in Running(l) : j = k
  PROVE  /\ reads[i].log = l => Running(l)' = {}
         /\ reads[i].log # l => (Running(l)' = {} <=> Running(l) = {})
         /\ \A j, k \in Running(l)' : j = k
<1>1. /\ DOMAIN reads = 1..Len(reads) /\ Len(reads) \in Nat
      /\ DOMAIN reads' = 1..(Len(reads) - 1)
      /\ \A j \in 1..(Len(reads) - 1) : reads'[j] = reads[IF j < i THEN j ELSE j + 1]
  BY LenProperties, Removing
<1> DEFINE was(j) == IF j < i THEN j ELSE j + 1
<1>2. \A j \in Running(l)' : was(j) \in Running(l) /\ was(j) # i /\ j \in 1..(Len(reads) - 1)
  BY <1>1 DEF Running
<1>3. ASSUME NEW k \in Running(l), k # i
      PROVE  (IF k < i THEN k ELSE k - 1) \in Running(l)'
  <2>1. k \in 1..Len(reads) /\ reads[k].log = l /\ reads[k].at # "pushed"
    BY <1>1 DEF Running
  <2>2. CASE k < i
    <3>1. k \in 1..(Len(reads) - 1) /\ reads'[k] = reads[k]
      BY <1>1, <2>1, <2>2
    <3> QED BY <1>1, <2>1, <2>2, <3>1 DEF Running
  <2>3. CASE ~(k < i)
    <3>1. k - 1 \in 1..(Len(reads) - 1) /\ reads'[k - 1] = reads[k]
      BY <1>1, <1>3, <2>1, <2>3
    <3> QED BY <1>1, <2>1, <2>3, <3>1 DEF Running
  <2> QED BY <2>2, <2>3
<1>4. \A j, k \in Running(l)' : j = k
  <2> SUFFICES ASSUME NEW j \in Running(l)', NEW k \in Running(l)' PROVE j = k
    OBVIOUS
  <2>1. was(j) = was(k) /\ was(j) # i /\ was(k) # i /\ j \in Nat /\ k \in Nat
    BY <1>2
  <2> QED BY <1>1, <2>1
<1>5. reads[i].log = l => i \in Running(l)
  BY DEF Running
<1>6. reads[i].log # l => i \notin Running(l)
  BY DEF Running
<1>7. ASSUME reads[i].log = l PROVE Running(l)' = {}
  BY <1>2, <1>5, <1>7
<1>8. ASSUME reads[i].log # l PROVE Running(l)' = {} <=> Running(l) = {}
  BY <1>2, <1>3, <1>6, <1>8
<1> QED BY <1>4, <1>7, <1>8

-----------------------------------------------------------------------------
(* What each step leaves of the lines.                                     *)

LEMMA QuietLines ==
  ASSUME LinesInv, raced = 0, Typed', \A l \in Logs : Running(l)' = Running(l),
         UNCHANGED <<file, taken, cached, lines, lines_no, given, days>>
  PROVE  LinesInv'
BY DEF LinesInv, CountHolds, DaysTrue, ArrayHolds

LEMMA SetActiveLogTyped ==
  ASSUME Typed, NEW l \in Logs, SetActiveLog(l)
  PROVE  Typed' /\ Pushed(reads')
<1>1. Disconnected \in Counts
  BY DEF Disconnected, Typed, Counts
<1>2. Use(l) => raced' \in {0, 1}
  BY DEF Use, Typed
<1>3. calm' \in {0, 1}
  BY DEF SetActiveLog, Unless, Typed
<1>4. Pushed(reads')
  BY PushedOne, PushedNone DEF SetActiveLog, Typed
<1>5. /\ active' = l /\ monitor_id' \in {None, l} /\ handlers' \in Counts
      /\ monitor_id' # None => handlers'[monitor_id'] > 0
  BY <1>1, LogsAssumption DEF SetActiveLog, Counts
<1>6. /\ UNCHANGED <<file, taken, cached, lines, lines_no, days, idle, given>>
      /\ raced' \in {0, 1}
  BY <1>2 DEF SetActiveLog, disk, array, cache
<1>7. reads' \in Seq(ReadSet)
  BY <1>4 DEF Pushed
<1> QED BY <1>3, <1>4, <1>5, <1>6, <1>7 DEF Typed

LEMMA MonitorChangedTyped ==
  ASSUME Typed, NEW l \in Logs, MonitorChanged(l)
  PROVE  Typed' /\ Pushed(reads')
<1>1. Pushed(reads')
  BY PushedSeveral DEF MonitorChanged, Typed, Counts
<1>2. reads' \in Seq(ReadSet)
  BY <1>1 DEF Pushed
<1>3. calm' \in {0, 1}
  BY DEF MonitorChanged, Unless, Typed
<1> QED BY <1>1, <1>2, <1>3 DEF MonitorChanged, Typed, array, window

LEMMA ReadNewLinesTyped ==
  ASSUME Typed, ReadNewLines
  PROVE  /\ Typed' /\ idle' \in Seq(ResultSet) /\ Len(idle') = Len(idle) - 1
         /\ Head(idle) = idle[1] /\ idle[1] \in ResultSet /\ Len(idle) >= 1
<1>1. /\ idle' \in Seq(ResultSet) /\ Len(idle') = Len(idle) - 1
      /\ Head(idle) = idle[1] /\ idle[1] \in ResultSet /\ Len(idle) >= 1
  BY HeadTailProperties, EmptySeq, LenProperties DEF ReadNewLines, Typed
<1> DEFINE r == Head(idle)
<1>2. r.log \in Logs
  BY <1>1 DEF ResultSet
<1>3. raced' \in {0, 1}
  BY DEF ReadNewLines, Use, Typed
<1>4. \/ UNCHANGED <<monitor_id, handlers>>
      \/ monitor_id' = r.log /\ handlers' = [handlers EXCEPT ![r.log] = @ + 1]
  BY DEF ReadNewLines
<1> HIDE DEF r
<1>5. /\ monitor_id' \in Logs \cup {None} /\ handlers' \in Counts
      /\ monitor_id' # None => handlers'[monitor_id'] > 0
  <2>1. CASE UNCHANGED <<monitor_id, handlers>>
    BY <2>1 DEF Typed
  <2>2. CASE monitor_id' = r.log /\ handlers' = [handlers EXCEPT ![r.log] = @ + 1]
    <3>1. handlers[r.log] \in Nat /\ handlers'[r.log] = handlers[r.log] + 1
      BY <1>2, <2>2 DEF Typed, Counts
    <3>2. handlers' \in Counts
      BY <1>2, <2>2 DEF Typed, Counts
    <3> QED BY <1>2, <2>2, <3>1, <3>2
  <2> QED BY <1>4, <2>1, <2>2
<1>6. UNCHANGED <<file, taken, cached, lines, lines_no, days, reads, active, given, calm>>
  BY DEF ReadNewLines, disk, array, cache
<1> QED BY <1>1, <1>3, <1>5, <1>6 DEF Typed

(* The NULL is taken off, by the only one who does.                        *)
LEMMA StartReadLines ==
  ASSUME LinesInv, NEW i \in DOMAIN reads, StartRead(i)
  PROVE  LinesInv'
<1>0. reads[i] \in ReadSet /\ reads[i].at = "pushed" /\ raced = 0
  BY LenProperties, ElementOfSeq DEF LinesInv, Typed, StartRead, IsRead
<1>1. PICK l \in Logs : l = reads[i].log
  BY <1>0 DEF ReadSet
<1>2. /\ Moves(i, "reading") /\ cached' = cached \cup {l}
      /\ lines' = [lines EXCEPT ![l] = IF lines[l] = <<>> THEN lines[l] ELSE Front(lines[l])]
      /\ raced' = IF Running(l) # {} THEN 1 ELSE raced
      /\ UNCHANGED <<file, taken, lines_no, days, idle, active, monitor_id, handlers, given, calm>>
  BY <1>1, UnterminatedIs DEF StartRead, Use, disk, cache, window
<1>3. reads' \in Seq(ReadSet)
  BY <1>2, MovesIs DEF LinesInv, Typed
<1>4. ArrayHolds(l) /\ lines[l] \in Seq(Nat) /\ taken[l] \in Nat
  BY <1>0 DEF LinesInv, Typed, Counts
<1>5. Front(lines[l]) \in Seq(Nat) \/ lines[l] = <<>>
  <2>1. CASE l \in cached
    <3>1. CASE Running(l) = {}
      BY <1>4, <2>1, <3>1, TerminatedIs, UptoIs DEF ArrayHolds
    <3>2. CASE Running(l) # {} /\ lines[l] # <<>>
      <4>1. Len(lines[l]) \in Nat /\ \A j \in 1..Len(lines[l]) : lines[l][j] \in Nat
        BY <1>4
      <4> QED BY <1>4, <4>1 DEF Front
    <3> QED BY <3>1, <3>2
  <2>2. CASE l \notin cached
    BY <1>4, <2>2 DEF ArrayHolds
  <2> QED BY <2>1, <2>2
<1>6. Typed'
  <2>1. lines' \in [Logs -> Seq(Nat)]
    BY <1>1, <1>2, <1>5 DEF LinesInv, Typed
  <2> QED BY <1>1, <1>2, <1>3, <2>1 DEF LinesInv, Typed
<1>7. \A k \in Logs : CountHolds(k)' /\ DaysTrue(k)'
  BY <1>2 DEF LinesInv, CountHolds, DaysTrue
<1>8. ASSUME raced' = 0, NEW k \in Logs
      PROVE  ArrayHolds(k)'
  <2>1. Running(l) = {} /\ ArrayHolds(k) /\ reads \in Seq(ReadSet)
    BY <1>0, <1>2, <1>8 DEF LinesInv, Typed
  <2>2. CASE k = l
    <3>1. Running(l)' = {i}
      BY <1>1, <1>2, <2>1, MovesRunning
    <3>2. lines'[l] = Upto(taken[l])
      <4>1. lines'[l] = IF lines[l] = <<>> THEN lines[l] ELSE Front(lines[l])
        BY <1>1, <1>2 DEF LinesInv, Typed
      <4>2. CASE l \in cached
        BY <1>4, <2>1, <4>1, <4>2, TerminatedIs DEF ArrayHolds
      <4>3. CASE l \notin cached
        BY <1>4, <4>1, <4>3, UptoIs DEF ArrayHolds
      <4> QED BY <4>2, <4>3
    <3> QED BY <1>2, <2>2, <3>1, <3>2 DEF ArrayHolds
  <2>3. CASE k # l
    <3>1. Running(k)' = Running(k)
      BY <1>1, <1>2, <2>1, <2>3, MovesRunning
    <3>2. lines'[k] = lines[k]
      BY <1>2, <2>3 DEF LinesInv, Typed
    <3> QED BY <1>2, <2>1, <2>3, <3>1, <3>2 DEF ArrayHolds
  <2> QED BY <2>2, <2>3
<1> QED BY <1>6, <1>7, <1>8 DEF LinesInv

LEMMA ReadLineLines ==
  ASSUME LinesInv, NEW i \in DOMAIN reads, ReadLine(i)
  PROVE  LinesInv'
<1> DEFINE l == reads[i].log
<1>1. l \in Logs /\ reads[i].at = "reading" /\ raced = 0 /\ i \in Running(l)
  <2>1. reads[i] \in ReadSet
    BY LenProperties, ElementOfSeq DEF LinesInv, Typed
  <2> QED BY <2>1 DEF ReadLine, IsRead, ReadSet, Running
<1>2. /\ taken' = [taken EXCEPT ![l] = @ + 1]
      /\ lines' = [lines EXCEPT ![l] = Append(@, taken[l] + 1)]
      /\ taken[l] < file[l]
      /\ UNCHANGED <<file, cached, lines_no, days, reads, idle, active, monitor_id, handlers,
                     given, raced, calm>>
  BY DEF ReadLine, disk, cache, window, history
<1> HIDE DEF l
<1>3. ArrayHolds(l) /\ lines[l] \in Seq(Nat) /\ taken[l] \in Nat /\ CountHolds(l)
      /\ lines_no[l] \in Nat /\ file[l] \in Nat
  BY <1>1 DEF LinesInv, Typed, Counts
<1>4. taken'[l] = taken[l] + 1 /\ lines'[l] = Append(lines[l], taken[l] + 1)
      /\ \A k \in Logs : k # l => taken'[k] = taken[k] /\ lines'[k] = lines[k]
  BY <1>1, <1>2 DEF LinesInv, Typed, Counts
<1>5. Typed'
  BY <1>1, <1>2, <1>3 DEF LinesInv, Typed, Counts
<1>6. \A k \in Logs : CountHolds(k)' /\ DaysTrue(k)'
  <2> TAKE k \in Logs
  <2>1. CountHolds(k) /\ DaysTrue(k)
    BY DEF LinesInv
  <2>2. lines_no[k] <= taken'[k] /\ taken'[k] <= file[k]
    BY <1>2, <1>3, <1>4, <2>1 DEF CountHolds
  <2> QED BY <1>2, <2>1, <2>2 DEF CountHolds, DaysTrue
<1>7. ASSUME NEW k \in Logs
      PROVE  ArrayHolds(k)'
  <2>1. Running(k)' = Running(k) /\ ArrayHolds(k)
    BY <1>1, <1>2 DEF Running, LinesInv
  <2>2. CASE k = l
    BY <1>1, <1>2, <1>3, <1>4, <2>1, <2>2, UptoIs DEF ArrayHolds
  <2>3. CASE k # l
    BY <1>2, <1>4, <2>1, <2>3 DEF ArrayHolds
  <2> QED BY <2>2, <2>3
<1> QED BY <1>5, <1>6, <1>7 DEF LinesInv

(* A read that has ended: its thread puts the NULL back.                   *)
LEMMA EndsArray ==
  ASSUME LinesInv, raced = 0, raced' = 0, NEW i \in DOMAIN reads, reads[i].at # "pushed",
         NEW l \in Logs, l = reads[i].log,
         reads' = RemoveAt(reads, i), lines' = [lines EXCEPT ![l] = Append(@, 0)],
         UNCHANGED <<cached, taken>>
  PROVE  /\ lines[l] = Upto(taken[l]) /\ lines'[l] = Terminated(taken[l])
         /\ lines' \in [Logs -> Seq(Nat)] /\ reads' \in Seq(ReadSet)
         /\ \A k \in Logs : ArrayHolds(k)'
<1>1. reads \in Seq(ReadSet) /\ lines \in [Logs -> Seq(Nat)] /\ taken[l] \in Nat
  BY DEF LinesInv, Typed, Counts
<1>2. i \in Running(l) /\ ArrayHolds(l)
  BY DEF Running, LinesInv
<1>3. l \in cached /\ lines[l] = Upto(taken[l])
  BY <1>2 DEF ArrayHolds
<1>4. lines'[l] = Terminated(taken[l])
  BY <1>1, <1>3 DEF Terminated
<1>5. lines' \in [Logs -> Seq(Nat)]
  BY <1>1
<1>6. reads' \in Seq(ReadSet)
  BY <1>1, Removing
<1>7. ASSUME NEW k \in Logs
      PROVE  ArrayHolds(k)'
  <2>1. ArrayHolds(k)
    BY DEF LinesInv
  <2>2. /\ l = k => Running(k)' = {}
        /\ l # k => (Running(k)' = {} <=> Running(k) = {})
        /\ \A j, m \in Running(k)' : j = m
    <3>1. \A j, m \in Running(k) : j = m
      BY <2>1 DEF ArrayHolds
    <3> QED BY <1>1, <3>1, GoneRunning
  <2>3. CASE k = l
    BY <1>3, <1>4, <2>2, <2>3 DEF ArrayHolds
  <2>4. CASE k # l
    <3>1. lines'[k] = lines[k]
      BY <1>1, <2>4
    <3> QED BY <2>1, <2>2, <2>4, <3>1 DEF ArrayHolds
  <2> QED BY <2>3, <2>4
<1> QED BY <1>3, <1>4, <1>5, <1>6, <1>7

LEMMA ResultIs ==
  ASSUME Typed, NEW i \in DOMAIN reads, NEW err \in {0, 1}, SendToMainloop(i, err),
         lines' \in [Logs -> Seq(Nat)]
  PROVE  /\ idle' \in Seq(ResultSet) /\ Len(idle') = Len(idle) + 1
         /\ idle'[Len(idle) + 1] = [log |-> reads[i].log, err |-> err,
                                    from |-> lines_no[reads[i].log],
                                    len |-> Len(lines'[reads[i].log])]
         /\ \A j \in 1..Len(idle) : idle'[j] = idle[j]
<1> DEFINE r == [log |-> reads[i].log, err |-> err, from |-> lines_no[reads[i].log],
                 len |-> Len(lines'[reads[i].log])]
<1>1. reads[i] \in ReadSet
  BY LenProperties, ElementOfSeq DEF Typed
<1>2. reads[i].log \in Logs
  BY <1>1 DEF ReadSet
<1>3. lines_no[reads[i].log] \in Nat /\ Len(lines'[reads[i].log]) \in Nat
  BY <1>2, LenProperties DEF Typed, Counts
<1>4. r \in ResultSet
  BY <1>2, <1>3 DEF ResultSet
<1>5. idle' = Append(idle, r)
  BY DEF SendToMainloop
<1> HIDE DEF r
<1>6. idle \in Seq(ResultSet)
  BY DEF Typed
<1>7. /\ idle' \in Seq(ResultSet) /\ Len(idle') = Len(idle) + 1
      /\ idle'[Len(idle) + 1] = r /\ \A j \in 1..Len(idle) : idle'[j] = idle[j]
  BY <1>4, <1>5, <1>6
<1> QED BY <1>7 DEF r

(* Cancelled or in error: nothing is returned or counted.                  *)
LEMMA FailReadLines ==
  ASSUME LinesInv, NEW i \in DOMAIN reads, FailRead(i)
  PROVE  LinesInv' /\ Running(reads[i].log) = {i}
<1>0. reads[i] \in ReadSet /\ reads[i].at = "reading" /\ raced = 0
  BY LenProperties, ElementOfSeq DEF LinesInv, Typed, FailRead, IsRead
<1>1. PICK l \in Logs : l = reads[i].log
  BY <1>0 DEF ReadSet
<1>2. /\ lines' = [lines EXCEPT ![l] = Append(@, 0)] /\ reads' = RemoveAt(reads, i)
      /\ SendToMainloop(i, 1) /\ calm' \in {0, 1}
      /\ UNCHANGED <<file, taken, cached, lines_no, days, active, monitor_id, handlers, given,
                     raced>>
  BY <1>1 DEF FailRead, SendToMainloop, CountedOnError, Unless, disk, window, LinesInv, Typed
<1>3. /\ lines' \in [Logs -> Seq(Nat)] /\ reads' \in Seq(ReadSet)
      /\ \A k \in Logs : ArrayHolds(k)'
  BY <1>0, <1>1, <1>2, EndsArray
<1>4. idle' \in Seq(ResultSet)
  BY <1>2, <1>3, ResultIs DEF LinesInv
<1>5. Typed'
  BY <1>2, <1>3, <1>4 DEF LinesInv, Typed
<1>6. \A k \in Logs : CountHolds(k)' /\ DaysTrue(k)'
  BY <1>2 DEF LinesInv, CountHolds, DaysTrue
<1>7. i \in Running(l) /\ \A j, k \in Running(l) : j = k
  BY <1>0, <1>1 DEF Running, LinesInv, ArrayHolds
<1>8. Running(l) = {i}
  BY <1>7
<1> QED BY <1>1, <1>3, <1>5, <1>6, <1>8 DEF LinesInv

(* At the end of the stream: what was not counted is returned, and its days *)
(* are added.                                                              *)
LEMMA EndReadLines ==
  ASSUME LinesInv, NEW i \in DOMAIN reads, EndRead(i)
  PROVE  /\ LinesInv' /\ Running(reads[i].log) = {i}
         /\ lines_no'[reads[i].log] = taken[reads[i].log]
         /\ \A k \in Logs : k # reads[i].log => lines_no'[k] = lines_no[k]
<1>0. reads[i] \in ReadSet /\ reads[i].at = "end" /\ raced = 0
  BY LenProperties, ElementOfSeq DEF LinesInv, Typed, EndRead, IsRead
<1>1. PICK l \in Logs : l = reads[i].log
  BY <1>0 DEF ReadSet
<1> DEFINE new == From(Append(lines[l], 0), lines_no[l])
<1>2. /\ lines' = [lines EXCEPT ![l] = Append(@, 0)] /\ reads' = RemoveAt(reads, i)
      /\ days' = [days EXCEPT ![l] = AddNewDays(@, LogReadDates(l, new), lines_no[l])]
      /\ lines_no' = [lines_no EXCEPT ![l] = Len(lines[l])]
      /\ given' = [given EXCEPT ![l] = @ \o new]
      /\ SendToMainloop(i, 0)
      /\ UNCHANGED <<file, taken, cached, active, monitor_id, handlers, raced, calm>>
  BY <1>1 DEF EndRead, SendToMainloop, disk, window
<1>3. /\ lines[l] = Upto(taken[l])
      /\ lines' \in [Logs -> Seq(Nat)] /\ reads' \in Seq(ReadSet)
      /\ \A k \in Logs : ArrayHolds(k)'
  BY <1>0, <1>1, <1>2, EndsArray
<1>4. idle' \in Seq(ResultSet)
  BY <1>2, <1>3, ResultIs DEF LinesInv
<1>5. taken[l] \in Nat /\ lines_no[l] \in 0..taken[l] /\ given[l] = Upto(lines_no[l])
      /\ taken[l] \in 0..Len(Dates[l]) /\ taken[l] <= file[l] /\ DaysTrue(l)
  <2>1. CountHolds(l) /\ DaysTrue(l) /\ taken[l] \in Nat /\ lines_no[l] \in Nat
        /\ file[l] \in Nat
    BY DEF LinesInv, Typed, Counts
  <2>2. Len(Dates[l]) \in Nat
    BY DatesAssumption, LenProperties
  <2> QED BY <2>1, <2>2 DEF CountHolds
<1>6. new = Rest(taken[l], lines_no[l])
  BY <1>3, <1>5, FromArray DEF Terminated
<1>7. given[l] \o new = Upto(taken[l]) /\ Len(lines[l]) = taken[l]
  <2> HIDE DEF new
  <2>1. Upto(lines_no[l]) \o Rest(taken[l], lines_no[l]) = Upto(taken[l])
    BY <1>5, RestIs
  <2> QED BY <1>3, <1>5, <1>6, <2>1, UptoIs
<1> HIDE DEF new
<1>8. days'[l] = AddNewDays(days[l], LogReadDates(l, new), lines_no[l])
      /\ days' = [k \in Logs |-> days'[k]] /\ \A k \in Logs : k # l => days'[k] = days[k]
  <2>1. days = [k \in Logs |-> days[k]]
    BY DEF LinesInv, Typed
  <2>2. PICK ds : ds = AddNewDays(days[l], LogReadDates(l, new), lines_no[l])
    OBVIOUS
  <2>3. days' = [days EXCEPT ![l] = ds]
    BY <1>2, <2>2
  <2> QED BY <2>1, <2>2, <2>3
<1>9. ASSUME BeginsWithDate(l) PROVE DaysHold(l, days'[l], taken[l])
  <2>1. PICK dates : dates = LogReadDates(l, Rest(taken[l], lines_no[l]))
    OBVIOUS
  <2>2. DaysHold(l, days[l], lines_no[l])
    BY <1>5, <1>9 DEF DaysTrue
  <2>3. PICK n, k : n = taken[l] /\ k = lines_no[l]
    OBVIOUS
  <2>4. DaysHold(l, AddNewDays(days[l], dates, k), n)
    BY <1>5, <1>9, <2>1, <2>2, <2>3, DaysAdded
  <2> QED BY <1>6, <1>8, <2>1, <2>3, <2>4
<1>10. /\ lines_no' \in Counts /\ lines_no'[l] = taken[l]
       /\ \A k \in Logs : k # l => lines_no'[k] = lines_no[k]
  BY <1>2, <1>5, <1>7 DEF LinesInv, Typed, Counts
<1>11. /\ given' \in [Logs -> Seq(Nat)] /\ given'[l] = Upto(taken[l])
       /\ \A k \in Logs : k # l => given'[k] = given[k]
  BY <1>2, <1>5, <1>7, UptoIs DEF LinesInv, Typed
<1>13. Typed'
  BY <1>2, <1>3, <1>4, <1>8, <1>10, <1>11 DEF LinesInv, Typed
<1>14. ASSUME NEW k \in Logs
       PROVE  CountHolds(k)' /\ DaysTrue(k)'
  <2>1. CASE k = l
    <3>1. /\ given'[k] = Upto(taken[k]) /\ lines_no'[k] = taken[k] /\ taken'[k] = taken[k]
          /\ taken[k] \in Nat /\ file'[k] = file[k] /\ CountHolds(k)
          /\ BeginsWithDate(k) => DaysHold(k, days'[k], taken[k])
      BY <1>2, <1>5, <1>9, <1>10, <1>11, <2>1 DEF LinesInv
    <3> QED BY <3>1 DEF CountHolds, DaysTrue
  <2>2. CASE k # l
    BY <1>2, <1>8, <1>10, <1>11, <2>2 DEF LinesInv, CountHolds, DaysTrue
  <2> QED BY <2>1, <2>2
<1>15. i \in Running(l) /\ \A j, k \in Running(l) : j = k
  BY <1>0, <1>1 DEF Running, LinesInv, ArrayHolds
<1>16. Running(l) = {i}
  BY <1>15
<1> QED BY <1>1, <1>3, <1>10, <1>13, <1>14, <1>16 DEF LinesInv

LEMMA LinesInit == Init => LinesInv
<1> SUFFICES ASSUME Init PROVE LinesInv
  OBVIOUS
<1>1. Typed
  <2>1. /\ reads \in Seq(ReadSet) /\ idle \in Seq(ResultSet)
        /\ lines \in [Logs -> Seq(Nat)] /\ given \in [Logs -> Seq(Nat)]
    BY DEF Init
  <2>2. /\ file \in Counts /\ taken \in Counts /\ lines_no \in Counts /\ handlers \in Counts
        /\ days = [l \in Logs |-> days[l]] /\ cached \subseteq Logs
    BY DEF Init, Counts
  <2> QED BY <2>1, <2>2 DEF Init, Typed
<1>2. \A l \in Logs : CountHolds(l) /\ DaysTrue(l)
  <2>1. \A l \in Logs : Len(Dates[l]) \in Nat
    BY DatesAssumption, LenProperties
  <2> QED BY <2>1, UptoIs DEF Init, CountHolds, DaysTrue, DaysHold, DatesDiffer
<1>3. \A l : Running(l) = {}
  BY DEF Init, Running
<1>4. \A l \in Logs : ArrayHolds(l)
  BY <1>3 DEF Init, ArrayHolds
<1> QED BY <1>1, <1>2, <1>4 DEF LinesInv

LEMMA LinesNext == LinesInv /\ [Next]_vars => LinesInv'
<1> SUFFICES ASSUME LinesInv, [Next]_vars PROVE LinesInv'
  OBVIOUS
<1>1. Typed /\ reads \in Seq(ReadSet)
  BY DEF LinesInv, Typed
<1>2. ASSUME NEW l \in Logs, SetActiveLog(l) PROVE LinesInv'
  BY <1>1, <1>2, SetActiveLogTyped, PushedRunning, QuietLines
  DEF SetActiveLog, disk, array, cache
<1>3. ASSUME NEW l \in Logs, MonitorChanged(l) PROVE LinesInv'
  BY <1>1, <1>3, MonitorChangedTyped, PushedRunning, QuietLines
  DEF MonitorChanged, MainLoopFree, array
<1>4. ASSUME NEW l \in Logs, Write(l) PROVE LinesInv'
  <2>1. /\ file' = [file EXCEPT ![l] = @ + 1] /\ file[l] < Len(Dates[l])
        /\ UNCHANGED <<taken, array, cache, reads, idle, window, history>>
    BY <1>4 DEF Write
  <2>2. Typed'
    BY <1>1, <2>1 DEF array, cache, window, history, Typed, Counts
  <2>3. \A k \in Logs : CountHolds(k)'
    <3> TAKE k \in Logs
    <3>1. CountHolds(k) /\ file[k] \in Nat /\ taken[k] \in Nat /\ Len(Dates[k]) \in Nat
      BY DatesAssumption, LenProperties DEF LinesInv, Typed, Counts
    <3>2. file'[k] = IF k = l THEN file[k] + 1 ELSE file[k]
      BY <2>1 DEF LinesInv, Typed, Counts
    <3>3. taken[k] <= file'[k] /\ file'[k] <= Len(Dates[k])
      BY <2>1, <3>1, <3>2 DEF CountHolds
    <3> QED BY <2>1, <3>1, <3>3 DEF CountHolds, cache, history
  <2> QED BY <2>1, <2>2, <2>3
          DEF array, cache, history, LinesInv, DaysTrue, ArrayHolds, Running
<1>5. CASE ReadNewLines
  <2>1. \A k \in Logs : Running(k)' = Running(k)
    BY <1>5 DEF ReadNewLines, Running
  <2> QED BY <1>1, <1>5, <2>1, ReadNewLinesTyped, QuietLines
         DEF ReadNewLines, MainLoopFree, disk, array, cache
<1>6. ASSUME NEW i \in DOMAIN reads, ReachEnd(i) PROVE LinesInv'
  <2>1. raced = 0 /\ reads[i].at = "reading" /\ Moves(i, "end")
        /\ UNCHANGED <<file, taken, array, cache, idle, window, history>>
    BY <1>6 DEF ReachEnd, IsRead
  <2>2. Typed'
    BY <1>1, <2>1, MovesIs DEF array, cache, window, history, Typed
  <2>3. \A k \in Logs : Running(k)' = Running(k)
    BY <1>1, <2>1, MovesRunning
  <2> QED BY <2>1, <2>2, <2>3, QuietLines DEF array, cache, history
<1>7. ASSUME UNCHANGED <<disk, taken, array, cache, reads, idle, window, history>>
      PROVE  LinesInv'
  <2>1. Typed'
    BY <1>1, <1>7 DEF disk, array, cache, window, history, Typed
  <2> QED BY <1>7, <2>1 DEF disk, array, cache, history, LinesInv, CountHolds, DaysTrue,
                            ArrayHolds, Running
<1>8. ASSUME NEW l \in Logs, LoadDone(l) \/ SetupFileMonitor(l) PROVE LinesInv'
  BY <1>2, <1>7, <1>8 DEF LoadDone, SetupFileMonitor
<1> QED
  BY <1>2, <1>3, <1>4, <1>5, <1>6, <1>7, <1>8, StartReadLines, ReadLineLines, FailReadLines,
     EndReadLines DEF Next, Select, Thread, Undefined, vars

LEMMA LinesAlways == Spec => []LinesInv
BY LinesInit, LinesNext, PTL DEF Spec

(* Whatever is read, cancelled or fails, the lines of a log are returned in *)
(* order and each once (do_read_new_lines, logview-log.c:263), as long as   *)
(* no two threads have its array at once.                                   *)
THEOREM LinesComeInOrder == Spec => []NoLineLost
<1>1. LinesInv => NoLineLost
  <2> SUFFICES ASSUME LinesInv, raced = 0, NEW l \in Logs
               PROVE  given[l] = Upto(lines_no[l]) /\ From(lines[l], 0) = Upto(taken[l])
    BY DEF NoLineLost
  <2>1. ArrayHolds(l) /\ CountHolds(l) /\ taken[l] \in Nat
    BY DEF LinesInv, Typed, Counts
  <2>2. CASE l \notin cached
    BY <2>1, <2>2, FromNothing, UptoIs DEF ArrayHolds, CountHolds
  <2>3. CASE l \in cached /\ Running(l) = {}
    <3>1. From(Terminated(taken[l]), 0) = Rest(taken[l], 0) /\ Rest(taken[l], 0) = Upto(taken[l])
      <4>1. 0 \in 0..taken[l]
        BY <2>1
      <4> QED BY <2>1, <4>1, FromArray, RestIs
    <3> QED BY <2>1, <2>3, <3>1 DEF ArrayHolds, CountHolds
  <2>4. CASE l \in cached /\ Running(l) # {}
    BY <2>1, <2>4, FromOpenArray DEF ArrayHolds, CountHolds
  <2> QED BY <2>2, <2>3, <2>4
<1> QED BY <1>1, LinesAlways, PTL

(* A day in the side pane points at lines of its date and of no other, and  *)
(* no date is listed twice (add_new_days_to_cache, logview-log.c:196),      *)
(* whatever the number of lines a read returns and of days they span, in a  *)
(* log whose first line has a date.                                         *)
THEOREM DaysStayTrue == Spec => []DaysPointAtTheirLines
<1>1. LinesInv => DaysPointAtTheirLines
  <2> SUFFICES ASSUME LinesInv, NEW l \in Logs, BeginsWithDate(l), NEW d \in days[l]
               PROVE  /\ d.first_line..d.last_line \subseteq {n - 1 : n \in 1..lines_no[l]}
                      /\ d.first_line <= d.last_line
                      /\ Dates[l][given[l][d.first_line + 1]] = d.date
                      /\ \A n \in d.first_line..d.last_line :
                           Dates[l][given[l][n + 1]] \in {0, d.date}
                      /\ \A e \in days[l] : e.date = d.date => e = d
    BY DEF DaysPointAtTheirLines
  <2>1. /\ DayHolds(l, d, lines_no[l]) /\ lines_no[l] \in Nat /\ given[l] = Upto(lines_no[l])
        /\ d \in DaySet /\ \A e \in days[l] : e.date = d.date => e = d
    BY DEF LinesInv, DaysTrue, DaysHold, DatesDiffer, CountHolds, Typed, Counts
  <2>2. d.first_line \in Nat /\ d.last_line \in Nat /\ d.date \in Nat
    BY <2>1 DEF DaySet
  <2>3. ASSUME NEW n \in d.first_line..d.last_line
        PROVE  n + 1 \in 1..lines_no[l] /\ Dates[l][n + 1] \in {0, d.date}
    <3>1. n + 1 \in 1..lines_no[l] /\ n + 1 \in d.first_line + 1..d.last_line + 1
      BY <2>1, <2>2 DEF DayHolds
    <3> QED BY <2>1, <3>1 DEF DayHolds
  <2>4. d.first_line..d.last_line \subseteq {n - 1 : n \in 1..lines_no[l]}
    <3> SUFFICES ASSUME NEW n \in d.first_line..d.last_line
                 PROVE  n \in {m - 1 : m \in 1..lines_no[l]}
      OBVIOUS
    <3>1. n = (n + 1) - 1
      BY <2>2
    <3> QED BY <2>3, <3>1
  <2>5. \A n \in d.first_line..d.last_line : given[l][n + 1] = n + 1
    BY <2>1, <2>3, UptoIs
  <2>6. d.first_line <= d.last_line /\ d.first_line \in d.first_line..d.last_line
        /\ Dates[l][d.first_line + 1] = d.date
    BY <2>1, <2>2 DEF DayHolds
  <2> QED BY <2>1, <2>3, <2>4, <2>5, <2>6
<1> QED BY <1>1, LinesAlways, PTL

-----------------------------------------------------------------------------
(* The view.  As long as nobody has acted on a log while it was read, there *)
(* is one read at most, or its result, and it is of the active log; the     *)
(* window shows what was counted before that result, and listens once it    *)
(* came.                                                                    *)

Outcome(r) ==
  /\ r.log = active /\ r.err = 0 /\ r.len = Len(lines[active])
  /\ r.from <= lines_no[active]
Shows(n) == shown = [k \in 1..n |-> <<active, k>>]
Listens == [l \in Logs |-> IF l = active /\ monitor_id = active THEN 1 ELSE 0]
AllCounted == \A l \in Logs : Running(l) = {} => lines_no[l] = taken[l]

Quiet ==
  /\ Len(reads) + Len(idle) <= 1
  /\ \A i \in DOMAIN reads : reads[i].log = active /\ reads[i].cancelled = 0
  /\ \A i \in DOMAIN idle : Outcome(idle[i])
  /\ monitor_id \in {None, active} /\ handlers = Listens
  /\ active # None =>
       /\ reads = <<>> /\ idle = <<>> => monitor_id = active
       /\ Shows(IF idle = <<>> THEN lines_no[active] ELSE idle[1].from)
  /\ AllCounted

ViewInv ==
  calm = 1 => (raced = 0 => Quiet) /\ (raced = 1 => reads # <<>>)

LEMMA NoReads ==
  ASSUME reads = <<>>
  PROVE  /\ DOMAIN reads = {} /\ Len(reads) = 0
         /\ \A l : Running(l) = {}
BY DEF Running

(* What a stretch of the array is shown as.                                *)
ShownOf(l, ls) == [i \in DOMAIN ls |-> <<l, ls[i]>>]

LEMMA ShownIs ==
  ASSUME NEW n \in Nat, NEW k \in 0..n, NEW l
  PROVE  /\ ShownOf(l, Rest(n, k)) = [i \in 1..n - k |-> <<l, k + i>>]
         /\ ShownOf(l, Upto(n)) = [i \in 1..n |-> <<l, i>>]
         /\ [i \in 1..k |-> <<l, i>>] \o [i \in 1..n - k |-> <<l, k + i>>]
              = [i \in 1..n |-> <<l, i>>]
<1>1. ShownOf(l, Rest(n, k)) = [i \in 1..n - k |-> <<l, k + i>>]
  BY DEF ShownOf, Rest
<1>2. ShownOf(l, Upto(n)) = [i \in 1..n |-> <<l, i>>]
  BY DEF ShownOf, Upto
<1>3. [i \in 1..k |-> <<l, i>>] \o [i \in 1..n - k |-> <<l, k + i>>]
        = [i \in 1..n |-> <<l, i>>]
  <2> DEFINE S == {l} \X Nat
             a == [i \in 1..k |-> <<l, i>>]
             b == [i \in 1..n - k |-> <<l, k + i>>]
             c == [i \in 1..n |-> <<l, i>>]
  <2>1. a \in Seq(S) /\ Len(a) = k /\ \A i \in 1..k : a[i] = <<l, i>>
    OBVIOUS
  <2>2. b \in Seq(S) /\ Len(b) = n - k /\ \A i \in 1..n - k : b[i] = <<l, k + i>>
    OBVIOUS
  <2>3. c \in Seq(S) /\ Len(c) = n /\ \A i \in 1..n : c[i] = <<l, i>>
    OBVIOUS
  <2> HIDE DEF S, a, b, c
  <2>4. /\ a \o b \in Seq(S) /\ Len(a \o b) = n
        /\ \A i \in 1..n : (a \o b)[i] = IF i <= k THEN a[i] ELSE b[i - k]
    BY <2>1, <2>2, ConcatProperties
  <2>5. ASSUME NEW i \in 1..n PROVE (a \o b)[i] = c[i]
    <3>0. c[i] = <<l, i>> /\ (a \o b)[i] = IF i <= k THEN a[i] ELSE b[i - k]
      BY <2>3, <2>4
    <3>1. CASE i <= k
      <4>1. i \in 1..k
        BY <3>1
      <4> QED BY <2>1, <3>0, <3>1, <4>1
    <3>2. CASE ~(i <= k)
      <4>1. i - k \in 1..n - k /\ k + (i - k) = i
        BY <3>2
      <4>2. b[i - k] = <<l, k + (i - k)>>
        BY <2>2, <4>1
      <4> QED BY <3>0, <3>2, <4>1, <4>2
    <3> QED BY <3>1, <3>2
  <2>6. a \o b = c
    BY <2>3, <2>4, <2>5, SeqEqual
  <2> QED BY <2>6 DEF a, b, c
<1> QED BY <1>1, <1>2, <1>3

(* The strings of a log no thread has in hand.                             *)
LEMMA StringsAre ==
  ASSUME LinesInv, raced = 0, NEW l \in Logs, Running(l) = {}, NEW k \in Nat, k <= lines_no[l]
  PROVE  /\ taken[l] \in Nat /\ k \in 0..taken[l]
         /\ From(lines[l], k) = Rest(taken[l], k)
<1>1. ArrayHolds(l) /\ CountHolds(l) /\ taken[l] \in Nat /\ lines_no[l] \in Nat
  BY DEF LinesInv, Typed, Counts
<1>2. k \in 0..taken[l]
  BY <1>1 DEF CountHolds
<1>3. CASE l \in cached
  BY <1>1, <1>2, <1>3, FromArray DEF ArrayHolds
<1>4. CASE l \notin cached
  <2>1. taken[l] = 0 /\ k = 0 /\ lines[l] = <<>>
    BY <1>1, <1>2, <1>4 DEF ArrayHolds
  <2>2. Rest(0, 0) = Upto(0) /\ Upto(0) = <<>>
    BY RestIs, UptoIs
  <2> QED BY <1>1, <1>2, <2>1, <2>2, FromNothing
<1> QED BY <1>1, <1>2, <1>3, <1>4

LEMMA SetActiveLogView ==
  ASSUME LinesInv, ViewInv, NEW l \in Logs, SetActiveLog(l)
  PROVE  ViewInv'
<1> SUFFICES ASSUME calm' = 1 PROVE (raced = 0 => Quiet)' /\ (raced = 1 => reads # <<>>)'
  BY DEF ViewInv
<1>1. calm = 1 /\ reads = <<>> /\ idle = <<>> /\ raced = 0
  BY DEF SetActiveLog, Unless
<1>2. Quiet /\ \A k : Running(k) = {}
  BY <1>1, NoReads DEF ViewInv
<1>3. raced' = 0
  BY <1>1, <1>2, UnterminatedIs DEF SetActiveLog, Use
<1>4. Disconnected = [k \in Logs |-> 0]
  <2>1. CASE active = None
    BY <1>2, <2>1, LogsAssumption DEF Quiet, Listens, Disconnected
  <2>2. CASE active # None
    <3>1. monitor_id = active /\ active \in Logs
      BY <1>1, <1>2, <2>2 DEF Quiet, LinesInv, Typed
    <3>2. handlers = [k \in Logs |-> IF k = active THEN 1 ELSE 0]
      BY <1>2, <3>1 DEF Quiet, Listens
    <3>3. Disconnected = [handlers EXCEPT ![active] = handlers[active] - 1]
      BY <2>2, <3>1 DEF Disconnected
    <3> QED BY <3>1, <3>2, <3>3
  <2> QED BY <2>1, <2>2
<1>5. UNCHANGED <<taken, cached, lines, lines_no, idle>> /\ active' = l
  BY DEF SetActiveLog, array, cache
<1>6. \/ /\ reads' = ScheduleLogRead(l) /\ monitor_id' = None
         /\ handlers' = [k \in Logs |-> 0]
      \/ /\ reads' = reads /\ monitor_id' = l
         /\ handlers' = [[k \in Logs |-> 0] EXCEPT ![l] = 1]
  BY <1>4 DEF SetActiveLog
<1>7. handlers' = Listens'
  BY <1>5, <1>6, LogsAssumption DEF Listens
<1>8. Pushed(reads') /\ \A k : Running(k)' = {}
  <2>1. Typed /\ reads \in Seq(ReadSet)
    BY DEF LinesInv, Typed
  <2>2. Pushed(reads')
    BY <2>1, SetActiveLogTyped
  <2>3. \A k : Running(k)' = Running(k)
    BY <2>1, <2>2, PushedRunning
  <2> QED BY <1>2, <2>2, <2>3
<1>9. /\ Len(reads') <= 1
      /\ reads' = <<>> => monitor_id' = l
      /\ \A i \in DOMAIN reads' : reads'[i].log = l /\ reads'[i].cancelled = 0
  <2>1. CASE reads' = reads /\ monitor_id' = l
    BY <1>1, <2>1
  <2>2. CASE reads' = ScheduleLogRead(l)
    <3>1. reads' = <<NewRead(l)>>
      BY <1>1, <2>2 DEF ScheduleLogRead, Cancel
    <3> QED BY <3>1 DEF NewRead
  <2> QED BY <1>6, <2>1, <2>2
<1>10. Shows(lines_no[l])' /\ shown' = [k \in 1..lines_no'[l] |-> <<l, k>>]
  <2>1. lines_no[l] \in Nat /\ lines_no[l] = taken[l]
    BY <1>2 DEF LinesInv, Typed, Counts, Quiet, AllCounted
  <2>2. From(lines[l], 0) = Rest(taken[l], 0) /\ Rest(taken[l], 0) = Upto(taken[l])
    <3>1. 0 \in 0..taken[l] /\ taken[l] \in Nat /\ 0 \in Nat /\ 0 <= lines_no[l]
      BY <2>1
    <3>2. From(lines[l], 0) = Rest(taken[l], 0)
      BY <1>1, <1>2, <3>1, StringsAre
    <3>3. Rest(taken[l], 0) = Upto(taken[l])
      BY <3>1, RestIs
    <3> QED BY <3>2, <3>3
  <2>3. shown' = ShownOf(l, From(lines[l], 0))
    BY DEF SetActiveLog, ShownOf
  <2>4. 0 \in 0..taken[l]
    BY <2>1
  <2>5. shown' = [k \in 1..taken[l] |-> <<l, k>>]
    <3>1. taken[l] \in Nat
      BY <2>1
    <3>2. ShownOf(l, Upto(taken[l])) = [k \in 1..taken[l] |-> <<l, k>>]
      BY <2>4, <3>1, ShownIs
    <3> QED BY <2>2, <2>3, <3>2
  <2> QED BY <1>5, <2>1, <2>5 DEF Shows
<1>11. AllCounted'
  BY <1>2, <1>5 DEF Quiet, AllCounted
<1>12. Quiet'
  <2>1. idle' = <<>> /\ Len(idle') = 0 /\ DOMAIN idle' = {}
    BY <1>1, <1>5
  <2>2. Len(reads') \in Nat
    BY <1>8, LenProperties DEF Pushed
  <2>3. monitor_id' \in {None, active'}
    BY <1>5, <1>6
  <2>4. Len(reads') + Len(idle') <= 1
    BY <1>9, <2>1, <2>2
  <2>5. /\ \A i \in DOMAIN reads' : reads'[i].log = active' /\ reads'[i].cancelled = 0
        /\ \A i \in DOMAIN idle' : Outcome(idle[i])'
        /\ reads' = <<>> => monitor_id' = active'
    BY <1>5, <1>9, <2>1
  <2>6. Shows(IF idle = <<>> THEN lines_no[active] ELSE idle[1].from)'
    BY <1>5, <1>10, <2>1 DEF Shows
  <2> QED BY <1>7, <1>11, <2>1, <2>3, <2>4, <2>5, <2>6 DEF Quiet
<1> QED BY <1>3, <1>12

LEMMA MonitorChangedView ==
  ASSUME LinesInv, ViewInv, NEW l \in Logs, MonitorChanged(l)
  PROVE  ViewInv'
<1> SUFFICES ASSUME calm' = 1 PROVE (raced = 0 => Quiet)' /\ (raced = 1 => reads # <<>>)'
  BY DEF ViewInv
<1>1. /\ calm = 1 /\ raced = 0 /\ raced' = 0 /\ ~Outstanding(l) /\ Quiet
      /\ UNCHANGED <<taken, lines, lines_no, idle, active, shown, monitor_id, handlers>>
  BY DEF MonitorChanged, MainLoopFree, Unless, array, window, ViewInv
<1>2. reads \in Seq(ReadSet) /\ Typed
  BY DEF LinesInv, Typed
<1>3. Pushed(reads') /\ \A k : Running(k)' = Running(k)
  BY <1>2, MonitorChangedTyped, PushedRunning
<1>4. AllCounted' /\ Listens' = Listens
  BY <1>1, <1>3 DEF Quiet, AllCounted, Listens
<1>5. CASE handlers[l] = 0
  <2>1. reads' = reads
    BY <1>5 DEF MonitorChanged, LogChanged
  <2> QED BY <1>1, <1>4, <2>1 DEF Quiet, Outcome, Shows
<1>6. CASE handlers[l] # 0
  <2>1. l = active /\ handlers[l] = 1 /\ l # None /\ monitor_id = l
    BY <1>1, <1>6, LogsAssumption DEF Quiet, Listens
  <2>2. reads = <<>> /\ idle = <<>>
    <3>1. idle \in Seq(ResultSet)
      BY DEF LinesInv, Typed
    <3>2. DOMAIN reads = {} /\ DOMAIN idle = {}
      BY <1>1, <2>1 DEF Quiet, Outcome, Outstanding
    <3> QED BY <1>2, <3>1, <3>2, EmptySeq, LenProperties
  <2>3. reads' = <<NewRead(l)>>
    <3>1. reads' = Append(Cancel(reads) \o [k \in 1..(handlers[l] - 1) |->
                                               [NewRead(l) EXCEPT !.cancelled = 1]],
                          NewRead(l))
      BY <1>6 DEF MonitorChanged, LogChanged
    <3>2. Cancel(reads) = <<>>
      BY <2>2 DEF Cancel
    <3> DEFINE none == [k \in 1..(handlers[l] - 1) |-> [NewRead(l) EXCEPT !.cancelled = 1]]
    <3>3. none \in Seq(ReadSet) /\ Len(none) = 0
      BY <2>1
    <3> HIDE DEF none
    <3>4. none = <<>>
      BY <3>3, EmptySeq
    <3>5. <<>> \o <<>> = <<>> /\ Append(<<>>, NewRead(l)) = <<NewRead(l)>>
      OBVIOUS
    <3>6. reads' = Append(Cancel(reads) \o none, NewRead(l))
      BY <3>1 DEF none
    <3> QED BY <3>2, <3>4, <3>5, <3>6
  <2>4. Len(reads') = 1 /\ Len(idle') = 0 /\ DOMAIN idle' = {} /\ reads' # <<>>
        /\ \A i \in DOMAIN reads' : reads'[i].log = l /\ reads'[i].cancelled = 0
    BY <1>1, <2>2, <2>3 DEF NewRead
  <2> QED BY <1>1, <1>4, <2>1, <2>2, <2>4 DEF Quiet, Shows
<1> QED BY <1>5, <1>6

LEMMA ReadNewLinesView ==
  ASSUME LinesInv, ViewInv, ReadNewLines
  PROVE  ViewInv'
<1> SUFFICES ASSUME calm' = 1 PROVE (raced = 0 => Quiet)' /\ (raced = 1 => reads # <<>>)'
  BY DEF ViewInv
<1>1. /\ calm = 1 /\ raced = 0 /\ Quiet
      /\ UNCHANGED <<taken, lines, lines_no, reads, active>>
  BY DEF ReadNewLines, MainLoopFree, array, cache, ViewInv
<1>2. /\ idle \in Seq(ResultSet) /\ idle' \in Seq(ResultSet) /\ Len(idle') = Len(idle) - 1
      /\ Head(idle) = idle[1] /\ idle[1] \in ResultSet /\ Len(idle) >= 1
  BY ReadNewLinesTyped DEF LinesInv, Typed
<1>3. Len(reads) = 0 /\ Len(idle) = 1 /\ DOMAIN idle = 1..1 /\ reads \in Seq(ReadSet)
  <2>1. Len(reads) \in Nat /\ Len(idle) \in Nat /\ reads \in Seq(ReadSet)
    BY <1>2, LenProperties DEF LinesInv, Typed
  <2>2. Len(reads) = 0 /\ Len(idle) = 1
    BY <1>1, <1>2, <2>1 DEF Quiet
  <2> QED BY <1>2, <2>1, <2>2, LenProperties
<1>4. reads = <<>> /\ idle' = <<>> /\ idle # <<>>
  BY <1>2, <1>3, EmptySeq
<1> DEFINE r == idle[1]
           a == active
<1>5. Outcome(r) /\ a \in Logs /\ r.from \in Nat /\ a # None
  BY <1>1, <1>2, <1>3, LogsAssumption DEF Quiet, Outcome, ResultSet
<1>6. \A k : Running(k) = {} /\ Running(k)' = {}
  BY <1>1, <1>4, NoReads DEF Running
<1>7. /\ shown' = shown \o ShownOf(a, From(lines[a], r.from))
      /\ IF monitor_id = None
         THEN monitor_id' = a /\ handlers' = [handlers EXCEPT ![a] = @ + 1]
         ELSE UNCHANGED <<monitor_id, handlers>>
      /\ raced' = 0
  <2>1. r.err = 0 /\ r.log = a /\ ~MayBeMoved(r)
    BY <1>5, LenProperties DEF Outcome, MayBeMoved, LinesInv, Typed
  <2>2. Use(a) => raced' = 0
    BY <1>1, <1>6, UnterminatedIs DEF Use
  <2>3. r = Head(idle)
    BY <1>2
  <2> HIDE DEF r, a
  <2>4. shown' = shown \o ShownOf(a, From(lines[a], r.from))
    <3>1. Head(idle).err = 0 /\ Head(idle).log = a /\ Head(idle).from = r.from
      BY <2>1, <2>3
    <3>2. PICK h \in {Head(idle)} : h = Head(idle)
      OBVIOUS
    <3>3. h.err = 0 /\ h.log = a /\ h.from = r.from
      BY <3>1, <3>2
    <3>4. h.err # 1
      BY <3>3
    <3>5. LET ls == From(lines[h.log], h.from)
          IN  shown' = shown \o [i \in DOMAIN ls |-> <<h.log, ls[i]>>]
      BY <3>2, <3>4 DEF ReadNewLines
    <3>6. shown' = shown \o ShownOf(h.log, From(lines[h.log], h.from))
      BY <3>5 DEF ShownOf
    <3> QED BY <3>3, <3>6
  <2>5. IF monitor_id = None
        THEN monitor_id' = a /\ handlers' = [handlers EXCEPT ![a] = @ + 1]
        ELSE UNCHANGED <<monitor_id, handlers>>
    BY <2>1, <2>3 DEF ReadNewLines
  <2>6. raced' = 0
    BY <2>1, <2>2, <2>3 DEF ReadNewLines
  <2> QED BY <2>4, <2>5, <2>6
<1>8. Shows(lines_no[active])'
  <2>1. lines_no[a] = taken[a] /\ lines_no[a] \in Nat /\ r.from <= lines_no[a]
    BY <1>1, <1>5, <1>6 DEF Quiet, AllCounted, Outcome, LinesInv, Typed, Counts
  <2>2. From(lines[a], r.from) = Rest(taken[a], r.from) /\ r.from \in 0..taken[a]
    BY <1>1, <1>5, <1>6, <2>1, StringsAre
  <2>3. shown = [k \in 1..r.from |-> <<a, k>>]
    BY <1>1, <1>4, <1>5 DEF Quiet, Shows
  <2>4. shown' = [k \in 1..taken[a] |-> <<a, k>>]
    <3> HIDE DEF r, a
    <3> DEFINE f == r.from
    <3>0. f \in 0..taken[a] /\ taken[a] \in Nat
      BY <2>1, <2>2
    <3> HIDE DEF f
    <3>1. /\ ShownOf(a, Rest(taken[a], f)) = [i \in 1..taken[a] - f |-> <<a, f + i>>]
          /\ [i \in 1..f |-> <<a, i>>] \o [i \in 1..taken[a] - f |-> <<a, f + i>>]
               = [i \in 1..taken[a] |-> <<a, i>>]
      BY <3>0, ShownIs
    <3>2. shown' = shown \o ShownOf(a, Rest(taken[a], f))
      BY <1>7, <2>2 DEF f
    <3>3. shown = [k \in 1..f |-> <<a, k>>]
      BY <2>3 DEF f
    <3> QED BY <3>1, <3>2, <3>3
  <2> QED BY <1>1, <2>1, <2>4 DEF Shows
<1>9. monitor_id' = active' /\ handlers' = Listens'
  <2>1. CASE monitor_id = None
    <3>1. handlers = [k \in Logs |-> 0]
      BY <1>1, <1>5, <2>1 DEF Quiet, Listens
    <3> QED BY <1>1, <1>5, <1>7, <2>1, <3>1 DEF Listens
  <2>2. CASE monitor_id # None
    BY <1>1, <1>7, <2>2 DEF Quiet, Listens
  <2> QED BY <2>1, <2>2
<1>10. AllCounted'
  BY <1>1, <1>6 DEF Quiet, AllCounted
<1>11. Quiet'
  <2>1. Len(reads') = 0 /\ Len(idle') = 0 /\ DOMAIN reads' = {} /\ DOMAIN idle' = {}
    BY <1>1, <1>4
  <2> QED BY <1>4, <1>8, <1>9, <1>10, <2>1 DEF Quiet
<1> QED BY <1>7, <1>11

(* While there is a read nothing waits to be shown.                        *)
LEMMA OneRead ==
  ASSUME LinesInv, Quiet, NEW i \in DOMAIN reads
  PROVE  /\ Len(reads) = 1 /\ i = 1 /\ DOMAIN reads = {1} /\ idle = <<>>
         /\ reads[i].log = active /\ active \in Logs /\ active # None
         /\ reads[i].cancelled = 0
         /\ \A k \in Logs : k # active => Running(k) = {}
<1>1. /\ reads \in Seq(ReadSet) /\ idle \in Seq(ResultSet)
      /\ Len(reads) \in Nat /\ Len(idle) \in Nat /\ i \in 1..Len(reads)
      /\ DOMAIN reads = 1..Len(reads) /\ reads[i] \in ReadSet
  BY LenProperties, ElementOfSeq DEF LinesInv, Typed
<1>2. Len(reads) = 1 /\ Len(idle) = 0
  BY <1>1 DEF Quiet
<1>3. idle = <<>> /\ i = 1 /\ DOMAIN reads = {1}
  BY <1>1, <1>2, EmptySeq
<1>4. reads[i].log = active /\ active \in Logs /\ reads[i].cancelled = 0
  BY <1>1 DEF Quiet, ReadSet
<1> QED BY <1>2, <1>3, <1>4, LogsAssumption DEF Quiet, Running

(* A step of a thread that neither begins nor ends the read of another log  *)
(* and returns nothing.                                                    *)
LEMMA ThreadView ==
  ASSUME LinesInv, ViewInv, calm = 1, raced = 0, NEW i \in DOMAIN reads,
         NEW at \in {"reading", "end"}, Moves(i, at) \/ reads' = reads,
         UNCHANGED <<lines_no, idle, active, shown, monitor_id, handlers>>,
         \A l \in Logs : taken'[l] = taken[l] \/ Running(l) # {}
  PROVE  Quiet' /\ reads' # <<>>
<1>1. Quiet /\ reads \in Seq(ReadSet)
  BY DEF ViewInv, LinesInv, Typed
<1>2. /\ Len(reads) = 1 /\ idle = <<>> /\ DOMAIN reads = {1} /\ active # None
  BY <1>1, OneRead
<1>3. /\ Len(reads') = 1 /\ DOMAIN reads' = {1}
      /\ \A j \in DOMAIN reads : /\ reads'[j].log = reads[j].log
                                 /\ reads'[j].cancelled = reads[j].cancelled
      /\ \A l : Running(l)' = {} => Running(l) = {}
  <2>1. CASE reads' = reads
    BY <1>2, <2>1 DEF Running
  <2>2. CASE Moves(i, at)
    <3>1. /\ Len(reads') = Len(reads) /\ DOMAIN reads' = DOMAIN reads
          /\ \A j \in DOMAIN reads : /\ reads'[j].log = reads[j].log
                                     /\ reads'[j].cancelled = reads[j].cancelled
      BY <1>1, <2>2, MovesIs
    <3>2. ASSUME NEW l, Running(l)' = {} PROVE Running(l) = {}
      <4>1. reads[i].log = l => Running(l)' = Running(l) \cup {i}
        BY <1>1, <2>2, MovesRunning
      <4>2. reads[i].log # l => Running(l)' = Running(l)
        BY <1>1, <2>2, MovesRunning
      <4> QED BY <3>2, <4>1, <4>2
    <3> QED BY <1>2, <3>1, <3>2
  <2> QED BY <2>1, <2>2
<1>4. AllCounted'
  BY <1>1, <1>3 DEF Quiet, AllCounted
<1>5. Quiet'
  <2>1. Len(idle') = 0 /\ DOMAIN idle' = {} /\ idle' = <<>> /\ reads' # <<>>
    BY <1>2, <1>3
  <2>2. Listens' = Listens
    BY DEF Listens
  <2> QED BY <1>1, <1>2, <1>3, <1>4, <2>1, <2>2 DEF Quiet, Shows
<1> QED BY <1>3, <1>5

LEMMA EndReadView ==
  ASSUME LinesInv, ViewInv, NEW i \in DOMAIN reads, EndRead(i)
  PROVE  ViewInv'
<1> SUFFICES ASSUME calm' = 1 PROVE (raced = 0 => Quiet)' /\ (raced = 1 => reads # <<>>)'
  BY DEF ViewInv
<1>1. /\ calm = 1 /\ raced = 0 /\ raced' = 0 /\ Quiet /\ reads \in Seq(ReadSet)
      /\ reads[i].at = "end" /\ reads' = RemoveAt(reads, i) /\ SendToMainloop(i, 0)
      /\ UNCHANGED <<taken, active, shown, monitor_id, handlers>>
  BY DEF EndRead, IsRead, SendToMainloop, window, ViewInv, LinesInv, Typed
<1>2. /\ Len(reads) = 1 /\ idle = <<>> /\ reads[i].log = active /\ active \in Logs
      /\ active # None /\ \A k \in Logs : k # active => Running(k) = {}
  BY <1>1, OneRead
<1>3. /\ LinesInv' /\ lines_no'[active] = taken[active]
      /\ \A k \in Logs : k # active => lines_no'[k] = lines_no[k]
  BY <1>2, EndReadLines
<1>4. Len(reads') = 0 /\ DOMAIN reads' = {} /\ reads' = <<>>
  <2>1. reads' \in Seq(ReadSet) /\ Len(reads') = 0
    BY <1>1, <1>2, Removing
  <2> QED BY <2>1, EmptySeq, LenProperties
<1>5. Len(idle') = 1 /\ DOMAIN idle' = {1} /\ idle' # <<>>
      /\ idle'[1] = [log |-> active, err |-> 0, from |-> lines_no[active],
                     len |-> Len(lines'[active])]
  <2>1. /\ idle' \in Seq(ResultSet) /\ Len(idle') = Len(idle) + 1
        /\ idle'[Len(idle) + 1] = [log |-> active, err |-> 0, from |-> lines_no[active],
                                   len |-> Len(lines'[active])]
    BY <1>1, <1>2, <1>3, ResultIs DEF LinesInv, Typed
  <2>2. Len(idle) = 0
    BY <1>2
  <2> QED BY <2>1, <2>2, LenProperties
<1>6. Outcome(idle[1])' /\ lines_no[active] <= taken[active]
  <2>1. lines_no[active] <= taken[active]
    BY <1>2 DEF LinesInv, CountHolds
  <2> QED BY <1>1, <1>3, <1>5, <2>1 DEF Outcome
<1>7. AllCounted'
  <2>1. \A k \in Logs : k # active => lines_no[k] = taken[k]
    BY <1>1, <1>2 DEF Quiet, AllCounted
  <2> QED BY <1>1, <1>3, <2>1 DEF AllCounted
<1>8. Shows(idle[1].from)'
  BY <1>1, <1>2, <1>5 DEF Quiet, Shows
<1>9. Listens' = Listens
  BY <1>1 DEF Listens
<1>10. Quiet'
  BY <1>1, <1>2, <1>4, <1>5, <1>6, <1>7, <1>8, <1>9 DEF Quiet
<1> QED BY <1>1, <1>10

LEMMA ViewInit == Init => ViewInv
<1> SUFFICES ASSUME Init PROVE Quiet /\ raced = 0
  BY DEF ViewInv
<1>1. Len(reads) = 0 /\ Len(idle) = 0 /\ DOMAIN reads = {} /\ DOMAIN idle = {}
  BY DEF Init
<1>2. handlers = Listens
  BY LogsAssumption DEF Init, Listens
<1>3. AllCounted
  BY DEF Init, AllCounted
<1> QED BY <1>1, <1>2, <1>3 DEF Init, Quiet

LEMMA ViewNext == LinesInv /\ ViewInv /\ [Next]_vars => ViewInv'
<1> SUFFICES ASSUME LinesInv, ViewInv, [Next]_vars PROVE ViewInv'
  OBVIOUS
<1>1. ASSUME NEW l \in Logs, Write(l) PROVE ViewInv'
  BY <1>1 DEF Write, array, cache, window, history, ViewInv, Quiet, Outcome, Shows, Listens,
              AllCounted, Running
<1>2. ASSUME UNCHANGED <<disk, taken, array, cache, reads, idle, window, history>>
      PROVE  ViewInv'
  BY <1>2 DEF array, cache, window, history, ViewInv, Quiet, Outcome, Shows, Listens,
              AllCounted, Running
<1>3. ASSUME NEW i \in DOMAIN reads, StartRead(i) PROVE ViewInv'
  <2> SUFFICES ASSUME calm' = 1 PROVE Quiet' /\ reads' # <<>>
    BY DEF ViewInv
  <2>1. calm = 1 /\ raced = 0 /\ Moves(i, "reading")
        /\ UNCHANGED <<taken, lines_no, idle, active, shown, monitor_id, handlers>>
    BY <1>3 DEF StartRead, IsRead, cache, window
  <2> QED BY <2>1, ThreadView
<1>4. ASSUME NEW i \in DOMAIN reads, ReadLine(i) PROVE ViewInv'
  <2> SUFFICES ASSUME calm' = 1 PROVE Quiet' /\ reads' # <<>>
    BY DEF ViewInv
  <2>1. calm = 1 /\ raced = 0 /\ reads' = reads /\ reads[i].at = "reading"
        /\ UNCHANGED <<lines_no, idle, active, shown, monitor_id, handlers>>
        /\ taken' = [taken EXCEPT ![reads[i].log] = @ + 1]
    BY <1>4 DEF ReadLine, IsRead, cache, window, history
  <2>2. ASSUME NEW l \in Logs PROVE taken'[l] = taken[l] \/ Running(l) # {}
    <3>1. CASE l = reads[i].log
      BY <2>1, <3>1 DEF Running
    <3>2. CASE l # reads[i].log
      BY <2>1, <3>2 DEF LinesInv, Typed, Counts
    <3> QED BY <3>1, <3>2
  <2> QED BY <2>1, <2>2, ThreadView
<1>5. ASSUME NEW i \in DOMAIN reads, ReachEnd(i) PROVE ViewInv'
  <2> SUFFICES ASSUME calm' = 1 PROVE Quiet' /\ reads' # <<>>
    BY DEF ViewInv
  <2>1. calm = 1 /\ raced = 0 /\ Moves(i, "end")
        /\ UNCHANGED <<taken, lines_no, idle, active, shown, monitor_id, handlers>>
    BY <1>5 DEF ReachEnd, IsRead, cache, window, history
  <2> QED BY <2>1, ThreadView
<1>6. ASSUME NEW i \in DOMAIN reads, FailRead(i) PROVE ViewInv'
  <2> SUFFICES ASSUME calm' = 1 PROVE FALSE
    BY DEF ViewInv
  <2>1. calm = 1 /\ raced = 0 /\ reads[i].cancelled # 0
    BY <1>6 DEF FailRead, IsRead, Unless
  <2> QED BY <2>1, OneRead DEF ViewInv
<1>7. ASSUME NEW l \in Logs, LoadDone(l) \/ SetupFileMonitor(l) PROVE ViewInv'
  BY <1>2, <1>7, SetActiveLogView DEF LoadDone, SetupFileMonitor
<1> QED
  BY <1>1, <1>2, <1>3, <1>4, <1>5, <1>6, <1>7, SetActiveLogView, MonitorChangedView,
     ReadNewLinesView, EndReadView DEF Next, Select, Thread, Undefined, vars

(* When nothing is being read the text view holds the lines of the active   *)
(* log, each once and in order, and the window listens to that log alone    *)
(* (active_log_changed_cb and read_new_lines_cb, logview-window.c:974), if  *)
(* nobody has acted on a log while it was read.                             *)
THEOREM ViewHoldsTheActiveLog == Spec => []ViewIsCache
<1>1. LinesInv /\ ViewInv => ViewIsCache
  <2> SUFFICES ASSUME LinesInv, ViewInv, calm = 1, reads = <<>>, idle = <<>>, active # None
               PROVE  /\ shown = [i \in 1..lines_no[active] |-> <<active, i>>]
                      /\ handlers = [l \in Logs |-> IF l = active THEN 1 ELSE 0]
    BY DEF ViewIsCache
  <2>1. Quiet
    BY DEF ViewInv, LinesInv, Typed
  <2> QED BY <2>1 DEF Quiet, Shows, Listens
<1>2. Spec => []ViewInv
  BY ViewInit, ViewNext, LinesAlways, PTL DEF Spec
<1> QED BY <1>1, <1>2, LinesAlways, PTL

=============================================================================
