--------------------------- MODULE LoadReportProofs -------------------------
(***************************************************************************)
(* Proofs about LoadReport, for any length of the hour, any offset of the    *)
(* zone, any range and any records, while the daemon appends and recycles.   *)
(***************************************************************************)
EXTENDS LoadReport, SequenceTheorems, FiniteSetTheorems, TLAPS

-----------------------------------------------------------------------------
(* The inductive invariant.                                                  *)
Times == 0 .. MaxTime

Increasing(s) == \A i, j \in DOMAIN s : i < j => s[i] < s[j]
Has(s, t) == \E i \in DOMAIN s : s[i] = t

LoadTypeOK ==
  /\ records \subseteq Times /\ kept \subseteq records
  /\ until \in Times /\ from \in Times
  /\ lpc \in {"read", "fill", "shown"} /\ point \in Int
  /\ it_load5s \in Seq(Times) /\ fill_load5s \in Seq(Times)

(* What has been shown is within the range and before what is still to come. *)
ListsInOrder ==
  /\ Increasing(it_load5s) /\ Increasing(fill_load5s)
  /\ \A i \in DOMAIN fill_load5s :
       /\ from <= fill_load5s[i] /\ fill_load5s[i] <= until
       /\ \A j \in DOMAIN it_load5s : fill_load5s[i] < it_load5s[j]

(* The list has the records of the hours that were read, and no others.      *)
HoursRead ==
  lpc = "read" =>
    /\ fill_load5s = <<>>
    /\ \A i \in DOMAIN it_load5s : HourOf(point) < HourOf(it_load5s[i])
    /\ \A t \in kept :
         HourOf(point) < HourOf(t) /\ HourOf(t) <= HourOf(until) => Has(it_load5s, t)

(* A record of the range that was there all the time is shown or to come.    *)
ShownOrToCome ==
  lpc # "read" =>
    \A t \in kept : from <= t /\ t <= until => Has(it_load5s, t) \/ Has(fill_load5s, t)

RestIsLater == lpc = "shown" => \A j \in DOMAIN it_load5s : until < it_load5s[j]

LoadInv ==
  /\ LoadTypeOK /\ ListsInOrder /\ HoursRead /\ RestIsLater
  /\ ZoneShift = 0 => ShownOrToCome

-----------------------------------------------------------------------------
(* Arithmetic of the hours.                                                  *)
LEMMA Division ==
  ASSUME NEW x \in Int
  PROVE  /\ x \div HourParts \in Int
         /\ (x \div HourParts) * HourParts <= x
         /\ x < (x \div HourParts) * HourParts + HourParts
BY LoadAssumption

LEMMA Quotient ==
  ASSUME NEW p \in Nat \ {0}, NEW a \in Int, NEW b \in Int, NEW x \in Int, NEW y \in Int,
         a * p <= x, y < b * p + p, x <= y
  PROVE  a <= b
<1> SUFFICES ASSUME b + 1 <= a PROVE FALSE
  OBVIOUS
<1>1. (b + 1) * p <= a * p
  OBVIOUS
<1>2. (b + 1) * p = b * p + p
  OBVIOUS
<1>3. a * p \in Int /\ b * p \in Int
  OBVIOUS
<1> QED
  BY <1>1, <1>2, <1>3

LEMMA HoursGrow ==
  ASSUME NEW x \in Int, NEW y \in Int, x <= y
  PROVE  /\ HourOf(x) \in Int /\ HourOf(y) \in Int /\ HourOf(x) <= HourOf(y)
         /\ EpochHour(x) \in Int /\ EpochHour(y) \in Int /\ EpochHour(x) <= EpochHour(y)
<1>1. HourParts \in Nat \ {0} /\ ZoneShift \in Nat
  BY LoadAssumption
<1>2. ASSUME NEW a \in Int, NEW b \in Int, a <= b
      PROVE  /\ a \div HourParts \in Int /\ b \div HourParts \in Int
             /\ a \div HourParts <= b \div HourParts
  <2> DEFINE q == a \div HourParts
             r == b \div HourParts
  <2>1. q \in Int /\ q * HourParts <= a
    BY Division
  <2>2. r \in Int /\ b < r * HourParts + HourParts
    BY Division
  <2> HIDE DEF q, r
  <2>3. q <= r
    BY <2>1, <2>2, <1>1, <1>2, Quotient
  <2> QED
    BY <2>1, <2>2, <2>3 DEF q, r
<1>3. x + ZoneShift \in Int /\ y + ZoneShift \in Int /\ x + ZoneShift <= y + ZoneShift
  BY <1>1
<1> QED
  BY <1>2, <1>3 DEF HourOf, EpochHour

LEMMA HourBefore ==
  ASSUME NEW x \in Int
  PROVE  x - HourParts \in Int /\ HourOf(x - HourParts) = HourOf(x) - 1
<1>1. HourParts \in Nat \ {0} /\ ZoneShift \in Nat
  BY LoadAssumption
<1> DEFINE a == x + ZoneShift
           b == (x - HourParts) + ZoneShift
           q == a \div HourParts
           r == b \div HourParts
<1>2. a \in Int /\ b \in Int /\ b = a - HourParts
  BY <1>1
<1>3. q \in Int /\ q * HourParts <= a /\ a < q * HourParts + HourParts
  BY <1>2, Division
<1>4. r \in Int /\ r * HourParts <= b /\ b < r * HourParts + HourParts
  BY <1>2, Division
<1>5. HourOf(x) = q /\ HourOf(x - HourParts) = r
  BY DEF HourOf
<1> HIDE DEF a, b, q, r
<1>6. (q - 1) * HourParts = q * HourParts - HourParts
      /\ q * HourParts \in Int /\ r * HourParts \in Int /\ q - 1 \in Int
  BY <1>1, <1>3, <1>4
<1>7. (q - 1) * HourParts <= b /\ b < (q - 1) * HourParts + HourParts
  BY <1>1, <1>2, <1>3, <1>6
<1>8. q - 1 <= r
  BY <1>1, <1>2, <1>4, <1>6, <1>7, Quotient
<1>9. r <= q - 1
  BY <1>1, <1>2, <1>4, <1>6, <1>7, Quotient
<1> QED
  BY <1>1, <1>3, <1>4, <1>5, <1>8, <1>9

-----------------------------------------------------------------------------
(* Ordered(S) is S in order, for any finite set of times.                    *)
Smaller(S, t) == {u \in S : u < t}

LEMMA Ranks ==
  ASSUME NEW S \in SUBSET Times
  PROVE  /\ IsFiniteSet(S) /\ Cardinality(S) \in Nat
         /\ \A t \in S : Cardinality(Smaller(S, t)) \in 0 .. Cardinality(S) - 1
         /\ \A t, u \in S : t < u => Cardinality(Smaller(S, t)) < Cardinality(Smaller(S, u))
<1>1. IsFiniteSet(S) /\ Cardinality(S) \in Nat
  <2>1. IsFiniteSet(Times)
    BY LoadAssumption, FS_Interval DEF Times
  <2>2. IsFiniteSet(S)
    BY <2>1, FS_Subset
  <2> QED
    BY <2>2, FS_CardinalityType
<1>2. ASSUME NEW A \in SUBSET S, NEW B \in SUBSET A, NEW t \in A, t \notin B
      PROVE  Cardinality(A) \in Nat /\ Cardinality(B) \in Nat /\ Cardinality(B) < Cardinality(A)
  <2>1. IsFiniteSet(A)
    BY <1>1, FS_Subset
  <2>2. IsFiniteSet(B) /\ Cardinality(B) <= Cardinality(A) /\ Cardinality(A) # Cardinality(B)
    BY <2>1, <1>2, FS_Subset
  <2>3. Cardinality(A) \in Nat /\ Cardinality(B) \in Nat
    BY <2>1, <2>2, FS_CardinalityType
  <2> QED
    BY <2>2, <2>3
<1>3. \A t \in S : t \in Nat
  BY LoadAssumption DEF Times
<1>4. ASSUME NEW t \in S PROVE Cardinality(Smaller(S, t)) \in 0 .. Cardinality(S) - 1
  <2>1. Smaller(S, t) \in SUBSET S /\ t \notin Smaller(S, t) /\ S \in SUBSET S
    BY <1>3 DEF Smaller
  <2>2. Cardinality(Smaller(S, t)) \in Nat /\ Cardinality(Smaller(S, t)) < Cardinality(S)
    BY <2>1, <1>2
  <2> QED
    BY <1>1, <2>2
<1>5. ASSUME NEW t \in S, NEW u \in S, t < u
      PROVE  Cardinality(Smaller(S, t)) < Cardinality(Smaller(S, u))
  <2>1. /\ Smaller(S, u) \in SUBSET S /\ Smaller(S, t) \in SUBSET Smaller(S, u)
        /\ t \in Smaller(S, u) /\ t \notin Smaller(S, t)
    BY <1>3, <1>5 DEF Smaller
  <2> QED
    BY <2>1, <1>2
<1> QED
  BY <1>1, <1>4, <1>5

(* By the pigeonhole principle every rank is taken.                          *)
LEMMA EveryRank ==
  ASSUME NEW S \in SUBSET Times, NEW i \in 1 .. Cardinality(S)
  PROVE  \E t \in S : Cardinality(Smaller(S, t)) = i - 1
<1> SUFFICES ASSUME \A t \in S : Cardinality(Smaller(S, t)) # i - 1 PROVE FALSE
  OBVIOUS
<1> DEFINE R == 0 .. Cardinality(S) - 1
           rank == [t \in S |-> Cardinality(Smaller(S, t))]
<1>1. /\ IsFiniteSet(S) /\ Cardinality(S) \in Nat
      /\ \A t \in S : rank[t] \in R /\ rank[t] # i - 1
      /\ \A t, u \in S : t < u => rank[t] < rank[u]
  BY Ranks
<1>2. i - 1 \in R
  BY <1>1
<1>3. IsFiniteSet(R) /\ Cardinality(R) = Cardinality(S)
  <2>1. /\ 0 \in Int /\ Cardinality(S) - 1 \in Int
        /\ IF 0 > Cardinality(S) - 1 THEN Cardinality(S) = 0
           ELSE (Cardinality(S) - 1) - 0 + 1 = Cardinality(S)
    BY <1>1
  <2> QED
    BY <2>1, FS_Interval
<1> HIDE DEF R
<1>4. IsFiniteSet(R \ {i - 1}) /\ Cardinality(R \ {i - 1}) < Cardinality(S)
  <2>1. IsFiniteSet(R \ {i - 1}) /\ Cardinality(R \ {i - 1}) = Cardinality(R) - 1
    BY <1>2, <1>3, FS_RemoveElement
  <2> QED
    BY <2>1, <1>1, <1>3
<1>5. rank \in [S -> R \ {i - 1}]
  BY <1>1
<1>6. PICK t, u \in S : t # u /\ rank[t] = rank[u]
  <2> HIDE DEF rank
  <2>1. \E t, u \in S : t # u /\ rank[t] = rank[u]
    BY <1>1, <1>4, <1>5, FS_PigeonHole
  <2> QED
    BY <2>1
<1>7. t \in Nat /\ u \in Nat /\ rank[t] \in Nat
  BY <1>1, LoadAssumption DEF Times, R
<1> HIDE DEF rank
<1> QED
  BY <1>1, <1>6, <1>7

(* A file is in the order of its times and has all of them.                   *)
LEMMA OrderedSet ==
  ASSUME NEW S \in SUBSET Times
  PROVE  /\ Ordered(S) \in Seq(S) /\ Increasing(Ordered(S))
         /\ \A t \in S : Has(Ordered(S), t)
<1> DEFINE s == Ordered(S)
           n == Cardinality(S)
           rank(t) == Cardinality(Smaller(S, t))
<1>1. /\ n \in Nat
      /\ \A t \in S : rank(t) \in 0 .. n - 1
      /\ \A t, u \in S : t < u => rank(t) < rank(u)
  BY Ranks
<1>2. s = [i \in 1 .. n |-> CHOOSE t \in S : rank(t) = i - 1]
  BY DEF Ordered, Smaller
<1>3. \A i \in 1 .. n : s[i] \in S /\ rank(s[i]) = i - 1
  BY <1>2, EveryRank
<1> HIDE DEF n
<1>4. s \in [1 .. n -> S]
  <2> HIDE DEF rank
  <2>1. s = [i \in 1 .. n |-> s[i]]
    BY <1>2
  <2> HIDE DEF s
  <2> QED
    BY <2>1, <1>3
<1> HIDE DEF s, rank
<1>5. s \in Seq(S) /\ DOMAIN s = 1 .. n
  BY <1>1, <1>4
<1>6. \A t \in S : t \in Int
  BY LoadAssumption DEF Times
<1>7. Increasing(s)
  <2> SUFFICES ASSUME NEW i \in 1 .. n, NEW j \in 1 .. n, i < j PROVE s[i] < s[j]
    BY <1>5 DEF Increasing
  <2>1. /\ s[i] \in S /\ s[j] \in S /\ rank(s[i]) = i - 1 /\ rank(s[j]) = j - 1
        /\ s[i] \in Int /\ s[j] \in Int
    BY <1>3, <1>6
  <2>2. ~(s[j] < s[i]) /\ s[i] # s[j]
    BY <2>1, <1>1
  <2> QED
    BY <2>1, <2>2
<1>8. ASSUME NEW t \in S PROVE Has(s, t)
  <2>1. rank(t) + 1 \in 1 .. n
    BY <1>1
  <2>2. s[rank(t) + 1] \in S /\ rank(s[rank(t) + 1]) = rank(t)
    <3>1. (rank(t) + 1) - 1 = rank(t)
      BY <1>1
    <3> QED
      BY <2>1, <3>1, <1>3
  <2>3. s[rank(t) + 1] = t
    <3> DEFINE u == s[rank(t) + 1]
    <3>1. u \in S /\ u \in Int /\ t \in Int /\ rank(u) = rank(t) /\ rank(t) \in Int
      BY <2>2, <1>1, <1>6
    <3> HIDE DEF u
    <3>2. u = t
      BY <3>1, <1>1
    <3> QED
      BY <3>2 DEF u
  <2> QED
    BY <2>1, <2>3, <1>5 DEF Has
<1> QED
  BY <1>5, <1>7, <1>8 DEF s

-----------------------------------------------------------------------------
(* list::merge of a list with a file that is before all of it.                *)
LEMMA MergedInFront ==
  ASSUME NEW list \in Seq(Times), NEW file \in Seq(Times),
         \A i \in DOMAIN list, j \in DOMAIN file : file[j] < list[i]
  PROVE  Merged(list, file) = file \o list
<1> DEFINE m == Len(file)
           n == Len(list)
           merged == Merged(list, file)
<1>1. /\ m \in Nat /\ n \in Nat /\ DOMAIN file = 1 .. m /\ DOMAIN list = 1 .. n
      /\ file \in [1 .. m -> Times] /\ list \in [1 .. n -> Times]
      /\ \A t \in Times : t \in Int
  BY LenProperties, LoadAssumption DEF Times
<1>2. ASSUME NEW i \in 1 .. n PROVE PlaceInList(list, file, i) = i + m
  <2>1. {j \in DOMAIN file : file[j] < list[i]} = 1 .. m
    BY <1>1
  <2>2. Cardinality(1 .. m) = m
    <3>1. 1 \in Int /\ m \in Int /\ (IF 1 > m THEN 0 ELSE m - 1 + 1) = m
      BY <1>1
    <3> QED
      BY <3>1, FS_Interval
  <2> QED
    BY <2>1, <2>2 DEF PlaceInList
<1>3. ASSUME NEW j \in 1 .. m PROVE PlaceInFile(list, file, j) = j
  <2>1. {i \in DOMAIN list : list[i] <= file[j]} = {}
    <3>1. \A i \in 1 .. n : list[i] \in Int /\ file[j] \in Int /\ file[j] < list[i]
      BY <1>1
    <3> QED
      BY <3>1, <1>1
  <2>2. PlaceInFile(list, file, j) = j + Cardinality({})
    BY <2>1 DEF PlaceInFile
  <2>3. Cardinality({}) = 0
    BY FS_EmptySet
  <2> QED
    BY <2>2, <2>3, <1>1
<1>4. merged = [k \in 1 .. n + m |->
                  IF \E i \in DOMAIN list : PlaceInList(list, file, i) = k
                    THEN list[CHOOSE i \in DOMAIN list : PlaceInList(list, file, i) = k]
                    ELSE file[CHOOSE j \in DOMAIN file : PlaceInFile(list, file, j) = k]]
  BY DEF Merged
<1> HIDE DEF m, n, merged
<1>5. ASSUME NEW k \in 1 .. n + m
      PROVE  merged[k] = IF k <= m THEN file[k] ELSE list[k - m]
  <2>1. CASE k <= m
    <3>1. ~\E i \in DOMAIN list : PlaceInList(list, file, i) = k
      BY <2>1, <1>1, <1>2
    <3>2. k \in 1 .. m /\ (CHOOSE j \in DOMAIN file : PlaceInFile(list, file, j) = k) = k
      BY <2>1, <1>1, <1>3
    <3>3. merged[k] = file[CHOOSE j \in DOMAIN file : PlaceInFile(list, file, j) = k]
      BY <3>1, <1>4
    <3> QED
      BY <2>1, <3>2, <3>3
  <2>2. CASE ~(k <= m)
    <3>1. k - m \in 1 .. n
      BY <2>2, <1>1
    <3>2. PlaceInList(list, file, k - m) = k
      <4>1. PlaceInList(list, file, k - m) = (k - m) + m
        BY <3>1, <1>2
      <4> QED
        BY <4>1, <1>1
    <3>3. \A i \in DOMAIN list : PlaceInList(list, file, i) = k => i = k - m
      BY <1>1, <1>2
    <3>4. (CHOOSE i \in DOMAIN list : PlaceInList(list, file, i) = k) = k - m
      BY <3>1, <3>2, <3>3, <1>1
    <3> QED
      BY <2>2, <3>1, <3>2, <3>4, <1>1, <1>4
  <2> QED
    BY <2>1, <2>2
<1>6. DOMAIN merged = 1 .. n + m /\ \A k \in 1 .. n + m : merged[k] \in Times
  <2>1. DOMAIN merged = 1 .. n + m
    BY <1>4
  <2>2. ASSUME NEW k \in 1 .. n + m PROVE merged[k] \in Times
    <3>1. k <= m => k \in 1 .. m
      BY <1>1
    <3>2. ~(k <= m) => k - m \in 1 .. n
      BY <1>1
    <3> QED
      BY <3>1, <3>2, <1>1, <1>5
  <2> QED
    BY <2>1, <2>2
<1>7. merged \in Seq(Times) /\ Len(merged) = n + m
  <2>1. merged = [k \in 1 .. n + m |-> merged[k]]
    BY <1>4
  <2>2. merged \in [1 .. n + m -> Times]
    BY <2>1, <1>6
  <2>3. n + m \in Nat
    BY <1>1
  <2> QED
    BY ONLY <2>2, <2>3
<1>8. /\ file \o list \in Seq(Times) /\ Len(file \o list) = m + n
      /\ \A k \in 1 .. m + n : (file \o list)[k] = IF k <= m THEN file[k] ELSE list[k - m]
  BY ConcatProperties DEF m, n
<1>9. m + n = n + m
  BY <1>1
<1>10. \A k \in 1 .. n + m : merged[k] = (file \o list)[k]
  BY <1>5, <1>8, <1>9
<1>11. merged = file \o list
  BY <1>7, <1>8, <1>9, <1>10, SeqEqual
<1> QED
  BY <1>11 DEF merged

(* What such a list has, and that it is in order if both parts are.           *)
LEMMA InFront ==
  ASSUME NEW list \in Seq(Times), NEW file \in Seq(Times),
         \A i \in DOMAIN list, j \in DOMAIN file : file[j] < list[i],
         Increasing(list), Increasing(file),
         NEW new, new = file \o list
  PROVE  /\ new \in Seq(Times) /\ Increasing(new)
         /\ \A k \in DOMAIN new :
              (\E j \in DOMAIN file : new[k] = file[j]) \/ (\E i \in DOMAIN list : new[k] = list[i])
         /\ \A t : Has(list, t) \/ Has(file, t) => Has(new, t)
<1> DEFINE m == Len(file)
           n == Len(list)
<1>1. /\ m \in Nat /\ n \in Nat /\ DOMAIN file = 1 .. m /\ DOMAIN list = 1 .. n
      /\ file \in [1 .. m -> Times] /\ list \in [1 .. n -> Times]
  BY LenProperties
<1>2. /\ new \in Seq(Times) /\ Len(new) = m + n
      /\ \A k \in 1 .. m + n : new[k] = IF k <= m THEN file[k] ELSE list[k - m]
  BY ConcatProperties
<1>3. DOMAIN new = 1 .. m + n
  BY <1>2, LenProperties
<1> HIDE DEF m, n
<1>4. \A k \in 1 .. m + n : (k <= m => k \in 1 .. m) /\ (~(k <= m) => k - m \in 1 .. n)
  BY <1>1
<1>5. Increasing(new)
  <2> SUFFICES ASSUME NEW i \in 1 .. m + n, NEW j \in 1 .. m + n, i < j
               PROVE  new[i] < new[j]
    BY <1>3 DEF Increasing
  <2>1. CASE j <= m
    <3>1. i \in 1 .. m /\ j \in 1 .. m /\ i <= m
      BY <2>1, <1>1
    <3>2. file[i] < file[j]
      BY <3>1, <1>1 DEF Increasing
    <3> QED
      BY <3>1, <3>2, <2>1, <1>2
  <2>2. CASE ~(j <= m) /\ i <= m
    <3>1. file[i] < list[j - m]
      BY <2>2, <1>1, <1>4
    <3> QED
      BY <3>1, <2>2, <1>2
  <2>3. CASE ~(j <= m) /\ ~(i <= m)
    <3>1. i - m \in 1 .. n /\ j - m \in 1 .. n /\ i - m < j - m
      BY <2>3, <1>1, <1>4
    <3>2. list[i - m] < list[j - m]
      BY <3>1, <1>1 DEF Increasing
    <3> QED
      BY <3>2, <2>3, <1>2
  <2> QED
    BY <2>1, <2>2, <2>3
<1>6. ASSUME NEW k \in DOMAIN new
      PROVE  (\E j \in DOMAIN file : new[k] = file[j]) \/ (\E i \in DOMAIN list : new[k] = list[i])
  BY <1>1, <1>2, <1>3, <1>4
<1>7. ASSUME NEW t, Has(list, t) PROVE Has(new, t)
  <2>1. PICK i \in 1 .. n : list[i] = t
    BY <1>1, <1>7 DEF Has
  <2>2. m + i \in 1 .. m + n /\ ~(m + i <= m) /\ (m + i) - m = i
    BY <1>1
  <2>3. new[m + i] = list[(m + i) - m]
    BY <2>2, <1>2
  <2> QED
    BY <2>1, <2>2, <2>3, <1>3 DEF Has
<1>8. ASSUME NEW t, Has(file, t) PROVE Has(new, t)
  <2>1. PICK j \in 1 .. m : file[j] = t
    BY <1>1, <1>8 DEF Has
  <2>2. j \in 1 .. m + n /\ j <= m
    BY <1>1
  <2> QED
    BY <2>1, <2>2, <1>2, <1>3 DEF Has
<1> QED
  BY <1>2, <1>5, <1>6, <1>7, <1>8

-----------------------------------------------------------------------------
LEMMA InitLoad == LoadReportInit => LoadInv
<1> SUFFICES ASSUME LoadReportInit PROVE LoadInv
  OBVIOUS
<1> USE DEF LoadReportInit
<1>1. LoadTypeOK
  BY LoadAssumption DEF LoadTypeOK, Times
<1>2. ListsInOrder
  BY DEF ListsInOrder, Increasing
<1>3. HoursRead
  <2>1. HourOf(point) = HourOf(until)
    OBVIOUS
  <2>2. \A t \in kept : ~(HourOf(point) < HourOf(t) /\ HourOf(t) <= HourOf(until))
    <3> SUFFICES ASSUME NEW t \in kept PROVE ~(HourOf(until) < HourOf(t) /\ HourOf(t) <= HourOf(until))
      BY <2>1
    <3>1. HourOf(t) \in Int /\ HourOf(until) \in Int
      <4>1. t \in Int /\ until \in Int
        BY <1>1, LoadAssumption DEF LoadTypeOK, Times
      <4> QED
        BY <4>1, HoursGrow
    <3> QED
      BY <3>1
  <2> QED
    BY <2>2 DEF HoursRead
<1> QED
  BY <1>1, <1>2, <1>3 DEF LoadInv, RestIsLater, ShownOrToCome

LEMMA LoadTypes ==
  ASSUME LoadTypeOK
  PROVE  /\ \A t \in Times : t \in Int
         /\ point \in Int /\ from \in Int /\ until \in Int
         /\ \A i \in DOMAIN it_load5s : it_load5s[i] \in Times
         /\ \A i \in DOMAIN fill_load5s : fill_load5s[i] \in Times
<1>1. \A t \in Times : t \in Int
  BY LoadAssumption DEF Times
<1>2. it_load5s \in [1 .. Len(it_load5s) -> Times] /\ DOMAIN it_load5s = 1 .. Len(it_load5s)
  BY LenProperties DEF LoadTypeOK
<1>3. fill_load5s \in [1 .. Len(fill_load5s) -> Times]
      /\ DOMAIN fill_load5s = 1 .. Len(fill_load5s)
  BY LenProperties DEF LoadTypeOK
<1> QED
  BY <1>1, <1>2, <1>3 DEF LoadTypeOK

LEMMA DaemonLoad == ASSUME LoadInv, Load1Write \/ RecycleHour PROVE LoadInv'
<1>1. /\ records' \subseteq Times /\ kept' \subseteq records' /\ kept' \subseteq kept
      /\ UNCHANGED <<loadRange, lpc, point, it_load5s, fill_load5s>> /\ lpc = "read"
  <2>1. CASE Load1Write
    BY <2>1 DEF Load1Write, LoadInv, LoadTypeOK, Times
  <2>2. CASE RecycleHour
    BY <2>2 DEF RecycleHour, LoadInv, LoadTypeOK
  <2> QED
    BY <2>1, <2>2
<1> USE DEF LoadInv, loadRange
<1>2. LoadTypeOK'
  BY <1>1 DEF LoadTypeOK
<1>3. ListsInOrder' /\ RestIsLater' /\ ShownOrToCome'
  BY <1>1 DEF ListsInOrder, Increasing, RestIsLater, ShownOrToCome
<1>4. HoursRead'
  <2>1. UNCHANGED <<HourOf(point), HourOf(until)>>
    BY <1>1 DEF HourOf
  <2> QED
    BY <1>1, <2>1 DEF HoursRead, Has, HourOf
<1> QED
  BY <1>2, <1>3, <1>4

LEMMA ReadHourLoad == ASSUME LoadInv, ReadHour PROVE LoadInv'
<1> DEFINE hour == HourOf(point)
           S == {t \in records : HourOf(t) = hour}
           file == FileOf(hour)
<1>1. /\ LoadTypeOK /\ lpc = "read" /\ fill_load5s = <<>> /\ it_load5s \in Seq(Times)
      /\ it_load5s' = Merged(it_load5s, file) /\ point' = point - HourParts
      /\ UNCHANGED <<records, kept, from, until, lpc, fill_load5s>>
      /\ S \in SUBSET Times
      /\ \A i \in DOMAIN it_load5s : hour < HourOf(it_load5s[i])
  BY DEF LoadInv, HoursRead, ReadHour, LoadTypeOK, loadRange
<1>2. /\ \A t \in Times : t \in Int /\ HourOf(t) \in Int
      /\ hour \in Int /\ HourOf(until) \in Int
      /\ point - HourParts \in Int /\ HourOf(point - HourParts) = hour - 1
      /\ \A i \in DOMAIN it_load5s : it_load5s[i] \in Times
  <2>1. /\ \A t \in Times : t \in Int
        /\ point \in Int /\ until \in Int
        /\ \A i \in DOMAIN it_load5s : it_load5s[i] \in Times
    BY <1>1, LoadTypes
  <2>2. \A x \in Int : HourOf(x) \in Int
    BY HoursGrow
  <2>3. point - HourParts \in Int /\ HourOf(point - HourParts) = HourOf(point) - 1
    BY <2>1, HourBefore
  <2> QED
    BY <2>1, <2>2, <2>3
<1>3. file \in Seq(S) /\ Increasing(file) /\ \A t \in S : Has(file, t)
  BY <1>1, OrderedSet DEF FileOf
<1>4. file \in Seq(Times) /\ \A j \in DOMAIN file : file[j] \in S
  <2>1. file \in [1 .. Len(file) -> S] /\ DOMAIN file = 1 .. Len(file)
    BY <1>3, LenProperties
  <2>2. file \in Seq(Times)
    BY <1>1, <1>3, SeqMonotonic
  <2> QED
    BY <2>1, <2>2
<1>5. \A j \in DOMAIN file : file[j] \in Times /\ HourOf(file[j]) = hour
  BY <1>1, <1>4
<1> HIDE DEF file, S, hour
<1>6. \A i \in DOMAIN it_load5s, j \in DOMAIN file : file[j] < it_load5s[i]
  <2> SUFFICES ASSUME NEW i \in DOMAIN it_load5s, NEW j \in DOMAIN file,
                      it_load5s[i] <= file[j]
               PROVE  FALSE
    BY <1>2, <1>5
  <2>1. HourOf(it_load5s[i]) <= HourOf(file[j])
    BY <1>2, <1>5, HoursGrow
  <2> QED
    BY <2>1, <1>1, <1>2, <1>5
<1>7. it_load5s' = file \o it_load5s
  BY <1>1, <1>4, <1>6, MergedInFront
<1>8. Increasing(it_load5s)
  BY DEF LoadInv, ListsInOrder
<1>9. /\ it_load5s' \in Seq(Times) /\ Increasing(it_load5s')
      /\ \A k \in DOMAIN it_load5s' :
           \/ \E j \in DOMAIN file : it_load5s'[k] = file[j]
           \/ \E i \in DOMAIN it_load5s : it_load5s'[k] = it_load5s[i]
      /\ \A t : Has(it_load5s, t) \/ Has(file, t) => Has(it_load5s', t)
  BY <1>1, <1>3, <1>4, <1>6, <1>7, <1>8, InFront
<1>10. LoadTypeOK'
  BY <1>1, <1>2, <1>9 DEF LoadTypeOK
<1>11. ListsInOrder'
  BY <1>1, <1>9 DEF ListsInOrder, Increasing
<1>12. HoursRead'
  <2>1. ASSUME NEW k \in DOMAIN it_load5s' PROVE hour - 1 < HourOf(it_load5s'[k])
    <3>1. CASE \E j \in DOMAIN file : it_load5s'[k] = file[j]
      <4>1. HourOf(it_load5s'[k]) = hour
        BY <3>1, <1>5
      <4> QED
        BY <4>1, <1>2
    <3>2. CASE \E i \in DOMAIN it_load5s : it_load5s'[k] = it_load5s[i]
      <4>1. hour < HourOf(it_load5s'[k]) /\ HourOf(it_load5s'[k]) \in Int
        BY <3>2, <1>1, <1>2
      <4> QED
        BY <4>1, <1>2
    <3> QED
      BY <3>1, <3>2, <1>9
  <2>2. ASSUME NEW t \in kept, hour - 1 < HourOf(t), HourOf(t) <= HourOf(until)
        PROVE  Has(it_load5s', t)
    <3>1. t \in records /\ HourOf(t) \in Int
      BY <1>1, <1>2 DEF LoadTypeOK
    <3>2. CASE HourOf(t) = hour
      <4>1. t \in S
        BY <3>1, <3>2 DEF S
      <4> QED
        BY <4>1, <1>3, <1>9
    <3>3. CASE HourOf(t) # hour
      <4>1. hour < HourOf(t)
        BY <3>1, <3>3, <2>2, <1>2
      <4>2. Has(it_load5s, t)
        BY <4>1, <2>2, <1>1 DEF LoadInv, HoursRead, hour
      <4> QED
        BY <4>2, <1>9
    <3> QED
      BY <3>2, <3>3
  <2>3. HourOf(point') = hour - 1 /\ HourOf(until') = HourOf(until)
    BY <1>1, <1>2
  <2> QED
    BY <2>1, <2>2, <2>3, <1>1 DEF HoursRead, HourOf, Has
<1> QED
  BY <1>1, <1>10, <1>11, <1>12 DEF LoadInv, RestIsLater, ShownOrToCome

LEMMA ReadEndsLoad == ASSUME LoadInv, ReadEnds PROVE LoadInv'
<1>1. /\ LoadTypeOK /\ lpc = "read" /\ lpc' = "fill" /\ ~InRange(point)
      /\ UNCHANGED <<records, kept, from, until, point, it_load5s, fill_load5s>>
  BY DEF LoadInv, ReadEnds, loadRange
<1>2. LoadTypeOK'
  BY <1>1 DEF LoadTypeOK
<1>3. ListsInOrder' /\ HoursRead' /\ RestIsLater'
  BY <1>1 DEF LoadInv, ListsInOrder, Increasing, HoursRead, RestIsLater
<1>4. ASSUME ZoneShift = 0 PROVE ShownOrToCome'
  <2> SUFFICES ASSUME NEW t \in kept, from <= t, t <= until PROVE Has(it_load5s, t)
    BY <1>1 DEF ShownOrToCome, Has
  <2>1. t \in Int /\ from \in Int /\ until \in Int /\ point \in Int
    BY <1>1, LoadTypes DEF LoadTypeOK
  <2>2. /\ EpochHour(from) \in Int /\ HourOf(from) \in Int /\ HourOf(t) \in Int
        /\ EpochHour(point) \in Int /\ HourOf(point) \in Int /\ HourOf(until) \in Int
        /\ HourOf(from) <= HourOf(t) /\ HourOf(t) <= HourOf(until)
    BY <2>1, HoursGrow
  <2>3. HourOf(from) = EpochHour(from) /\ HourOf(point) = EpochHour(point)
    <3>1. from + 0 = from /\ point + 0 = point
      BY <2>1
    <3> QED
      BY <3>1, <1>4 DEF HourOf, EpochHour
  <2>4. EpochHour(point) < EpochHour(from)
    BY <1>1, <2>2 DEF InRange
  <2>5. HourOf(point) < HourOf(t)
    BY <2>2, <2>3, <2>4
  <2> QED
    BY <1>1, <2>2, <2>5 DEF LoadInv, HoursRead
<1> QED
  BY <1>2, <1>3, <1>4 DEF LoadInv

(* The first of the list is shown or passed over.                            *)
LEMMA TakeLoad ==
  ASSUME LoadInv, FillLoad5s, it_load5s # <<>>, Head(it_load5s) <= until
  PROVE  LoadInv'
<1> DEFINE head == it_load5s[1]
           n == Len(it_load5s)
           m == Len(fill_load5s)
<1>1. /\ LoadTypeOK /\ lpc = "fill" /\ lpc' = "fill"
      /\ UNCHANGED <<records, kept, from, until, point>>
      /\ it_load5s' = Tail(it_load5s)
      /\ fill_load5s' = IF Head(it_load5s) < from THEN fill_load5s
                        ELSE Append(fill_load5s, Head(it_load5s))
      /\ it_load5s \in Seq(Times) /\ fill_load5s \in Seq(Times)
  BY DEF LoadInv, FillLoad5s, LoadTypeOK, loadRange
<1>2. /\ n \in Nat /\ n # 0 /\ Head(it_load5s) = head
      /\ DOMAIN it_load5s = 1 .. n /\ it_load5s \in [1 .. n -> Times]
      /\ 1 \in 1 .. n /\ head \in Times /\ head <= until
  BY <1>1, EmptySeq, LenProperties
<1>3. /\ it_load5s' \in Seq(Times) /\ DOMAIN it_load5s' = 1 .. n - 1
      /\ \A i \in 1 .. n - 1 : i + 1 \in 1 .. n /\ it_load5s'[i] = it_load5s[i + 1]
  <2>1. /\ Tail(it_load5s) \in Seq(Times) /\ Len(Tail(it_load5s)) = n - 1
        /\ \A i \in 1 .. Len(Tail(it_load5s)) : Tail(it_load5s)[i] = it_load5s[i + 1]
    BY <1>1, HeadTailProperties
  <2>2. DOMAIN Tail(it_load5s) = 1 .. Len(Tail(it_load5s))
    BY <2>1, LenProperties
  <2> QED
    BY <2>1, <2>2, <1>1, <1>2
<1>4. m \in Nat /\ DOMAIN fill_load5s = 1 .. m /\ fill_load5s \in [1 .. m -> Times]
  BY <1>1, LenProperties
<1>5. /\ \A t \in Times : t \in Int
      /\ from \in Int /\ until \in Int
  BY <1>1, LoadTypes
<1>6. /\ \A i, j \in 1 .. n : i < j => it_load5s[i] < it_load5s[j]
      /\ \A i, j \in 1 .. m : i < j => fill_load5s[i] < fill_load5s[j]
      /\ \A i \in 1 .. m : /\ from <= fill_load5s[i] /\ fill_load5s[i] <= until
                           /\ \A j \in 1 .. n : fill_load5s[i] < it_load5s[j]
  BY <1>2, <1>4 DEF LoadInv, ListsInOrder, Increasing
<1> HIDE DEF n, m, head
<1>7. Increasing(it_load5s') /\ \A i \in 1 .. n - 1 : head < it_load5s'[i]
  <2>1. \A i, j \in 1 .. n - 1 : i < j => it_load5s'[i] < it_load5s'[j]
    BY <1>2, <1>3, <1>6
  <2>2. ASSUME NEW i \in 1 .. n - 1 PROVE head < it_load5s'[i]
    <3>1. 1 < i + 1
      BY <1>2
    <3> QED
      BY <3>1, <1>2, <1>3, <1>6 DEF head
  <2> QED
    BY <2>1, <2>2, <1>3 DEF Increasing
<1>8. \A t : Has(it_load5s, t) => t = head \/ Has(it_load5s', t)
  <2> SUFFICES ASSUME NEW i \in 1 .. n, i # 1 PROVE Has(it_load5s', it_load5s[i])
    BY <1>2 DEF Has, head
  <2>1. i - 1 \in 1 .. n - 1 /\ (i - 1) + 1 = i
    BY <1>2
  <2>2. it_load5s'[i - 1] = it_load5s[i]
    BY <2>1, <1>3
  <2> QED
    BY <2>1, <2>2, <1>3 DEF Has
<1>9. CASE head < from
  <2>1. fill_load5s' = fill_load5s
    BY <1>1, <1>2, <1>9
  <2>2. LoadTypeOK'
    BY <2>1, <1>1, <1>3 DEF LoadTypeOK
  <2>3. ListsInOrder'
    <3>1. Increasing(fill_load5s')
      BY <2>1, <1>4, <1>6 DEF Increasing
    <3>2. ASSUME NEW i \in DOMAIN fill_load5s'
          PROVE  /\ from' <= fill_load5s'[i] /\ fill_load5s'[i] <= until'
                 /\ \A j \in DOMAIN it_load5s' : fill_load5s'[i] < it_load5s'[j]
      BY <2>1, <1>1, <1>3, <1>4, <1>6
    <3> QED
      BY <3>1, <3>2, <1>7 DEF ListsInOrder, Increasing
  <2>4. ASSUME ZoneShift = 0 PROVE ShownOrToCome'
    <3>1. ASSUME NEW t \in kept, from <= t, t <= until
          PROVE  Has(it_load5s', t) \/ Has(fill_load5s', t)
      <4>1. Has(it_load5s, t) \/ Has(fill_load5s, t)
        BY <1>1, <2>4, <3>1 DEF LoadInv, ShownOrToCome
      <4>2. t # head
        BY <3>1, <1>2, <1>5, <1>9
      <4> QED
        BY <4>1, <4>2, <2>1, <1>8
    <3> QED
      BY <3>1, <1>1 DEF ShownOrToCome, Has
  <2> QED
    BY <2>2, <2>3, <2>4, <1>1 DEF LoadInv, HoursRead, RestIsLater
<1>10. CASE ~(head < from)
  <2>1. fill_load5s' = Append(fill_load5s, head)
    BY <1>1, <1>2, <1>10
  <2>2. /\ fill_load5s' \in Seq(Times) /\ Len(fill_load5s') = m + 1
        /\ \A i \in 1 .. m : fill_load5s'[i] = fill_load5s[i]
        /\ fill_load5s'[m + 1] = head
    <3>1. /\ Append(fill_load5s, head) \in Seq(Times)
          /\ Len(Append(fill_load5s, head)) = Len(fill_load5s) + 1
          /\ \A i \in 1 .. Len(fill_load5s) : Append(fill_load5s, head)[i] = fill_load5s[i]
          /\ Append(fill_load5s, head)[Len(fill_load5s) + 1] = head
      BY <1>1, <1>2, AppendProperties
    <3> QED
      BY <2>1, <3>1 DEF m
  <2>3. DOMAIN fill_load5s' = 1 .. m + 1
    BY <2>2, LenProperties
  <2>4. \A i \in 1 .. m + 1 : i \in 1 .. m \/ i = m + 1
    BY <1>4
  <2>5. LoadTypeOK'
    BY <2>2, <1>1, <1>3 DEF LoadTypeOK
  <2>6. ListsInOrder'
    <3>1. Increasing(fill_load5s')
      <4> SUFFICES ASSUME NEW i \in 1 .. m + 1, NEW j \in 1 .. m + 1, i < j
                   PROVE  fill_load5s'[i] < fill_load5s'[j]
        BY <2>3 DEF Increasing
      <4>1. i \in 1 .. m
        BY <1>4
      <4>2. CASE j \in 1 .. m
        BY <4>1, <4>2, <2>2, <1>6
      <4>3. CASE j = m + 1
        BY <4>1, <4>3, <2>2, <1>2, <1>6 DEF head
      <4> QED
        BY <4>2, <4>3, <2>4
    <3>2. ASSUME NEW i \in 1 .. m + 1
          PROVE  /\ from <= fill_load5s'[i] /\ fill_load5s'[i] <= until
                 /\ \A j \in 1 .. n - 1 : fill_load5s'[i] < it_load5s'[j]
      <4>1. CASE i \in 1 .. m
        BY <4>1, <2>2, <1>3, <1>6
      <4>2. CASE i = m + 1
        <5>1. from <= head
          BY <1>2, <1>5, <1>10
        <5> QED
          BY <5>1, <4>2, <2>2, <1>2, <1>7
      <4> QED
        BY <4>1, <4>2, <2>4
    <3> QED
      BY <3>1, <3>2, <2>3, <1>1, <1>3, <1>7 DEF ListsInOrder, Increasing
  <2>7. ASSUME ZoneShift = 0 PROVE ShownOrToCome'
    <3>1. ASSUME NEW t \in kept, from <= t, t <= until
          PROVE  Has(it_load5s', t) \/ Has(fill_load5s', t)
      <4>1. Has(it_load5s, t) \/ Has(fill_load5s, t)
        BY <1>1, <2>7, <3>1 DEF LoadInv, ShownOrToCome
      <4>2. Has(fill_load5s', head) /\ (Has(fill_load5s, t) => Has(fill_load5s', t))
        <5>1. m + 1 \in 1 .. m + 1 /\ \A i \in 1 .. m : i \in 1 .. m + 1
          BY <1>4
        <5> QED
          BY <5>1, <2>2, <2>3, <1>4 DEF Has
      <4> QED
        BY <4>1, <4>2, <1>8
    <3> QED
      BY <3>1, <1>1 DEF ShownOrToCome, Has
  <2> QED
    BY <2>5, <2>6, <2>7, <1>1 DEF LoadInv, HoursRead, RestIsLater
<1> QED
  BY <1>9, <1>10

(* The list has ended, or its first is later than the range.                 *)
LEMMA ShowLoad ==
  ASSUME LoadInv, FillLoad5s, ~(it_load5s # <<>> /\ Head(it_load5s) <= until)
  PROVE  LoadInv'
<1>1. /\ LoadTypeOK /\ lpc = "fill" /\ lpc' = "shown"
      /\ UNCHANGED <<records, kept, from, until, point, it_load5s, fill_load5s>>
  BY DEF LoadInv, FillLoad5s, loadRange
<1>2. LoadTypeOK'
  BY <1>1 DEF LoadTypeOK
<1>3. ListsInOrder' /\ HoursRead'
  BY <1>1 DEF LoadInv, ListsInOrder, Increasing, HoursRead
<1>4. ZoneShift = 0 => ShownOrToCome'
  BY <1>1 DEF LoadInv, ShownOrToCome, Has
<1>5. RestIsLater'
  <2> SUFFICES ASSUME NEW j \in DOMAIN it_load5s PROVE until < it_load5s[j]
    BY <1>1 DEF RestIsLater
  <2>1. /\ it_load5s \in Seq(Times) /\ Len(it_load5s) \in Nat
        /\ DOMAIN it_load5s = 1 .. Len(it_load5s)
    BY <1>1, LenProperties DEF LoadTypeOK
  <2>2. /\ it_load5s[j] \in Int /\ until \in Int /\ 1 \in DOMAIN it_load5s
        /\ it_load5s[1] \in Int /\ j \in Nat /\ j >= 1
    BY <1>1, <2>1, LoadTypes
  <2>3. Head(it_load5s) = it_load5s[1] /\ it_load5s # <<>>
    BY <2>1
  <2>4. until < it_load5s[1]
    BY <2>2, <2>3
  <2>5. j = 1 \/ it_load5s[1] < it_load5s[j]
    BY <2>2 DEF LoadInv, ListsInOrder, Increasing
  <2> QED
    BY <2>2, <2>4, <2>5
<1> QED
  BY <1>2, <1>3, <1>4, <1>5 DEF LoadInv

LEMMA NextLoad == LoadInv /\ [LoadReportNext]_loadVars => LoadInv'
<1> SUFFICES ASSUME LoadInv, [LoadReportNext]_loadVars PROVE LoadInv'
  OBVIOUS
<1>1. CASE Load1Write \/ RecycleHour
  BY <1>1, DaemonLoad
<1>2. CASE ReadHour
  BY <1>2, ReadHourLoad
<1>3. CASE ReadEnds
  BY <1>3, ReadEndsLoad
<1>4. CASE FillLoad5s
  BY <1>4, TakeLoad, ShowLoad
<1>5. CASE UNCHANGED loadVars
  <2> USE <1>5 DEF loadVars, loadRange, LoadInv
  <2>1. LoadTypeOK' /\ ListsInOrder' /\ RestIsLater' /\ (ZoneShift = 0 => ShownOrToCome')
    BY DEF LoadTypeOK, ListsInOrder, Increasing, RestIsLater, ShownOrToCome, Has
  <2>2. HoursRead'
    BY DEF HoursRead, HourOf, Has
  <2> QED
    BY <2>1, <2>2
<1> QED
  BY <1>1, <1>2, <1>3, <1>4, <1>5 DEF LoadReportNext

(* While the walk goes back, the list has the records of the hours that were  *)
(* read, in order; then what is shown goes before what is to come.           *)
THEOREM LoadInvariant == LoadReportSpec => []LoadInv
BY InitLoad, NextLoad, PTL DEF LoadReportSpec

(* In every zone the records of a report are in order, each once, and within  *)
(* the range, whatever the daemon appends and recycles meanwhile.            *)
THEOREM OrderedOnce == LoadReportSpec => []InOrderOnce
<1>1. LoadInv => InOrderOnce
  BY DEF LoadInv, ListsInOrder, Increasing, InOrderOnce
<1> QED
  BY <1>1, LoadInvariant, PTL

(* Where local hours are hours of the epoch, the report besides has every     *)
(* record of its range that was there all the time.                          *)
THEOREM EveryRecordShown ==
  ASSUME ZoneShift = 0
  PROVE  LoadReportSpec => []EveryRecordOnce
<1>1. LoadInv => EveryRecordOnce
  <2> SUFFICES ASSUME LoadInv PROVE EveryRecordOnce
    OBVIOUS
  <2>1. InOrderOnce
    BY DEF LoadInv, ListsInOrder, Increasing, InOrderOnce
  <2>2. ASSUME lpc = "shown", NEW t \in kept, from <= t, t <= until
        PROVE  \E i \in DOMAIN fill_load5s : fill_load5s[i] = t
    <3>1. Has(it_load5s, t) \/ Has(fill_load5s, t)
      BY <2>2 DEF LoadInv, ShownOrToCome
    <3>2. ASSUME NEW j \in DOMAIN it_load5s PROVE it_load5s[j] # t
      <4>1. until \in Int /\ t \in Int
        BY LoadTypes DEF LoadInv, LoadTypeOK
      <4>2. until < it_load5s[j]
        BY <2>2 DEF LoadInv, RestIsLater
      <4> QED
        BY <4>1, <4>2, <2>2
    <3> QED
      BY <3>1, <3>2 DEF Has
  <2> QED
    BY <2>1, <2>2 DEF EveryRecordOnce
<1> QED
  BY <1>1, LoadInvariant, PTL
=============================================================================
