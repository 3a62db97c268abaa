------------------------- MODULE SequenceSumsProofs -------------------------
(***************************************************************************)
(* Facts about sums over sequences.  They need induction.  The library's   *)
(* induction theorems take the formula to prove as a parameter; here the   *)
(* formula is the set of the numbers it holds for, and induction says that *)
(* such a set, if it has 0 and each successor, has every number.           *)
(***************************************************************************)
EXTENDS SequenceSums, WellFoundedInduction, TLAPS

Less == {ss \in Nat \X Nat : ss[1] < ss[2]}

LEMMA LessIsWellFounded == IsWellFoundedOn(Less, Nat)
<1>1. Less = OpToRel(<, Nat)
  BY Zenon DEF OpToRel, Less
<1>2. QED BY <1>1, NatLessThanWellFounded, Zenon

LEMMA SetInduction ==
  ASSUME NEW S, 0 \in S, \A n \in S : n \in Nat => n + 1 \in S
  PROVE  \A n \in Nat : n \in S
<1> DEFINE T == Nat \ S
<1>1. SUFFICES ASSUME T # {} PROVE FALSE
  OBVIOUS
<1>2. \E x \in T : \A y \in T : <<y, x>> \notin Less
  <2>1. T \subseteq Nat OBVIOUS
  <2> HIDE DEF T
  <2>2. QED BY <1>1, <2>1, LessIsWellFounded, WFMin, Zenon
<1>3. PICK x \in T : \A y \in T : <<y, x>> \notin Less
  BY <1>2
<1>4. x \in Nat /\ x - 1 \in Nat /\ (x - 1) + 1 = x
  OBVIOUS
<1>5. x - 1 \in T
  BY <1>4
<1>6. <<x - 1, x>> \in Less
  BY <1>4 DEF Less
<1>7. QED BY <1>3, <1>5, <1>6

-----------------------------------------------------------------------------
(* A function s is the partial sums of d up to m.                          *)
SumsUpTo(s, d, m) == s = [k \in 0..m |-> IF k = 0 THEN 0 ELSE s[k - 1] + d[k]]

LEMMA SumsExist ==
  ASSUME NEW d, NEW n \in Nat
  PROVE  \E s : SumsUpTo(s, d, n)
<1> DEFINE S == {m \in Nat : \E s : SumsUpTo(s, d, m)}
<1>1. 0 \in S
  <2>1. SumsUpTo([k \in 0..0 |-> 0], d, 0)
    BY DEF SumsUpTo
  <2>2. QED BY <2>1
<1>2. ASSUME NEW m \in S PROVE m + 1 \in S
  <2>1. PICK s : SumsUpTo(s, d, m)
    OBVIOUS
  <2> DEFINE t == [k \in 0..(m + 1) |-> IF k = m + 1 THEN s[m] + d[m + 1] ELSE s[k]]
  <2>2. ASSUME NEW k \in 0..(m + 1)
        PROVE  t[k] = IF k = 0 THEN 0 ELSE t[k - 1] + d[k]
    <3>1. CASE k = m + 1
      BY <3>1
    <3>2. CASE k # m + 1 /\ k # 0
      BY <3>2, <2>1 DEF SumsUpTo
    <3>3. CASE k = 0
      BY <3>3, <2>1 DEF SumsUpTo
    <3>4. QED BY <3>1, <3>2, <3>3
  <2>3. SumsUpTo(t, d, m + 1)
    BY <2>2 DEF SumsUpTo
  <2>4. QED BY <2>3
<1>3. \A m \in Nat : m \in S
  <2> HIDE DEF S
  <2>1. QED BY <1>1, <1>2, SetInduction
<1>4. QED BY <1>3

(* The equations PartialSums is defined by.                                *)
LEMMA PartialSumsEquations ==
  ASSUME NEW d, Len(d) \in Nat
  PROVE  /\ PartialSums(d)[0] = 0
         /\ \A k \in 1..Len(d) : PartialSums(d)[k] = PartialSums(d)[k - 1] + d[k]
<1>1. \E s : SumsUpTo(s, d, Len(d))
  BY SumsExist
<1>2. SumsUpTo(PartialSums(d), d, Len(d))
  BY <1>1 DEF PartialSums, SumsUpTo
<1>3. ASSUME NEW s, SumsUpTo(s, d, Len(d))
      PROVE  /\ s[0] = 0
             /\ \A k \in 1..Len(d) : s[k] = s[k - 1] + d[k]
  <2>1. \A k \in 0..Len(d) : s[k] = IF k = 0 THEN 0 ELSE s[k - 1] + d[k]
    BY <1>3 DEF SumsUpTo
  <2>2. QED BY <2>1
<1>4. QED BY <1>2, <1>3

LEMMA PartialSumsType ==
  ASSUME NEW d \in Seq(Int), NEW k \in 0..Len(d)
  PROVE  PartialSums(d)[k] \in Int
<1> DEFINE S == {m \in Nat : m <= Len(d) => PartialSums(d)[m] \in Int}
<1>1. Len(d) \in Nat OBVIOUS
<1>2. 0 \in S
  BY <1>1, PartialSumsEquations
<1>3. ASSUME NEW m \in S PROVE m + 1 \in S
  <2>1. SUFFICES ASSUME m + 1 <= Len(d) PROVE PartialSums(d)[m + 1] \in Int
    OBVIOUS
  <2>2. m + 1 \in 1..Len(d) /\ m <= Len(d)
    BY <1>1, <2>1
  <2>3. d[m + 1] \in Int /\ PartialSums(d)[m] \in Int
    BY <2>2
  <2>4. PartialSums(d)[m + 1] = PartialSums(d)[(m + 1) - 1] + d[m + 1]
    BY <1>1, <2>2, PartialSumsEquations
  <2>5. (m + 1) - 1 = m OBVIOUS
  <2>6. QED BY <2>3, <2>4, <2>5
<1>4. \A m \in Nat : m \in S
  <2> HIDE DEF S
  <2>1. QED BY <1>2, <1>3, SetInduction
<1>5. QED BY <1>1, <1>4

(* Sums of natural numbers never fall.                                     *)
LEMMA PartialSumsGrow ==
  ASSUME NEW d \in Seq(Nat), NEW k \in 0..Len(d), NEW n \in k..Len(d)
  PROVE  /\ PartialSums(d)[k] \in Nat /\ PartialSums(d)[n] \in Nat
         /\ PartialSums(d)[k] <= PartialSums(d)[n]
<1> DEFINE s == PartialSums(d)
           S == {m \in Nat : m <= Len(d) =>
                   s[m] \in Nat /\ \A j \in 0..m : s[j] \in Nat /\ s[j] <= s[m]}
<1>1. Len(d) \in Nat OBVIOUS
<1>2. s[0] = 0 /\ \A j \in 1..Len(d) : s[j] = s[j - 1] + d[j]
  BY <1>1, PartialSumsEquations
<1> HIDE DEF s
<1>3. 0 \in S
  BY <1>2
<1>4. ASSUME NEW m \in S PROVE m + 1 \in S
  <2>1. SUFFICES ASSUME m + 1 <= Len(d)
                 PROVE  /\ s[m + 1] \in Nat
                        /\ \A j \in 0..(m + 1) : s[j] \in Nat /\ s[j] <= s[m + 1]
    OBVIOUS
  <2>2. m + 1 \in 1..Len(d) /\ m <= Len(d)
    BY <1>1, <2>1
  <2>3. d[m + 1] \in Nat /\ s[m] \in Nat
    BY <2>2
  <2>4. s[m + 1] = s[m] + d[m + 1]
    <3>1. (m + 1) - 1 = m OBVIOUS
    <3>2. QED BY <1>2, <2>2, <3>1
  <2>5. ASSUME NEW j \in 0..(m + 1) PROVE s[j] \in Nat /\ s[j] <= s[m + 1]
    <3>1. CASE j = m + 1 BY <3>1, <2>3, <2>4
    <3>2. CASE j \in 0..m BY <3>2, <2>2, <2>3, <2>4
    <3>3. QED BY <3>1, <3>2
  <2>6. QED BY <2>3, <2>4, <2>5
<1>5. \A m \in Nat : m \in S
  <2> HIDE DEF S
  <2>1. QED BY <1>3, <1>4, SetInduction
<1>6. n \in S /\ n <= Len(d) /\ k \in 0..n
  BY <1>1, <1>5
<1>7. QED BY <1>6 DEF s

(* Sums keep the order of their entries.                                   *)
LEMMA PartialSumsCompare ==
  ASSUME NEW a \in Seq(Int), NEW b \in Seq(Int), NEW c \in Seq(Int),
         Len(b) = Len(a), Len(c) = Len(a),
         \A k \in 1..Len(a) : a[k] <= b[k] + c[k],
         NEW n \in 0..Len(a)
  PROVE  PartialSums(a)[n] <= PartialSums(b)[n] + PartialSums(c)[n]
<1> DEFINE sa == PartialSums(a)
           sb == PartialSums(b)
           sc == PartialSums(c)
           S  == {m \in Nat : m <= Len(a) => sa[m] <= sb[m] + sc[m]}
<1>1. Len(a) \in Nat OBVIOUS
<1>2. /\ sa[0] = 0 /\ \A j \in 1..Len(a) : sa[j] = sa[j - 1] + a[j]
      /\ sb[0] = 0 /\ \A j \in 1..Len(a) : sb[j] = sb[j - 1] + b[j]
      /\ sc[0] = 0 /\ \A j \in 1..Len(a) : sc[j] = sc[j - 1] + c[j]
  BY <1>1, PartialSumsEquations
<1>3. \A j \in 0..Len(a) : sa[j] \in Int /\ sb[j] \in Int /\ sc[j] \in Int
  BY PartialSumsType
<1> HIDE DEF sa, sb, sc
<1>4. 0 \in S
  BY <1>2
<1>5. ASSUME NEW m \in S PROVE m + 1 \in S
  <2>1. SUFFICES ASSUME m + 1 <= Len(a) PROVE sa[m + 1] <= sb[m + 1] + sc[m + 1]
    OBVIOUS
  <2>2. m + 1 \in 1..Len(a) /\ m \in 0..Len(a) /\ (m + 1) - 1 = m
    BY <1>1, <2>1
  <2>3. sa[m] <= sb[m] + sc[m]
    BY <2>2
  <2>4. /\ sa[m + 1] = sa[m] + a[m + 1] /\ sb[m + 1] = sb[m] + b[m + 1]
        /\ sc[m + 1] = sc[m] + c[m + 1]
    BY <1>2, <2>2
  <2>5. a[m + 1] <= b[m + 1] + c[m + 1] /\ a[m + 1] \in Int /\ b[m + 1] \in Int
        /\ c[m + 1] \in Int
    BY <2>2
  <2>6. sa[m] \in Int /\ sb[m] \in Int /\ sc[m] \in Int
    BY <1>3, <2>2
  <2>7. \A p, q, r, u, v, w \in Int :
          p <= q + r /\ u <= v + w => p + u <= (q + v) + (r + w)
    OBVIOUS
  <2>8. sa[m] + a[m + 1] <= (sb[m] + b[m + 1]) + (sc[m] + c[m + 1])
    BY <2>3, <2>5, <2>6, <2>7
  <2>9. QED BY <2>4, <2>8
<1>6. \A m \in Nat : m \in S
  <2> HIDE DEF S
  <2>1. QED BY <1>4, <1>5, SetInduction
<1>7. n \in S /\ n <= Len(a)
  BY <1>1, <1>6
<1>8. QED BY <1>7 DEF sa, sb, sc
=============================================================================
