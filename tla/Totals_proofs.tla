----------------------------- MODULE Totals_proofs -----------------------------
(***************************************************************************)
(* What Total returns of every sequence of integers.  The induction that   *)
(* this takes is that of WellFoundedInduction in its form without an       *)
(* operator parameter: a set of naturals that is not empty has a least     *)
(* element, and the least counterexample of a claim is none.               *)
(***************************************************************************)
EXTENDS Totals, SequenceTheorems, WellFoundedInduction, TLAPS

LEMMA LeastNatural ==
    ASSUME NEW T, T \subseteq Nat, T # {}
    PROVE  \E n \in T : \A m \in T : n <= m
<1> DEFINE R == {ss \in Nat \X Nat : ss[1] < ss[2]}
<1>1. IsWellFoundedOn(R, Nat)
  BY NatLessThanWellFounded DEF OpToRel
<1> HIDE DEF R
<1>2. PICK n \in T : \A m \in T : <<m, n>> \notin R
  BY <1>1, WFMin
<1>3. ASSUME NEW m \in T
      PROVE  n <= m
  <2>1. <<m, n>> \notin R /\ m \in Nat /\ n \in Nat
    BY <1>2
  <2> QED BY <2>1 DEF R
<1> QED BY <1>3

(* Induction up to a bound, of a claim given as the set it holds on.       *)
LEMMA UpTo ==
    ASSUME NEW N \in Nat, NEW H, 0 \in H, \A n \in 1 .. N : n - 1 \in H => n \in H
    PROVE  0 .. N \subseteq H
<1> DEFINE Bad == {n \in 0 .. N : n \notin H}
<1>1. SUFFICES ASSUME Bad # {}
               PROVE  FALSE
  OBVIOUS
<1>2. Bad \subseteq Nat
  OBVIOUS
<1> HIDE DEF Bad
<1>3. PICK n \in Bad : \A m \in Bad : n <= m
  BY <1>1, <1>2, LeastNatural
<1>4. n \in 1 .. N /\ n \notin H
  BY <1>3 DEF Bad
<1>5. n - 1 \in 0 .. N /\ ~(n <= n - 1)
  BY <1>4
<1>6. n - 1 \in H
  BY <1>3, <1>5 DEF Bad
<1> QED BY <1>4, <1>6

Partial(amounts, m) ==
    {f \in [0 .. m -> Int] : f[0] = 0 /\ \A n \in 1 .. m : f[n] = f[n - 1] + amounts[n]}

LEMMA PartialSums ==
    ASSUME NEW amounts \in Seq(Int)
    PROVE  Partial(amounts, Len(amounts)) # {}
<1> DEFINE N == Len(amounts)
           H == {m \in 0 .. N : Partial(amounts, m) # {}}
<1>0. N \in Nat /\ \A n \in 1 .. N : amounts[n] \in Int
  BY ElementOfSeq, LenProperties
<1> HIDE DEF N
<1>1. 0 \in H
  <2>1. [n \in 0 .. 0 |-> 0] \in Partial(amounts, 0)
    BY DEF Partial
  <2> QED BY <1>0, <2>1
<1>2. ASSUME NEW m \in 1 .. N, m - 1 \in H
      PROVE  m \in H
  <2>1. PICK f : f \in Partial(amounts, m - 1)
    BY <1>2
  <2>2. f \in [0 .. m - 1 -> Int] /\ f[0] = 0 /\ \A n \in 1 .. m - 1 : f[n] = f[n - 1] + amounts[n]
    BY <2>1 DEF Partial
  <2> DEFINE g == [n \in 0 .. m |-> IF n = m THEN f[m - 1] + amounts[m] ELSE f[n]]
  <2>3. f[m - 1] \in Int /\ amounts[m] \in Int
    BY <1>0, <2>2
  <2>4. g \in [0 .. m -> Int]
    BY <2>2, <2>3
  <2>5. g[0] = 0
    BY <2>2
  <2>6. ASSUME NEW n \in 1 .. m
        PROVE  g[n] = g[n - 1] + amounts[n]
    BY <2>2
  <2>7. g \in Partial(amounts, m)
    BY <2>4, <2>5, <2>6 DEF Partial
  <2> QED BY <1>0, <2>7
<1> HIDE DEF H
<1>3. 0 .. N \subseteq H
  BY <1>0, <1>1, <1>2, UpTo
<1> QED BY <1>0, <1>3 DEF H, N

(* The recursive definition has a solution, and so it is one.              *)
LEMMA SumsSteps ==
    ASSUME NEW amounts \in Seq(Int)
    PROVE  /\ Sums(amounts) \in [0 .. Len(amounts) -> Int]
           /\ Sums(amounts)[0] = 0
           /\ \A n \in 1 .. Len(amounts) : Sums(amounts)[n] = Sums(amounts)[n - 1] + amounts[n]
<1> DEFINE N == Len(amounts)
           Step(f) == [n \in 0 .. N |-> IF n = 0 THEN 0 ELSE f[n - 1] + amounts[n]]
           s == Sums(amounts)
<1>0. N \in Nat /\ \A n \in 1 .. N : amounts[n] \in Int
  BY ElementOfSeq, LenProperties
<1>1. s = CHOOSE f : f = Step(f)
  BY DEF Sums
<1>2. PICK g : g \in Partial(amounts, N)
  BY PartialSums
<1>3. g = Step(g)
  <2>1. g \in [0 .. N -> Int] /\ g[0] = 0 /\ \A n \in 1 .. N : g[n] = g[n - 1] + amounts[n]
    BY <1>2 DEF Partial
  <2>2. ASSUME NEW n \in 0 .. N
        PROVE  g[n] = Step(g)[n]
    BY <1>0, <2>1
  <2> QED BY <2>1, <2>2
<1>4. s = Step(s)
  <2> HIDE DEF Step, s
  <2> QED BY <1>1, <1>3
<1> HIDE DEF s, N
<1>5. s[0] = 0 /\ \A n \in 1 .. N : s[n] = s[n - 1] + amounts[n]
  <2>1. \A n \in 0 .. N : s[n] = IF n = 0 THEN 0 ELSE s[n - 1] + amounts[n]
    BY <1>4, Zenon
  <2>2. 0 \in 0 .. N /\ \A n \in 1 .. N : n \in 0 .. N /\ n # 0
    BY <1>0
  <2> QED BY <2>1, <2>2, Zenon
<1>6. s = [n \in 0 .. N |-> s[n]]
  <2>1. DOMAIN s = 0 .. N
    BY <1>4, Zenon
  <2> QED BY <1>4, <2>1, Zenon
<1>7. \A n \in 0 .. N : s[n] \in Int
  <2> DEFINE H == {n \in 0 .. N : s[n] \in Int}
  <2>1. 0 \in H
    BY <1>0, <1>5
  <2>2. ASSUME NEW n \in 1 .. N, n - 1 \in H
        PROVE  n \in H
    <3>1. s[n - 1] \in Int /\ amounts[n] \in Int /\ n \in 0 .. N
      BY <1>0, <2>2
    <3>2. s[n] = s[n - 1] + amounts[n]
      BY <1>5
    <3>3. s[n] \in Int
      BY <3>1, <3>2
    <3> QED BY <3>1, <3>3
  <2> HIDE DEF H
  <2>3. 0 .. N \subseteq H
    BY <1>0, <2>1, <2>2, UpTo
  <2> QED BY <2>3 DEF H
<1>8. s \in [0 .. N -> Int]
  BY <1>6, <1>7, Zenon
<1> QED BY <1>5, <1>8 DEF s, N

LEMMA TotalIsInt == \A amounts \in Seq(Int) : Total(amounts) \in Int
<1> SUFFICES ASSUME NEW amounts \in Seq(Int)
             PROVE  Total(amounts) \in Int
  OBVIOUS
<1>1. Len(amounts) \in 0 .. Len(amounts)
  BY LenProperties
<1>2. Sums(amounts) \in [0 .. Len(amounts) -> Int]
  BY SumsSteps
<1> QED BY <1>1, <1>2 DEF Total

LEMMA TotalOfNone == Total(<<>>) = 0
<1>1. <<>> \in Seq(Int) /\ Len(<<>>) = 0
  OBVIOUS
<1> QED BY <1>1, SumsSteps DEF Total

(* The sums of the amounts two sequences begin with are the same.          *)
LEMMA SameSums ==
    ASSUME NEW v \in Seq(Int), NEW w \in Seq(Int), NEW m \in Nat, m <= Len(v), m <= Len(w),
           \A n \in 1 .. m : v[n] = w[n]
    PROVE  Sums(v)[m] = Sums(w)[m]
<1> DEFINE H == {n \in 0 .. m : Sums(v)[n] = Sums(w)[n]}
<1>1. Len(v) \in Nat /\ Len(w) \in Nat
  BY LenProperties
<1>2. /\ Sums(v)[0] = 0 /\ Sums(w)[0] = 0
      /\ \A n \in 1 .. m : /\ Sums(v)[n] = Sums(v)[n - 1] + v[n]
                           /\ Sums(w)[n] = Sums(w)[n - 1] + w[n]
  <2>1. \A n \in 1 .. m : n \in 1 .. Len(v) /\ n \in 1 .. Len(w)
    BY <1>1
  <2> QED BY <2>1, SumsSteps
<1>3. 0 \in H
  BY <1>2
<1>4. ASSUME NEW n \in 1 .. m, n - 1 \in H
      PROVE  n \in H
  <2>1. Sums(v)[n - 1] = Sums(w)[n - 1] /\ v[n] = w[n] /\ n \in 0 .. m
    BY <1>4
  <2> QED BY <1>2, <2>1
<1> HIDE DEF H
<1>5. 0 .. m \subseteq H
  BY <1>3, <1>4, UpTo
<1> QED BY <1>5 DEF H

LEMMA TotalOfPrefix ==
    ASSUME NEW v \in Seq(Int), NEW w \in Seq(Int), Len(v) <= Len(w),
           \A n \in 1 .. Len(v) : v[n] = w[n]
    PROVE  Total(v) = Sums(w)[Len(v)]
<1>1. Len(v) \in Nat /\ Len(v) <= Len(v)
  BY LenProperties
<1> QED BY <1>1, SameSums DEF Total

LEMMA TotalOfAppend ==
    ASSUME NEW amounts \in Seq(Int), NEW a \in Int
    PROVE  Total(Append(amounts, a)) = Total(amounts) + a
<1> DEFINE more == Append(amounts, a)
           n == Len(amounts)
<1>1. /\ more \in Seq(Int) /\ Len(more) = n + 1 /\ more[n + 1] = a
      /\ \A i \in 1 .. n : more[i] = amounts[i]
  BY AppendProperties
<1>2. n \in Nat
  BY LenProperties
<1>3. Total(amounts) = Sums(more)[n]
  <2>1. n <= n + 1
    BY <1>2
  <2> HIDE DEF more
  <2> QED BY <1>1, <2>1, TotalOfPrefix
<1> HIDE DEF more, n
<1>4. Sums(more)[n + 1] = Sums(more)[n] + a
  <2>1. n + 1 \in 1 .. Len(more) /\ (n + 1) - 1 = n
    BY <1>1, <1>2
  <2>2. \A i \in 1 .. Len(more) : Sums(more)[i] = Sums(more)[i - 1] + more[i]
    BY <1>1, SumsSteps, Zenon
  <2>3. Sums(more)[n + 1] = Sums(more)[(n + 1) - 1] + more[n + 1]
    BY <2>1, <2>2, Zenon
  <2> QED BY <1>1, <2>1, <2>3
<1> QED BY <1>1, <1>3, <1>4 DEF Total, more

(* One step of the sums.                                                   *)
LEMMA SumsStep ==
    ASSUME NEW amounts \in Seq(Int), NEW n \in Nat, n + 1 <= Len(amounts)
    PROVE  /\ Sums(amounts)[n + 1] = Sums(amounts)[n] + amounts[n + 1]
           /\ Sums(amounts)[n] \in Int /\ Sums(amounts)[n + 1] \in Int /\ amounts[n + 1] \in Int
<1>1. n + 1 \in 1 .. Len(amounts) /\ (n + 1) - 1 = n /\ n \in 0 .. Len(amounts) /\ n + 1 \in 0 .. Len(amounts)
  BY LenProperties
<1>2. Sums(amounts)[n + 1] = Sums(amounts)[(n + 1) - 1] + amounts[n + 1]
  BY <1>1, SumsSteps
<1>3. Sums(amounts)[n] \in Int /\ Sums(amounts)[n + 1] \in Int
  BY <1>1, SumsSteps
<1> QED BY <1>1, <1>2, <1>3, ElementOfSeq

LEMMA AddedBounds == \A a, b, c, x, y \in Int : a <= b + c /\ x <= y => a + x <= b + (c + y)
OBVIOUS

(* From some place on, sums grow by no more than those of amounts that are *)
(* no smaller.                                                             *)
LEMMA SumsGrowLess ==
    ASSUME NEW w \in Seq(Int), NEW v \in Seq(Int), NEW at \in Nat, NEW m \in Nat,
           at + m <= Len(w), m <= Len(v), \A k \in 1 .. m : w[at + k] <= v[k]
    PROVE  Sums(w)[at + m] <= Sums(w)[at] + Sums(v)[m]
<1> DEFINE H == {k \in 0 .. m : Sums(w)[at + k] <= Sums(w)[at] + Sums(v)[k]}
<1>0. Len(w) \in Nat /\ Len(v) \in Nat
  BY LenProperties
<1>1. Sums(w)[at] \in Int /\ Sums(v)[0] = 0
  <2>1. at \in 0 .. Len(w)
    BY <1>0
  <2> QED BY <2>1, SumsSteps
<1>2. 0 \in H
  <2>1. at + 0 = at
    OBVIOUS
  <2> QED BY <1>1, <2>1
<1>3. ASSUME NEW n \in 1 .. m, n - 1 \in H
      PROVE  n \in H
  <2> DEFINE k == n - 1
  <2>1. /\ k \in Nat /\ k + 1 \in 0 .. m /\ k + 1 \in 1 .. m /\ k + 1 = n
        /\ at + (k + 1) = (at + k) + 1 /\ at + k \in Nat
        /\ (at + k) + 1 <= Len(w) /\ k + 1 <= Len(v)
    BY <1>0
  <2>2. Sums(w)[at + k] <= Sums(w)[at] + Sums(v)[k]
    BY <1>3
  <2> HIDE DEF k, H
  <2>3. /\ Sums(w)[(at + k) + 1] = Sums(w)[at + k] + w[(at + k) + 1]
        /\ Sums(w)[at + k] \in Int /\ Sums(w)[(at + k) + 1] \in Int /\ w[(at + k) + 1] \in Int
    BY <2>1, SumsStep
  <2>4. /\ Sums(v)[k + 1] = Sums(v)[k] + v[k + 1]
        /\ Sums(v)[k] \in Int /\ Sums(v)[k + 1] \in Int /\ v[k + 1] \in Int
    BY <2>1, SumsStep
  <2>5. w[(at + k) + 1] <= v[k + 1]
    BY <2>1
  <2>6. Sums(w)[(at + k) + 1] <= Sums(w)[at] + Sums(v)[k + 1]
    BY <1>1, <2>2, <2>3, <2>4, <2>5, AddedBounds, Zenon
  <2> QED BY <2>1, <2>6 DEF H
<1> HIDE DEF H
<1>4. 0 .. m \subseteq H
  BY <1>2, <1>3, UpTo
<1> QED BY <1>4 DEF H

(* What rows change on a loan, one by one.                                 *)
LEMMA ChangesOfRows ==
    ASSUME NEW S, \A row \in S : row.amount \in Int, NEW rows \in Seq(S), NEW l
    PROVE  /\ Changes(rows, l) \in Seq(Int) /\ Len(Changes(rows, l)) = Len(rows)
           /\ \A n \in 1 .. Len(rows) :
                  Changes(rows, l)[n] = (IF rows[n].loan = l THEN rows[n].amount ELSE 0)
<1>1. Len(rows) \in Nat /\ DOMAIN rows = 1 .. Len(rows)
  BY LenProperties
<1>2. ASSUME NEW n \in 1 .. Len(rows)
      PROVE  rows[n].amount \in Int
  <2>1. rows[n] \in S
    BY <1>2, ElementOfSeq
  <2> QED BY <2>1
<1> DEFINE changes == Changes(rows, l)
           N == Len(rows)
<1>3. changes \in [1 .. N -> Int]
  BY <1>1, <1>2 DEF Changes
<1>4. \A n \in 1 .. N : changes[n] = (IF rows[n].loan = l THEN rows[n].amount ELSE 0)
  BY <1>1 DEF Changes
<1> HIDE DEF changes
<1>5. changes \in Seq(Int) /\ Len(changes) = N
  <2> HIDE DEF N
  <2> QED BY <1>1, <1>3 DEF N
<1> QED BY <1>4, <1>5 DEF changes
=============================================================================
