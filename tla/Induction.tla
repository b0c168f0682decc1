----------------------------- MODULE Induction -----------------------------
(***************************************************************************)
(* Facts about numbers, sequences and recursive functions that the proofs  *)
(* of the other modules cite.  Induction is stated over a set of numbers   *)
(* instead of a predicate, and recursion over a function of steps instead  *)
(* of an operator, so that both can be instantiated.                       *)
(***************************************************************************)
EXTENDS Lists, FiniteSetTheorems, SequenceTheorems, WellFoundedInduction, TLAPS

\* A nonempty set of natural numbers has a least element.
LEMMA LeastElement ==
  ASSUME NEW S \in SUBSET Nat, S # {}
  PROVE  \E n \in S : \A m \in S : n <= m
<1>1. IsWellFoundedOn(OpToRel(<, Nat), Nat)
  BY NatLessThanWellFounded
<1>2. PICK x \in S : \A y \in S : ~ (<<y, x>> \in OpToRel(<, Nat))
  BY <1>1, WFMin
<1>3. ASSUME NEW y \in S PROVE x <= y
  <2>1. x \in Nat /\ y \in Nat
    OBVIOUS
  <2>2. ~ (y < x)
    BY <1>2, <2>1 DEF OpToRel
  <2> QED
    BY <2>1, <2>2
<1> QED
  BY <1>3

\* Induction: a set with 0 and the successors of its numbers has all numbers.
LEMMA InductionOverSet ==
  ASSUME NEW S, 0 \in S, \A n \in S \cap Nat : n + 1 \in S
  PROVE  \A n \in Nat : n \in S
<1> SUFFICES ASSUME Nat \ S # {} PROVE FALSE
  OBVIOUS
<1>1. PICK n \in Nat \ S : \A m \in Nat \ S : n <= m
  BY LeastElement
<1>2. n # 0 /\ n - 1 \in Nat /\ ~(n <= n - 1)
  BY <1>1
<1>3. n - 1 \in S
  BY <1>1, <1>2
<1>4. (n - 1) + 1 = n
  BY <1>1
<1> QED
  BY <1>2, <1>3, <1>4

\* The same over the interval 0 .. N.
LEMMA InductionOverInterval ==
  ASSUME NEW N \in Nat, NEW S, 0 \in S, \A n \in 0 .. N - 1 : n \in S => n + 1 \in S
  PROVE  \A n \in 0 .. N : n \in S
<1> DEFINE T == {n \in Nat : n \in S \/ n > N}
<1>1. 0 \in T
  OBVIOUS
<1>2. ASSUME NEW n \in T \cap Nat PROVE n + 1 \in T
  OBVIOUS
<1> HIDE DEF T
<1>3. \A n \in Nat : n \in T
  BY <1>1, <1>2, InductionOverSet
<1> QED
  BY <1>3 DEF T

\* Functions that change a value of V for each of 1 .. N, and what they make of base.
IsSteps(step, N, V) == step \in [1 .. N -> [V -> V]]

IsRun(f, N, V, base, step) ==
  /\ f \in [0 .. N -> V]
  /\ f[0] = base
  /\ \A i \in 1 .. N : f[i] = step[i][f[i - 1]]

\* A function on 0 .. N that applies step[i] to its value at i - 1 exists, and
\* its values stay in V.
LEMMA RunOfSteps ==
  ASSUME NEW N \in Nat, NEW V, NEW base \in V, NEW step, IsSteps(step, N, V)
  PROVE  \E f : IsRun(f, N, V, base, step)
<1>0. step \in [1 .. N -> [V -> V]]
  BY DEF IsSteps
<1> DEFINE P(f, n) == /\ f[0] = base
                      /\ \A i \in 1 .. n : f[i] = step[i][f[i - 1]]
           S == {n \in 0 .. N : \E f \in [0 .. N -> V] : P(f, n)}
<1>1. 0 \in S
  <2> DEFINE g == [i \in 0 .. N |-> base]
  <2>1. g \in [0 .. N -> V]
    OBVIOUS
  <2>2. g[0] = base /\ 0 \in 0 .. N
    OBVIOUS
  <2> HIDE DEF g
  <2>3. P(g, 0)
    BY <2>2
  <2> QED
    BY <2>1, <2>2, <2>3
<1>2. ASSUME NEW n \in 0 .. N - 1, n \in S PROVE n + 1 \in S
  <2>1. PICK f \in [0 .. N -> V] : P(f, n)
    BY <1>2
  <2> DEFINE g == [f EXCEPT ![n + 1] = step[n + 1][f[n]]]
  <2>2. n + 1 \in 1 .. N /\ n \in 0 .. N /\ n + 1 \in 0 .. N
    OBVIOUS
  <2>3. step[n + 1] \in [V -> V] /\ f[n] \in V
    BY <1>0, <2>2
  <2>4. g \in [0 .. N -> V]
    BY <2>3
  <2>5. g[n + 1] = step[n + 1][f[n]] /\ \A i \in 0 .. n : g[i] = f[i]
    BY <2>2
  <2>6. g[0] = base
    BY <2>1, <2>5
  <2>7. ASSUME NEW i \in 1 .. n + 1 PROVE g[i] = step[i][g[i - 1]]
    <3> HIDE DEF g
    <3>1. CASE i = n + 1
      <4>1. i - 1 = n /\ n \in 0 .. n
        BY <3>1
      <4>2. g[i - 1] = f[n]
        BY <2>5, <4>1
      <4> QED
        BY <2>5, <3>1, <4>2
    <3>2. CASE i # n + 1
      BY <2>1, <2>5, <3>2
    <3> QED
      BY <3>1, <3>2
  <2> HIDE DEF g
  <2> QED
    BY <2>2, <2>4, <2>6, <2>7
<1> HIDE DEF S
<1>3. \A n \in 0 .. N : n \in S
  BY <1>1, <1>2, InductionOverInterval
<1>4. N \in S
  BY <1>3
<1>5. PICK f \in [0 .. N -> V] : P(f, N)
  BY <1>4 DEF S
<1> QED
  BY <1>5 DEF IsRun

\* A function on 1 .. n is a sequence.
LEMMA FunctionIsSeq ==
  ASSUME NEW S, NEW n \in Nat, NEW f \in [1 .. n -> S]
  PROVE  f \in Seq(S) /\ Len(f) = n /\ DOMAIN f = 1 .. n
<1>1. f \in Seq(S)
  BY SeqDef
<1>2. Len(f) \in Nat /\ DOMAIN f = 1 .. Len(f)
  BY <1>1, LenProperties
<1>3. DOMAIN f = 1 .. n
  OBVIOUS
<1> DEFINE k == Len(f)
<1>4. k \in Nat /\ 1 .. n = 1 .. k
  BY <1>2, <1>3
<1> HIDE DEF k
<1>5. \A i \in Int : 1 <= i /\ i <= n <=> 1 <= i /\ i <= k
  BY <1>4
<1>6. n = k
  <2>1. n <= k
    BY <1>4, <1>5
  <2>2. k <= n
    BY <1>4, <1>5
  <2> QED
    BY <1>4, <2>1, <2>2
<1> QED
  BY <1>1, <1>3, <1>6 DEF k

\* What Append does to the elements of a sequence.
LEMMA AppendElements ==
  ASSUME NEW S, NEW s \in Seq(S), NEW x \in S
  PROVE  /\ Append(s, x) \in Seq(S)
         /\ Len(Append(s, x)) = Len(s) + 1
         /\ DOMAIN Append(s, x) = 1 .. Len(s) + 1
         /\ \A i \in 1 .. Len(s) : Append(s, x)[i] = s[i]
         /\ Append(s, x)[Len(s) + 1] = x
  BY AppendProperties, LenProperties

\* A sequence of whatever it holds.
IsSequence(s) == \E S : s \in Seq(S)

\* The same without a set of elements.
LEMMA AppendToSequence ==
  ASSUME NEW s, IsSequence(s), NEW x
  PROVE  /\ IsSequence(Append(s, x))
         /\ Len(s) \in Nat /\ DOMAIN s = 1 .. Len(s)
         /\ Len(Append(s, x)) = Len(s) + 1
         /\ DOMAIN Append(s, x) = 1 .. Len(s) + 1
         /\ \A i \in 1 .. Len(s) : Append(s, x)[i] = s[i]
         /\ Append(s, x)[Len(s) + 1] = x
<1>1. PICK S : s \in Seq(S)
  BY DEF IsSequence
<1> DEFINE T == S \cup {x}
<1>2. \E n \in Nat : s \in [1 .. n -> S]
  BY <1>1, SeqDef
<1>3. \E n \in Nat : s \in [1 .. n -> T]
  BY <1>2
<1>4. s \in Seq(T) /\ x \in T
  BY <1>3, SeqDef
<1> HIDE DEF T
<1>5. Len(s) \in Nat /\ DOMAIN s = 1 .. Len(s)
  BY <1>4, LenProperties
<1> QED
  BY <1>4, <1>5, AppendElements DEF IsSequence

\* A function on 0 .. N that starts in V and that no step takes out of V stays
\* in V.
LEMMA StaysIn ==
  ASSUME NEW N \in Nat, NEW V, NEW g, g[0] \in V,
         \A i \in 1 .. N : g[i - 1] \in V => g[i] \in V
  PROVE  \A i \in 0 .. N : g[i] \in V
<1> DEFINE S == {i \in 0 .. N : g[i] \in V}
<1>1. 0 \in S
  OBVIOUS
<1>2. ASSUME NEW i \in 0 .. N - 1, i \in S PROVE i + 1 \in S
  <2>1. i + 1 \in 1 .. N /\ (i + 1) - 1 = i
    OBVIOUS
  <2>2. g[(i + 1) - 1] \in V
    BY <1>2, <2>1
  <2> QED
    BY <2>1, <2>2
<1> HIDE DEF S
<1>3. \A i \in 0 .. N : i \in S
  BY <1>1, <1>2, InductionOverInterval
<1> QED
  BY <1>3 DEF S

\* A sequence of elements of a set is one of elements of a larger set.
LEMMA SeqOfSubset ==
  ASSUME NEW S, NEW T, \A x \in S : x \in T, NEW s \in Seq(S)
  PROVE  s \in Seq(T)
<1>1. \A i \in 1 .. Len(s) : s[i] \in S
  BY ElementOfSeq
<1>2. \E n \in Nat : s \in [1 .. n -> S]
  BY SeqDef
<1>3. \E n \in Nat : s \in [1 .. n -> T]
  BY <1>2
<1> QED
  BY <1>3, SeqDef

\* The first n numbers.
LEMMA NumbersTo ==
  ASSUME NEW n \in Nat
  PROVE  IsFiniteSet(1 .. n) /\ Cardinality(1 .. n) = n
<1>1. PICK a \in Int : a = 1
  OBVIOUS
<1>2. /\ IsFiniteSet(a .. n)
      /\ Cardinality(a .. n) = IF a > n THEN 0 ELSE n - a + 1
  BY FS_Interval
<1> QED
  BY <1>1, <1>2

-----------------------------------------------------------------------------
(***************************************************************************)
(* Module Lists.                                                           *)
(***************************************************************************)

\* What Kept has of the first n elements, for every n.
IsKept(kept, seq, K) ==
  /\ kept[0] = <<>>
  /\ \A i \in 1 .. Len(seq) :
       kept[i] = IF seq[i] \in K THEN Append(kept[i - 1], seq[i]) ELSE kept[i - 1]
  /\ Kept(seq, K) = kept[Len(seq)]

\* There is such a function.
LEMMA KeptSteps ==
  ASSUME NEW S, NEW seq \in Seq(S), NEW K
  PROVE  \E kept : IsKept(kept, seq, K)
<1> DEFINE n == Len(seq)
           V == Seq(S)
           step == [i \in 1 .. n |-> [s \in V |->
                      IF seq[i] \in K THEN Append(s, seq[i]) ELSE s]]
           value(g, i) == IF i = 0 THEN <<>>
                          ELSE IF seq[i] \in K THEN Append(g[i - 1], seq[i]) ELSE g[i - 1]
           kept == CHOOSE g : g = [i \in 0 .. n |-> value(g, i)]
<1>1. n \in Nat /\ <<>> \in V /\ \A i \in 1 .. n : seq[i] \in S
  BY LenProperties, ElementOfSeq, EmptySeq
<1>2. \A i \in 1 .. n : \A s \in V : Append(s, seq[i]) \in V
  BY <1>1, AppendElements
<1>3. IsSteps(step, n, V)
  BY <1>2 DEF IsSteps
<1>4. \A i \in 1 .. n : \A s \in V :
        step[i][s] = IF seq[i] \in K THEN Append(s, seq[i]) ELSE s
  OBVIOUS
<1> HIDE DEF n, V, step
<1>5. PICK base : base = <<>>
  OBVIOUS
<1>6. base \in V
  BY <1>1, <1>5
<1>7. PICK f : IsRun(f, n, V, base, step)
  BY <1>1, <1>3, <1>6, RunOfSteps
<1>8. /\ f \in [0 .. n -> V] /\ f[0] = <<>>
      /\ \A i \in 1 .. n : f[i] = step[i][f[i - 1]]
  BY <1>5, <1>7 DEF IsRun
<1>9. \A i \in 0 .. n : f[i] = value(f, i)
  <2> SUFFICES ASSUME NEW i \in 0 .. n PROVE f[i] = value(f, i)
    OBVIOUS
  <2>1. CASE i = 0
    BY <1>8, <2>1
  <2>2. CASE i # 0
    <3>1. i \in 1 .. n /\ f[i - 1] \in V
      BY <1>1, <1>8, <2>2
    <3> QED
      BY <1>4, <1>8, <2>2, <3>1
  <2> QED
    BY <2>1, <2>2
<1>10. f = [i \in 0 .. n |-> value(f, i)]
  BY <1>8, <1>9
<1>11. kept = [i \in 0 .. n |-> value(kept, i)]
  BY <1>10
<1>12. Kept(seq, K) = kept[n]
  BY DEF Kept, n
<1> HIDE DEF kept
<1>13. \A i \in 0 .. n : kept[i] = value(kept, i)
  BY <1>11
<1>14. IsKept(kept, seq, K)
  <2>1. kept[0] = <<>>
    BY <1>1, <1>13
  <2>2. ASSUME NEW i \in 1 .. n
        PROVE  kept[i] = IF seq[i] \in K THEN Append(kept[i - 1], seq[i]) ELSE kept[i - 1]
    BY <1>1, <1>13, <2>2
  <2> QED
    BY <1>12, <2>1, <2>2 DEF IsKept, n
<1> QED
  BY <1>14

\* Kept has elements of the sequence, all of them in the set.
LEMMA KeptElements ==
  ASSUME NEW S, NEW seq \in Seq(S), NEW K
  PROVE  Kept(seq, K) \in Seq(S \cap K)
<1> DEFINE n == Len(seq)
           V == Seq(S \cap K)
<1>1. PICK kept : IsKept(kept, seq, K)
  BY KeptSteps
<1>2. n \in Nat /\ \A i \in 1 .. n : seq[i] \in S
  BY LenProperties, ElementOfSeq
<1>3. kept[0] \in V
  BY <1>1, EmptySeq DEF IsKept
<1>4. ASSUME NEW i \in 1 .. n, kept[i - 1] \in V PROVE kept[i] \in V
  <2>1. CASE seq[i] \in K
    <3>1. seq[i] \in S \cap K
      BY <1>2, <2>1
    <3>2. Append(kept[i - 1], seq[i]) \in V
      BY <1>4, <3>1, AppendElements
    <3>3. kept[i] = Append(kept[i - 1], seq[i])
      BY <1>1, <2>1 DEF IsKept
    <3> QED
      BY <3>2, <3>3
  <2>2. CASE seq[i] \notin K
    <3>1. kept[i] = kept[i - 1]
      BY <1>1, <2>2 DEF IsKept
    <3> QED
      BY <1>4, <3>1
  <2> QED
    BY <2>1, <2>2
<1> HIDE DEF V
<1>5. \A i \in 0 .. n : kept[i] \in V
  <2> HIDE DEF n
  <2> QED
    BY <1>2, <1>3, <1>4, StaysIn
<1>6. Kept(seq, K) = kept[n]
  BY <1>1 DEF IsKept
<1> QED
  BY <1>2, <1>5, <1>6 DEF V

\* Kept of a sequence over a set is one.
LEMMA KeptInSet ==
  ASSUME NEW S, NEW seq \in Seq(S), NEW K
  PROVE  Kept(seq, K) \in Seq(S)
<1>1. Kept(seq, K) \in Seq(S \cap K)
  BY KeptElements
<1>2. \A x \in S \cap K : x \in S
  OBVIOUS
<1> QED
  BY <1>1, <1>2, SeqOfSubset

\* Kept repeats nothing that the sequence does not repeat.
LEMMA KeptOnce ==
  ASSUME NEW S, NEW seq \in Seq(S), NEW K,
         \A i, j \in 1 .. Len(seq) : seq[i] = seq[j] => i = j
  PROVE  LET k == Kept(seq, K)
         IN \A i, j \in 1 .. Len(k) : k[i] = k[j] => i = j
<1>2. PICK kept : IsKept(kept, seq, K)
  BY KeptSteps
<1> DEFINE n == Len(seq)
<1>1. n \in Nat /\ \A i \in 1 .. n : seq[i] \in S
  BY LenProperties, ElementOfSeq
<1> DEFINE Made(s, m) == /\ s \in Seq(S)
                         /\ \A i, j \in 1 .. Len(s) : s[i] = s[j] => i = j
                         /\ \A i \in 1 .. Len(s) : \E l \in 1 .. m : s[i] = seq[l]
<1> DEFINE R == {i \in 0 .. n : Made(kept[i], i)}
<1>3. 0 \in R
  <2>1. kept[0] = <<>> /\ <<>> \in Seq(S) /\ Len(<<>>) = 0
    BY <1>2, EmptySeq DEF IsKept
  <2>2. PICK s : s = kept[0]
    OBVIOUS
  <2>3. s \in Seq(S) /\ Len(s) = 0 /\ 1 .. Len(s) = {}
    BY <2>1, <2>2
  <2>4. Made(s, 0)
    BY <2>3
  <2> HIDE DEF Made
  <2> QED
    BY <1>1, <2>2, <2>4
<1>4. ASSUME NEW m \in 0 .. n - 1, m \in R PROVE m + 1 \in R
  <2>1. m + 1 \in 1 .. n /\ (m + 1) - 1 = m /\ m + 1 \in 0 .. n /\ m \in Nat
    BY <1>1
  <2>2. Made(kept[m], m)
    BY <1>4
  <2>3. CASE seq[m + 1] \notin K
    <3>1. kept[m + 1] = kept[m]
      BY <1>2, <2>1, <2>3 DEF IsKept
    <3>2. 1 .. m \subseteq 1 .. m + 1
      BY <2>1
    <3>3. Made(kept[m + 1], m + 1)
      BY <2>2, <3>1, <3>2
    <3> QED
      BY <2>1, <3>3
  <2>4. CASE seq[m + 1] \in K
    <3> DEFINE s == kept[m]
               t == Append(s, seq[m + 1])
    <3>1. kept[m + 1] = t
      BY <1>2, <2>1, <2>4 DEF IsKept
    <3>2. /\ t \in Seq(S) /\ Len(t) = Len(s) + 1 /\ Len(s) \in Nat
          /\ \A i \in 1 .. Len(s) : t[i] = s[i]
          /\ t[Len(s) + 1] = seq[m + 1]
      BY <1>1, <2>1, <2>2, AppendElements, LenProperties
    <3> HIDE DEF t
    <3>3. ASSUME NEW i \in 1 .. Len(s) PROVE t[i] # seq[m + 1]
      <4>1. PICK l \in 1 .. m : s[i] = seq[l]
        BY <2>2, <3>3
      <4>2. l \in 1 .. n /\ l # m + 1
        BY <1>1, <2>1, <4>1
      <4> QED
        BY <2>1, <3>2, <3>3, <4>1, <4>2
    <3>4. ASSUME NEW i \in 1 .. Len(t), NEW j \in 1 .. Len(t), t[i] = t[j] PROVE i = j
      <4>1. i \in 1 .. Len(s) \/ i = Len(s) + 1
        BY <3>2
      <4>2. j \in 1 .. Len(s) \/ j = Len(s) + 1
        BY <3>2
      <4> QED
        BY <2>2, <3>2, <3>3, <3>4, <4>1, <4>2
    <3>5. ASSUME NEW i \in 1 .. Len(t) PROVE \E l \in 1 .. m + 1 : t[i] = seq[l]
      <4>1. CASE i \in 1 .. Len(s)
        <5>1. PICK l \in 1 .. m : s[i] = seq[l]
          BY <2>2, <4>1
        <5>2. l \in 1 .. m + 1
          BY <2>1
        <5> QED
          BY <3>2, <4>1, <5>1, <5>2
      <4>2. CASE i = Len(s) + 1
        <5>1. m + 1 \in 1 .. m + 1
          BY <2>1
        <5> QED
          BY <3>2, <4>2, <5>1
      <4> QED
        BY <3>2, <4>1, <4>2
    <3>6. Made(t, m + 1)
      BY <3>2, <3>4, <3>5
    <3> QED
      BY <2>1, <3>1, <3>6
  <2> QED
    BY <2>3, <2>4
<1> HIDE DEF R
<1>5. \A i \in 0 .. n : i \in R
  BY <1>1, <1>3, <1>4, InductionOverInterval
<1>6. Made(kept[n], n)
  BY <1>1, <1>5 DEF R
<1>7. Kept(seq, K) = kept[n]
  BY <1>2 DEF IsKept
<1> QED
  BY <1>6, <1>7

\* The sums of the first n numbers, for every n.
IsTotal(total, numbers) ==
  /\ total[0] = 0
  /\ \A i \in 1 .. Len(numbers) : total[i] = total[i - 1] + numbers[i]
  /\ Total(numbers) = total[Len(numbers)]

\* There is such a function, of whole numbers.
LEMMA TotalSteps ==
  ASSUME NEW numbers \in Seq(Int)
  PROVE  \E total : IsTotal(total, numbers) /\ \A i \in 0 .. Len(numbers) : total[i] \in Int
<1> DEFINE n == Len(numbers)
           V == Int
           step == [i \in 1 .. n |-> [x \in V |-> x + numbers[i]]]
           value(g, i) == IF i = 0 THEN 0 ELSE g[i - 1] + numbers[i]
           total == CHOOSE g : g = [i \in 0 .. n |-> value(g, i)]
<1>1. n \in Nat /\ \A i \in 1 .. n : numbers[i] \in Int
  BY LenProperties, ElementOfSeq
<1>2. IsSteps(step, n, V)
  BY <1>1 DEF IsSteps
<1>3. \A i \in 1 .. n : \A x \in V : step[i][x] = x + numbers[i]
  OBVIOUS
<1>4. PICK base : base = 0 /\ base \in V
  OBVIOUS
<1> HIDE DEF n, V, step
<1>5. PICK f : IsRun(f, n, V, base, step)
  BY <1>1, <1>2, <1>4, RunOfSteps
<1>6. /\ f \in [0 .. n -> V] /\ f[0] = 0
      /\ \A i \in 1 .. n : f[i] = step[i][f[i - 1]]
  BY <1>4, <1>5 DEF IsRun
<1>7. \A i \in 0 .. n : f[i] = value(f, i)
  <2> SUFFICES ASSUME NEW i \in 0 .. n PROVE f[i] = value(f, i)
    OBVIOUS
  <2>1. CASE i = 0
    BY <1>6, <2>1
  <2>2. CASE i # 0
    <3>1. i \in 1 .. n /\ f[i - 1] \in V
      BY <1>1, <1>6, <2>2
    <3> QED
      BY <1>3, <1>6, <2>2, <3>1
  <2> QED
    BY <2>1, <2>2
<1>8. f = [i \in 0 .. n |-> value(f, i)]
  BY <1>6, <1>7
<1>9. total = [i \in 0 .. n |-> value(total, i)]
  BY <1>8
<1>10. Total(numbers) = total[n]
  BY DEF Total, n
<1> HIDE DEF total
<1>11. \A i \in 0 .. n : total[i] = value(total, i)
  BY <1>9
<1>12. total[0] = 0 /\ \A i \in 1 .. n : total[i] = total[i - 1] + numbers[i]
  BY <1>1, <1>11
<1>13. \A i \in 0 .. n : total[i] \in V
  <2>1. ASSUME NEW i \in 1 .. n, total[i - 1] \in V PROVE total[i] \in V
    <3>1. PICK x \in Int : x = total[i - 1]
      BY <2>1 DEF V
    <3>2. PICK y \in Int : y = numbers[i]
      BY <1>1
    <3>3. total[i] = x + y
      BY <1>12, <3>1, <3>2
    <3> QED
      BY <3>3 DEF V
  <2>2. total[0] \in V
    BY <1>12 DEF V
  <2> QED
    BY <1>1, <2>1, <2>2, StaysIn
<1>14. IsTotal(total, numbers)
  BY <1>10, <1>12 DEF IsTotal, n
<1> QED
  BY <1>13, <1>14 DEF n, V

\* A sum of whole numbers is one.
LEMMA TotalIsInt ==
  ASSUME NEW numbers \in Seq(Int)
  PROVE  Total(numbers) \in Int
<1>1. PICK total :
        IsTotal(total, numbers) /\ \A i \in 0 .. Len(numbers) : total[i] \in Int
  BY TotalSteps
<1>2. Len(numbers) \in 0 .. Len(numbers)
  BY LenProperties
<1> QED
  BY <1>1, <1>2 DEF IsTotal

\* Products of whole numbers.
LEMMA ProductIsInt ==
  ASSUME NEW a \in Int, NEW b \in Int
  PROVE  a * b \in Int
  OBVIOUS

\* Products of natural numbers.
LEMMA ProductIsNat ==
  ASSUME NEW a \in Nat, NEW b \in Nat
  PROVE  a * b \in Nat
  OBVIOUS

\* A product with a sum.
LEMMA Distributive ==
  ASSUME NEW a \in Int, NEW b \in Int, NEW c \in Int
  PROVE  (a + b) * c = a * c + b * c /\ c * (a + b) = c * a + c * b
  OBVIOUS

\* When each number of a, times p, is at least q times that of b, so are the sums.
LEMMA TotalsScaled ==
  ASSUME NEW a \in Seq(Int), NEW b \in Seq(Int), Len(a) = Len(b),
         NEW p \in Int, NEW q \in Int,
         \A i \in 1 .. Len(a) : a[i] * p >= q * b[i]
  PROVE  Total(a) * p >= q * Total(b)
<1> DEFINE n == Len(a)
<1>1. n \in Nat /\ \A i \in 1 .. n : a[i] \in Int /\ b[i] \in Int
  BY LenProperties, ElementOfSeq
<1>2. PICK f : IsTotal(f, a) /\ \A i \in 0 .. Len(a) : f[i] \in Int
  BY TotalSteps
<1>3. PICK g : IsTotal(g, b) /\ \A i \in 0 .. Len(b) : g[i] \in Int
  BY TotalSteps
<1> DEFINE S == {i \in 0 .. n : f[i] * p >= q * g[i]}
<1>4. 0 \in S
  <2>1. f[0] = 0 /\ g[0] = 0 /\ 0 * p = 0 /\ q * 0 = 0
    BY <1>2, <1>3 DEF IsTotal
  <2> QED
    BY <1>1, <2>1
<1>5. ASSUME NEW i \in 0 .. n - 1, i \in S PROVE i + 1 \in S
  <2>1. i + 1 \in 1 .. n /\ (i + 1) - 1 = i /\ i \in 0 .. n /\ i + 1 \in 0 .. n
    BY <1>1
  <2>2. PICK x, y, u, v \in Int : x = f[i] /\ y = a[i + 1] /\ u = g[i] /\ v = b[i + 1]
    BY <1>1, <1>2, <1>3, <2>1
  <2>3. f[i + 1] = x + y /\ g[i + 1] = u + v
    BY <1>2, <1>3, <2>1, <2>2 DEF IsTotal
  <2>4. x * p >= q * u /\ y * p >= q * v
    BY <1>5, <2>1, <2>2
  <2>5. (x + y) * p = x * p + y * p /\ q * (u + v) = q * u + q * v
    BY Distributive
  <2>6. x * p \in Int /\ y * p \in Int /\ q * u \in Int /\ q * v \in Int
    BY ProductIsInt
  <2>7. (x + y) * p >= q * (u + v)
    BY <2>4, <2>5, <2>6
  <2> QED
    BY <2>1, <2>3, <2>7
<1> HIDE DEF S
<1>6. \A i \in 0 .. n : i \in S
  BY <1>1, <1>4, <1>5, InductionOverInterval
<1>7. n \in S
  BY <1>1, <1>6
<1>8. Total(a) = f[n] /\ Total(b) = g[n]
  BY <1>2, <1>3 DEF IsTotal
<1> QED
  BY <1>7, <1>8 DEF S

-----------------------------------------------------------------------------
(***************************************************************************)
(* The order of sequences: a relation R, a set of pairs, holds of any two  *)
(* elements in their order.                                                *)
(***************************************************************************)
Related(s, R) == \A i, j \in 1 .. Len(s) : i < j => <<s[i], s[j]>> \in R

\* One more element that comes after all others.
LEMMA AppendRelated ==
  ASSUME NEW S, NEW s \in Seq(S), NEW x \in S, NEW R, Related(s, R),
         \A i \in 1 .. Len(s) : <<s[i], x>> \in R
  PROVE  Related(Append(s, x), R)
<1>1. PICK t : t = Append(s, x)
  OBVIOUS
<1>2. /\ Len(s) \in Nat /\ Len(t) = Len(s) + 1
      /\ \A i \in 1 .. Len(s) : t[i] = s[i]
      /\ t[Len(s) + 1] = x
  BY <1>1, AppendElements, LenProperties
<1>3. ASSUME NEW i \in 1 .. Len(t), NEW j \in 1 .. Len(t), i < j
      PROVE  <<t[i], t[j]>> \in R
  <2>1. i \in 1 .. Len(s) /\ t[i] = s[i]
    BY <1>2, <1>3
  <2>2. CASE j \in 1 .. Len(s)
    BY <1>2, <1>3, <2>1, <2>2 DEF Related
  <2>3. CASE j = Len(s) + 1
    BY <1>2, <2>1, <2>3
  <2> QED
    BY <1>2, <2>2, <2>3
<1> QED
  BY <1>1, <1>3 DEF Related

\* Two sequences, one after the other.
LEMMA ConcatRelated ==
  ASSUME NEW S, NEW s \in Seq(S), NEW t \in Seq(S), NEW R, Related(s, R), Related(t, R),
         \A i \in 1 .. Len(s) : \A j \in 1 .. Len(t) : <<s[i], t[j]>> \in R
  PROVE  Related(s \o t, R)
<1>1. PICK u : u = s \o t
  OBVIOUS
<1>2. /\ Len(s) \in Nat /\ Len(t) \in Nat /\ Len(u) = Len(s) + Len(t)
      /\ \A i \in 1 .. Len(s) + Len(t) : u[i] = IF i <= Len(s) THEN s[i] ELSE t[i - Len(s)]
  BY <1>1, ConcatProperties, LenProperties
<1>3. ASSUME NEW i \in 1 .. Len(u), NEW j \in 1 .. Len(u), i < j
      PROVE  <<u[i], u[j]>> \in R
  <2>1. CASE j <= Len(s)
    <3>1. i \in 1 .. Len(s) /\ j \in 1 .. Len(s) /\ u[i] = s[i] /\ u[j] = s[j]
      BY <1>2, <1>3, <2>1
    <3> QED
      BY <1>3, <3>1 DEF Related
  <2>2. CASE i <= Len(s) /\ ~ (j <= Len(s))
    <3>1. /\ i \in 1 .. Len(s) /\ j - Len(s) \in 1 .. Len(t)
          /\ u[i] = s[i] /\ u[j] = t[j - Len(s)]
      BY <1>2, <1>3, <2>2
    <3> QED
      BY <3>1
  <2>3. CASE ~ (i <= Len(s))
    <3>1. /\ i - Len(s) \in 1 .. Len(t) /\ j - Len(s) \in 1 .. Len(t)
          /\ i - Len(s) < j - Len(s)
          /\ u[i] = t[i - Len(s)] /\ u[j] = t[j - Len(s)]
      BY <1>2, <1>3, <2>3
    <3> QED
      BY <3>1 DEF Related
  <2> QED
    BY <1>2, <2>1, <2>2, <2>3
<1> QED
  BY <1>1, <1>3 DEF Related

IsConcat(u, s, t) == u = s \o t

Has(s, x) == \E i \in 1 .. Len(s) : x = s[i]

\* The elements of two sequences, one after the other.
LEMMA ConcatElements ==
  ASSUME NEW S, NEW s \in Seq(S), NEW t \in Seq(S), NEW u, IsConcat(u, s, t)
  PROVE  /\ u \in Seq(S) /\ Len(u) = Len(s) + Len(t)
         /\ Len(s) \in Nat /\ Len(t) \in Nat
         /\ \A i \in 1 .. Len(s) : i \in 1 .. Len(u) /\ u[i] = s[i]
         /\ \A j \in 1 .. Len(t) : Len(s) + j \in 1 .. Len(u) /\ u[Len(s) + j] = t[j]
         /\ \A i \in 1 .. Len(u) : Has(s, u[i]) \/ Has(t, u[i])
<1>1. /\ u \in Seq(S) /\ Len(u) = Len(s) + Len(t)
      /\ \A i \in 1 .. Len(s) + Len(t) : u[i] = IF i <= Len(s) THEN s[i] ELSE t[i - Len(s)]
  BY ConcatProperties DEF IsConcat
<1>2. Len(s) \in Nat /\ Len(t) \in Nat
  BY LenProperties
<1>3. \A i \in 1 .. Len(s) : i \in 1 .. Len(u) /\ u[i] = s[i]
  BY <1>1, <1>2
<1>4. ASSUME NEW j \in 1 .. Len(t) PROVE Len(s) + j \in 1 .. Len(u) /\ u[Len(s) + j] = t[j]
  <2>1. PICK i \in 1 .. Len(s) + Len(t) : i = Len(s) + j /\ ~ (i <= Len(s)) /\ i - Len(s) = j
    BY <1>2
  <2> QED
    BY <1>1, <2>1
<1>5. ASSUME NEW i \in 1 .. Len(u)
      PROVE  Has(s, u[i]) \/ Has(t, u[i])
  <2>1. CASE i <= Len(s)
    BY <1>1, <1>2, <2>1 DEF Has
  <2>2. CASE ~ (i <= Len(s))
    <3>1. i - Len(s) \in 1 .. Len(t) /\ u[i] = t[i - Len(s)]
      BY <1>1, <1>2, <2>2
    <3> QED
      BY <3>1 DEF Has
  <2> QED
    BY <2>1, <2>2
<1> QED
  BY <1>1, <1>2, <1>3, <1>4, <1>5

KeptFrom(k, seq, K) == k = Kept(seq, K)

\* The elements of seq that are in K, still in the order R.
IsSelection(k, seq, S, K, R) ==
  /\ k \in Seq(S) /\ Related(k, R)
  /\ \A i \in 1 .. Len(k) : k[i] \in K /\ \E l \in 1 .. Len(seq) : k[i] = seq[l]
  /\ \A l \in 1 .. Len(seq) : seq[l] \in K => \E i \in 1 .. Len(k) : k[i] = seq[l]

\* Kept keeps the order, and has just the elements of the sequence that are in
\* the set.
LEMMA KeptRelated ==
  ASSUME NEW S, NEW seq \in Seq(S), NEW K, NEW R, Related(seq, R),
         NEW k, KeptFrom(k, seq, K)
  PROVE  IsSelection(k, seq, S, K, R)
<1>2. PICK kept : IsKept(kept, seq, K)
  BY KeptSteps
<1> DEFINE n == Len(seq)
<1>1. n \in Nat /\ \A i \in 1 .. n : seq[i] \in S
  BY LenProperties, ElementOfSeq
<1> DEFINE Made(s, m) ==
             /\ s \in Seq(S)
             /\ Related(s, R)
             /\ \A i \in 1 .. Len(s) : s[i] \in K /\ \E l \in 1 .. m : s[i] = seq[l]
             /\ \A l \in 1 .. m : seq[l] \in K => \E i \in 1 .. Len(s) : s[i] = seq[l]
           Q == {i \in 0 .. n : Made(kept[i], i)}
<1>3. 0 \in Q
  <2>1. kept[0] = <<>> /\ <<>> \in Seq(S) /\ Len(<<>>) = 0
    BY <1>2, EmptySeq DEF IsKept
  <2>2. PICK s : s = kept[0]
    OBVIOUS
  <2>3. s \in Seq(S) /\ Len(s) = 0 /\ 1 .. Len(s) = {} /\ 1 .. 0 = {}
    BY <2>1, <2>2
  <2>4. Made(s, 0)
    BY <2>3 DEF Related
  <2> HIDE DEF Made
  <2> QED
    BY <1>1, <2>2, <2>4
<1>4. ASSUME NEW m \in 0 .. n - 1, m \in Q PROVE m + 1 \in Q
  <2>1. /\ m + 1 \in 1 .. n /\ (m + 1) - 1 = m /\ m + 1 \in 0 .. n /\ m \in Nat
        /\ 1 .. m \subseteq 1 .. m + 1 /\ m + 1 \in 1 .. m + 1
        /\ \A l \in 1 .. m + 1 : l \in 1 .. m \/ l = m + 1
    BY <1>1
  <2>2. Made(kept[m], m)
    BY <1>4
  <2>3. CASE seq[m + 1] \notin K
    <3>1. kept[m + 1] = kept[m]
      BY <1>2, <2>1, <2>3 DEF IsKept
    <3>2. PICK s : s = kept[m]
      OBVIOUS
    <3>3. Made(s, m + 1)
      BY <2>1, <2>2, <2>3, <3>2
    <3> HIDE DEF Made
    <3> QED
      BY <2>1, <3>1, <3>2, <3>3
  <2>4. CASE seq[m + 1] \in K
    <3>1. PICK s : s = kept[m]
      OBVIOUS
    <3>2. PICK x \in S : x = seq[m + 1]
      BY <1>1, <2>1
    <3>3. PICK t : t = Append(s, x)
      OBVIOUS
    <3>4. kept[m + 1] = t
      BY <1>2, <2>1, <2>4, <3>1, <3>2, <3>3 DEF IsKept
    <3>5. Made(s, m)
      BY <2>2, <3>1
    <3>6. /\ t \in Seq(S) /\ Len(t) = Len(s) + 1 /\ Len(s) \in Nat
          /\ \A i \in 1 .. Len(s) : t[i] = s[i]
          /\ t[Len(s) + 1] = x
      BY <3>3, <3>5, AppendElements, LenProperties
    <3>7. \A i \in 1 .. Len(s) : <<s[i], x>> \in R
      <4> SUFFICES ASSUME NEW i \in 1 .. Len(s) PROVE <<s[i], x>> \in R
        OBVIOUS
      <4>1. PICK l \in 1 .. m : s[i] = seq[l]
        BY <3>5
      <4>2. l \in 1 .. n /\ l < m + 1
        BY <1>1, <2>1
      <4> QED
        BY <2>1, <3>2, <4>1, <4>2 DEF Related
    <3>8. Related(t, R)
      BY <3>3, <3>5, <3>7, AppendRelated
    <3>9. ASSUME NEW i \in 1 .. Len(t) PROVE t[i] \in K /\ \E l \in 1 .. m + 1 : t[i] = seq[l]
      <4>1. CASE i \in 1 .. Len(s)
        BY <2>1, <3>5, <3>6, <4>1
      <4>2. CASE i = Len(s) + 1
        BY <2>1, <2>4, <3>2, <3>6, <4>2
      <4> QED
        BY <3>6, <4>1, <4>2
    <3>10. ASSUME NEW l \in 1 .. m + 1, seq[l] \in K
           PROVE  \E i \in 1 .. Len(t) : t[i] = seq[l]
      <4>1. CASE l \in 1 .. m
        <5>1. PICK i \in 1 .. Len(s) : s[i] = seq[l]
          BY <3>5, <3>10, <4>1
        <5> QED
          BY <3>6, <5>1
      <4>2. CASE l = m + 1
        <5>1. Len(s) + 1 \in 1 .. Len(t)
          BY <3>6
        <5> QED
          BY <3>2, <3>6, <4>2, <5>1
      <4> QED
        BY <2>1, <4>1, <4>2
    <3>11. Made(t, m + 1)
      BY <3>6, <3>8, <3>9, <3>10
    <3> HIDE DEF Made
    <3> QED
      BY <2>1, <3>4, <3>11
  <2> QED
    BY <2>3, <2>4
<1> HIDE DEF Q
<1>5. \A i \in 0 .. n : i \in Q
  BY <1>1, <1>3, <1>4, InductionOverInterval
<1>6. Made(kept[n], n)
  BY <1>1, <1>5 DEF Q
<1>7. k = kept[n]
  BY <1>2 DEF IsKept, KeptFrom
<1> QED
  BY <1>6, <1>7 DEF IsSelection

\* Kept of a set that has, with an element, all that come before it, is the
\* beginning of the sequence.
LEMMA KeptPrefix ==
  ASSUME NEW S, NEW seq \in Seq(S), NEW K,
         \A i, j \in 1 .. Len(seq) : i < j /\ seq[j] \in K => seq[i] \in K,
         NEW k, k = Kept(seq, K)
  PROVE  /\ k \in Seq(S) /\ Len(k) \in 0 .. Len(seq)
         /\ \A i \in 1 .. Len(k) : k[i] = seq[i] /\ seq[i] \in K
         /\ \A i \in 1 .. Len(seq) : i > Len(k) => seq[i] \notin K
<1>2. PICK kept : IsKept(kept, seq, K)
  BY KeptSteps
<1> DEFINE n == Len(seq)
<1>1. n \in Nat /\ \A i \in 1 .. n : seq[i] \in S
  BY LenProperties, ElementOfSeq
<1> DEFINE Made(s, m) ==
             /\ s \in Seq(S) /\ Len(s) \in 0 .. m
             /\ \A i \in 1 .. Len(s) : s[i] = seq[i] /\ seq[i] \in K
             /\ \A i \in 1 .. m : i > Len(s) => seq[i] \notin K
           Q == {i \in 0 .. n : Made(kept[i], i)}
<1>3. 0 \in Q
  <2>1. kept[0] = <<>> /\ <<>> \in Seq(S) /\ Len(<<>>) = 0
    BY <1>2, EmptySeq DEF IsKept
  <2>2. PICK s : s = kept[0]
    OBVIOUS
  <2>3. s \in Seq(S) /\ Len(s) = 0 /\ 1 .. Len(s) = {} /\ 1 .. 0 = {}
    BY <2>1, <2>2
  <2>4. Made(s, 0)
    BY <2>3
  <2> HIDE DEF Made
  <2> QED
    BY <1>1, <2>2, <2>4
<1>4. ASSUME NEW m \in 0 .. n - 1, m \in Q PROVE m + 1 \in Q
  <2>1. /\ m + 1 \in 1 .. n /\ (m + 1) - 1 = m /\ m + 1 \in 0 .. n /\ m \in Nat
        /\ \A l \in 1 .. m + 1 : l \in 1 .. m \/ l = m + 1
    BY <1>1
  <2>2. PICK s : s = kept[m]
    OBVIOUS
  <2>3. Made(s, m)
    BY <1>4, <2>2
  <2>4. CASE seq[m + 1] \notin K
    <3>1. kept[m + 1] = s
      BY <1>2, <2>1, <2>2, <2>4 DEF IsKept
    <3>2. Made(s, m + 1)
      BY <2>1, <2>3, <2>4
    <3> HIDE DEF Made
    <3> QED
      BY <2>1, <3>1, <3>2
  <2>5. CASE seq[m + 1] \in K
    <3>1. Len(s) = m
      <4> SUFFICES ASSUME Len(s) # m PROVE FALSE
        OBVIOUS
      <4>1. m \in 1 .. m /\ m > Len(s) /\ m \in 1 .. n /\ m < m + 1
        BY <2>1, <2>3
      <4>2. seq[m] \notin K
        BY <2>3, <4>1
      <4> QED
        BY <2>1, <2>5, <4>1, <4>2
    <3>2. PICK x \in S : x = seq[m + 1]
      BY <1>1, <2>1
    <3>3. PICK t : t = Append(s, x)
      OBVIOUS
    <3>4. kept[m + 1] = t
      BY <1>2, <2>1, <2>2, <2>5, <3>2, <3>3 DEF IsKept
    <3>5. /\ t \in Seq(S) /\ Len(t) = m + 1
          /\ \A i \in 1 .. m : t[i] = s[i]
          /\ t[m + 1] = x
      BY <2>3, <3>1, <3>3, AppendElements
    <3>6. Made(t, m + 1)
      BY <2>1, <2>3, <2>5, <3>1, <3>2, <3>5
    <3> HIDE DEF Made
    <3> QED
      BY <2>1, <3>4, <3>6
  <2> QED
    BY <2>4, <2>5
<1> HIDE DEF Q
<1>5. \A i \in 0 .. n : i \in Q
  BY <1>1, <1>3, <1>4, InductionOverInterval
<1>6. Made(kept[n], n)
  BY <1>1, <1>5 DEF Q
<1>7. k = kept[n]
  BY <1>2 DEF IsKept
<1> QED
  BY <1>6, <1>7

\* Without its first element, when all others are in the set.
LEMMA KeptButFirst ==
  ASSUME NEW S, NEW seq \in Seq(S), seq # <<>>, NEW K, seq[1] \notin K,
         \A i \in 2 .. Len(seq) : seq[i] \in K,
         NEW k, KeptFrom(k, seq, K)
  PROVE  /\ k \in Seq(S) /\ Len(k) = Len(seq) - 1
         /\ \A i \in 1 .. Len(k) : k[i] = seq[i + 1]
<1>1. PICK n \in Nat : n = Len(seq) /\ n > 0
  BY LenProperties, EmptySeq
<1>2. \A i \in 1 .. n : seq[i] \in S
  BY <1>1, ElementOfSeq
<1>3. PICK kept : IsKept(kept, seq, K)
  BY KeptSteps
<1> DEFINE Made(s, m) ==
             s \in Seq(S) /\ Len(s) = m - 1 /\ \A i \in 1 .. m - 1 : s[i] = seq[i + 1]
           M == {m \in 0 .. n : m > 0 => Made(kept[m], m)}
<1>4. 0 \in M
  BY <1>1
<1>5. ASSUME NEW m \in 0 .. n - 1, m \in M PROVE m + 1 \in M
  <2>1. PICK l \in 1 .. n : l = m + 1
    BY <1>1
  <2>2. CASE m = 0
    <3>1. l = 1 /\ l - 1 = 0
      BY <2>1, <2>2
    <3>2. kept[l] = kept[l - 1] /\ kept[0] = <<>>
      BY <1>1, <1>3, <2>1, <3>1 DEF IsKept
    <3>3. kept[l] \in Seq(S) /\ Len(kept[l]) = 0
      BY <3>1, <3>2, EmptySeq
    <3> QED
      BY <2>1, <3>1, <3>3
  <2>3. CASE m > 0
    <3>1. Made(kept[m], m) /\ l - 1 = m /\ l \in 2 .. n
      BY <1>5, <2>1, <2>3
    <3>2. PICK s \in Seq(S) : s = kept[m]
      BY <3>1
    <3>3. kept[l] = Append(s, seq[l])
      BY <1>1, <1>3, <3>1, <3>2 DEF IsKept
    <3>4. PICK t : t = Append(s, seq[l])
      OBVIOUS
    <3>5. /\ t \in Seq(S) /\ Len(t) = Len(s) + 1 /\ t[Len(s) + 1] = seq[l]
          /\ \A i \in 1 .. Len(s) : t[i] = s[i]
      BY <1>2, <3>4, AppendProperties
    <3>6. Len(s) = m - 1 /\ \A i \in 1 .. m - 1 : s[i] = seq[i + 1]
      BY <3>1, <3>2
    <3>7. Made(t, l)
      <4>1. Len(t) = l - 1
        BY <3>1, <3>5, <3>6
      <4>2. ASSUME NEW i \in 1 .. l - 1 PROVE t[i] = seq[i + 1]
        <5>1. CASE i = m
          BY <3>1, <3>5, <3>6, <5>1
        <5>2. CASE i # m
          BY <3>1, <3>5, <3>6, <5>2
        <5> QED
          BY <5>1, <5>2
      <4> QED
        BY <3>5, <4>1, <4>2
    <3>8. kept[l] = t
      BY <3>3, <3>4
    <3>9. l \in 0 .. n /\ Made(kept[l], l)
      BY <3>7, <3>8
    <3>10. l \in M
      BY <3>9
    <3> QED
      BY <2>1, <3>10
  <2> QED
    BY <1>1, <2>2, <2>3
<1> HIDE DEF M
<1>6. \A m \in 0 .. n : m \in M
  BY <1>1, <1>4, <1>5, InductionOverInterval
<1>7. Made(kept[n], n)
  BY <1>1, <1>6 DEF M
<1>8. k = kept[n]
  BY <1>1, <1>3 DEF KeptFrom, IsKept
<1> QED
  BY <1>1, <1>7, <1>8

\* A function on 0 .. N that starts with base and grows by a[i] at i.
Sums(f, a, N) ==
  /\ f \in [0 .. N -> Int]
  /\ f[0] = 0
  /\ \A i \in 1 .. N : f[i] = f[i - 1] + a[i]

\* The sums of numbers.
LEMMA SumsOf ==
  ASSUME NEW a \in Seq(Int)
  PROVE  \E f : Sums(f, a, Len(a))
<1>1. PICK total : IsTotal(total, a) /\ \A i \in 0 .. Len(a) : total[i] \in Int
  BY TotalSteps
<1>2. PICK f : f = [i \in 0 .. Len(a) |-> total[i]]
  OBVIOUS
<1>3. Len(a) \in Nat
  BY LenProperties
<1>4. f \in [0 .. Len(a) -> Int] /\ \A i \in 0 .. Len(a) : f[i] = total[i]
  BY <1>1, <1>2
<1>5. \A i \in 1 .. Len(a) : i \in 0 .. Len(a) /\ i - 1 \in 0 .. Len(a)
  BY <1>3
<1>6. 0 \in 0 .. Len(a)
  BY <1>3
<1> QED
  BY <1>1, <1>4, <1>5, <1>6 DEF IsTotal, Sums

\* The sum of the first numbers is one of the sums.
LEMMA TotalOfFirst ==
  ASSUME NEW N \in Nat, NEW a, NEW f, Sums(f, a, N),
         NEW b \in Seq(Int), Len(b) <= N, \A i \in 1 .. Len(b) : b[i] = a[i]
  PROVE  Total(b) = f[Len(b)] /\ f[Len(b)] \in Int
<1> DEFINE n == Len(b)
<1>1. n \in Nat /\ n <= N
  BY LenProperties
<1>2. PICK g : IsTotal(g, b)
  BY TotalSteps
<1> DEFINE Q == {i \in 0 .. n : g[i] = f[i]}
<1>3. 0 \in Q
  BY <1>1, <1>2 DEF IsTotal, Sums
<1>4. ASSUME NEW i \in 0 .. n - 1, i \in Q PROVE i + 1 \in Q
  <2>1. i + 1 \in 1 .. n /\ i + 1 \in 1 .. N /\ (i + 1) - 1 = i /\ i + 1 \in 0 .. n
    BY <1>1
  <2>2. g[i + 1] = g[i] + b[i + 1]
    BY <1>2, <2>1 DEF IsTotal
  <2>3. f[i + 1] = f[i] + a[i + 1]
    BY <2>1 DEF Sums
  <2>4. b[i + 1] = a[i + 1] /\ g[i] = f[i]
    BY <1>4, <2>1
  <2> QED
    BY <2>1, <2>2, <2>3, <2>4
<1> HIDE DEF Q
<1>5. \A i \in 0 .. n : i \in Q
  BY <1>1, <1>3, <1>4, InductionOverInterval
<1>6. g[n] = f[n]
  BY <1>1, <1>5 DEF Q
<1>7. n \in 0 .. N
  BY <1>1
<1> QED
  BY <1>2, <1>6, <1>7 DEF IsTotal, Sums

\* Sums of natural numbers do not decrease.
LEMMA SumsIncrease ==
  ASSUME NEW N \in Nat, NEW a, NEW f, Sums(f, a, N), \A i \in 1 .. N : a[i] \in Nat,
         NEW i \in 0 .. N, NEW j \in 0 .. N, i <= j
  PROVE  f[i] <= f[j] /\ f[i] \in Nat
<1> DEFINE above(l) == {m \in 0 .. N : m >= l => f[l] <= f[m] /\ f[m] \in Int}
<1>1. \A l \in 0 .. N : f[l] \in Int
  BY DEF Sums
<1>2. ASSUME NEW l \in 0 .. N PROVE \A m \in 0 .. N : m \in above(l)
  <2>1. 0 \in above(l)
    BY <1>1, <1>2
  <2>2. ASSUME NEW m \in 0 .. N - 1, m \in above(l) PROVE m + 1 \in above(l)
    <3>1. m + 1 \in 1 .. N /\ (m + 1) - 1 = m /\ m + 1 \in 0 .. N /\ m \in 0 .. N
      OBVIOUS
    <3>2. f[m + 1] = f[m] + a[m + 1]
      BY <3>1 DEF Sums
    <3>3. a[m + 1] \in Nat
      BY <3>1
    <3>4. CASE m + 1 = l
      BY <1>1, <1>2, <3>1, <3>4
    <3>5. CASE m + 1 > l
      <4>1. f[l] <= f[m] /\ f[m] \in Int /\ f[l] \in Int
        BY <1>1, <2>2, <3>1, <3>5
      <4> QED
        BY <3>1, <3>2, <3>3, <4>1
    <3>6. CASE m + 1 < l
      BY <3>1, <3>6
    <3> QED
      BY <3>4, <3>5, <3>6
  <2> HIDE DEF above
  <2> QED
    BY <2>1, <2>2, InductionOverInterval
<1>3. f[i] <= f[j]
  BY <1>2
<1>4. f[0] <= f[i] /\ f[0] = 0 /\ f[i] \in Int
  <2>1. 0 \in 0 .. N /\ i >= 0
    OBVIOUS
  <2>2. i \in above(0)
    BY <1>2, <2>1
  <2> QED
    BY <2>1, <2>2 DEF Sums
<1> QED
  BY <1>3, <1>4

\* A set of positive numbers that has, with a number, all smaller ones is 1 .. h.
LEMMA InitialSegment ==
  ASSUME NEW n \in Nat, NEW H \in SUBSET (1 .. n),
         \A i \in 1 .. n : \A j \in H : i < j => i \in H
  PROVE  Cardinality(H) \in 0 .. n /\ H = 1 .. Cardinality(H)
<1> DEFINE Q == {m \in 0 .. n : \E h \in 0 .. m : H \cap (1 .. m) = 1 .. h}
<1>1. 0 \in Q
  OBVIOUS
<1>2. ASSUME NEW m \in 0 .. n - 1, m \in Q PROVE m + 1 \in Q
  <2>1. PICK h \in 0 .. m : H \cap (1 .. m) = 1 .. h
    BY <1>2
  <2>2. m + 1 \in 0 .. n /\ m \in 0 .. n /\ m + 1 \in 1 .. n
    OBVIOUS
  <2>3. CASE m + 1 \notin H
    <3>1. H \cap (1 .. m + 1) = 1 .. h /\ h \in 0 .. m + 1
      BY <2>1, <2>3
    <3> QED
      BY <2>2, <3>1
  <2>4. CASE m + 1 \in H
    <3>1. \A i \in 1 .. m + 1 : i \in H
      BY <2>2, <2>4
    <3>2. H \cap (1 .. m + 1) = 1 .. m + 1
      BY <3>1
    <3>3. m + 1 \in 0 .. m + 1
      BY <2>2
    <3> QED
      BY <2>2, <3>2, <3>3
  <2> QED
    BY <2>3, <2>4
<1> HIDE DEF Q
<1>3. \A m \in 0 .. n : m \in Q
  BY <1>1, <1>2, InductionOverInterval
<1>4. n \in Q
  BY <1>3
<1>5. PICK h \in 0 .. n : H \cap (1 .. n) = 1 .. h
  BY <1>4 DEF Q
<1>6. H = 1 .. h
  BY <1>5
<1>7. Cardinality(H) = h
  BY <1>6, NumbersTo
<1> QED
  BY <1>6, <1>7

\* An element between two sequences.
LEMMA Inserted ==
  ASSUME NEW S, NEW a \in Seq(S), NEW b \in Seq(S), NEW x \in S, NEW R,
         Related(a, R), Related(b, R),
         \A i \in 1 .. Len(a) : <<a[i], x>> \in R,
         \A j \in 1 .. Len(b) : <<x, b[j]>> \in R,
         \A i \in 1 .. Len(a) : \A j \in 1 .. Len(b) : <<a[i], b[j]>> \in R
  PROVE  \E t : /\ t = a \o <<x>> \o b
                /\ t \in Seq(S) /\ Related(t, R)
                /\ \A i \in 1 .. Len(t) : t[i] = x \/ Has(a, t[i]) \/ Has(b, t[i])
                /\ \A l \in 1 .. Len(a) : Has(t, a[l])
                /\ \A l \in 1 .. Len(b) : Has(t, b[l])
                /\ Has(t, x)
<1>1. PICK one : one = <<x>>
  OBVIOUS
<1>2. one \in Seq(S) /\ Len(one) = 1 /\ one[1] = x /\ 1 \in 1 .. Len(one)
  BY <1>1
<1>3. PICK c : IsConcat(c, a, one)
  BY DEF IsConcat
<1>4. /\ c \in Seq(S)
      /\ \A i \in 1 .. Len(a) : i \in 1 .. Len(c) /\ c[i] = a[i]
      /\ \A j \in 1 .. Len(one) : Len(a) + j \in 1 .. Len(c) /\ c[Len(a) + j] = one[j]
      /\ \A i \in 1 .. Len(c) : Has(a, c[i]) \/ Has(one, c[i])
  BY <1>2, <1>3, ConcatElements
<1>5. Related(c, R)
  <2>1. Related(one, R)
    BY <1>2 DEF Related
  <2>2. \A i \in 1 .. Len(a) : \A j \in 1 .. Len(one) : <<a[i], one[j]>> \in R
    BY <1>2
  <2> QED
    BY <1>2, <1>3, <2>1, <2>2, ConcatRelated DEF IsConcat
<1>6. PICK t : IsConcat(t, c, b)
  BY DEF IsConcat
<1>7. /\ t \in Seq(S)
      /\ \A i \in 1 .. Len(c) : i \in 1 .. Len(t) /\ t[i] = c[i]
      /\ \A j \in 1 .. Len(b) : Len(c) + j \in 1 .. Len(t) /\ t[Len(c) + j] = b[j]
      /\ \A i \in 1 .. Len(t) : Has(c, t[i]) \/ Has(b, t[i])
  BY <1>4, <1>6, ConcatElements
<1>8. \A i \in 1 .. Len(c) : c[i] = x \/ Has(a, c[i])
  BY <1>2, <1>4 DEF Has
<1>9. Related(t, R)
  <2>1. \A i \in 1 .. Len(c) : \A j \in 1 .. Len(b) : <<c[i], b[j]>> \in R
    BY <1>8 DEF Has
  <2> QED
    BY <1>4, <1>5, <1>6, <2>1, ConcatRelated DEF IsConcat
<1>10. Has(t, x)
  <2>1. PICK i \in 1 .. Len(c) : c[i] = x
    BY <1>2, <1>4
  <2>2. i \in 1 .. Len(t) /\ t[i] = c[i]
    BY <1>7
  <2> QED
    BY <2>1, <2>2 DEF Has
<1>11. \A l \in 1 .. Len(a) : Has(t, a[l])
  BY <1>4, <1>7 DEF Has
<1>12. \A l \in 1 .. Len(b) : Has(t, b[l])
  BY <1>7 DEF Has
<1>13. ASSUME NEW i \in 1 .. Len(t)
       PROVE  t[i] = x \/ Has(a, t[i]) \/ Has(b, t[i])
  <2>1. CASE Has(c, t[i])
    <3>1. PICK k \in 1 .. Len(c) : t[i] = c[k]
      BY <2>1 DEF Has
    <3>2. c[k] = x \/ Has(a, c[k])
      BY <1>8
    <3> QED
      BY <3>1, <3>2
  <2>2. CASE Has(b, t[i])
    BY <2>2
  <2> QED
    BY <1>7, <2>1, <2>2
<1>14. t = a \o <<x>> \o b
  BY <1>1, <1>3, <1>6 DEF IsConcat
<1> QED
  BY <1>7, <1>9, <1>10, <1>11, <1>12, <1>13, <1>14

-----------------------------------------------------------------------------
(***************************************************************************)
(* Sums of sums.                                                           *)
(***************************************************************************)

\* The sum of a sequence whose sums are known.
LEMMA TotalBySums ==
  ASSUME NEW a \in Seq(Int), NEW f, Sums(f, a, Len(a))
  PROVE  Total(a) = f[Len(a)] /\ f[Len(a)] \in Int
<1>1. Len(a) \in Nat /\ Len(a) <= Len(a)
  BY LenProperties
<1> QED
  BY <1>1, TotalOfFirst

\* Element by element.
LEMMA TotalsAdd ==
  ASSUME NEW a \in Seq(Int), NEW b \in Seq(Int), NEW c \in Seq(Int),
         Len(a) = Len(c), Len(b) = Len(c),
         \A i \in 1 .. Len(c) : c[i] = a[i] + b[i]
  PROVE  Total(c) = Total(a) + Total(b)
<1>1. PICK n \in Nat : n = Len(c)
  BY LenProperties
<1>2. PICK f : Sums(f, a, n)
  BY <1>1, SumsOf
<1>3. PICK g : Sums(g, b, n)
  BY <1>1, SumsOf
<1>4. PICK h : h = [i \in 0 .. n |-> f[i] + g[i]]
  OBVIOUS
<1>5. \A i \in 0 .. n : f[i] \in Int /\ g[i] \in Int /\ h[i] = f[i] + g[i]
  BY <1>2, <1>3, <1>4 DEF Sums
<1>6. h \in [0 .. n -> Int]
  BY <1>4, <1>5
<1>7. ASSUME NEW i \in 1 .. n PROVE h[i] = h[i - 1] + c[i]
  <2>1. i \in 0 .. n /\ i - 1 \in 0 .. n
    BY <1>7
  <2>2. PICK x \in Int : x = a[i]
    BY <1>1, ElementOfSeq
  <2>3. PICK y \in Int : y = b[i]
    BY <1>1, ElementOfSeq
  <2>4. PICK u \in Int : u = f[i - 1]
    BY <1>5, <2>1
  <2>5. PICK v \in Int : v = g[i - 1]
    BY <1>5, <2>1
  <2>6. f[i] = u + x
    BY <1>2, <2>2, <2>4 DEF Sums
  <2>7. g[i] = v + y
    BY <1>3, <2>3, <2>5 DEF Sums
  <2>8. c[i] = x + y
    BY <1>1, <2>2, <2>3
  <2>9. h[i] = (u + x) + (v + y)
    BY <1>5, <2>1, <2>6, <2>7
  <2>10. h[i - 1] = u + v
    BY <1>5, <2>1, <2>4, <2>5
  <2> QED
    BY <2>8, <2>9, <2>10
<1>8. h[0] = 0
  BY <1>2, <1>3, <1>4 DEF Sums
<1>9. Sums(h, c, n)
  BY <1>6, <1>7, <1>8 DEF Sums
<1>10. Total(a) = f[n] /\ Total(b) = g[n] /\ Total(c) = h[n]
  BY <1>1, <1>2, <1>3, <1>9, TotalBySums
<1>11. n \in 0 .. n
  BY <1>1
<1> QED
  BY <1>5, <1>10, <1>11

\* All but one are 0.
LEMMA TotalOfOne ==
  ASSUME NEW a \in Seq(Int), NEW l \in 1 .. Len(a),
         \A i \in 1 .. Len(a) : i # l => a[i] = 0
  PROVE  Total(a) = a[l]
<1>1. PICK n \in Nat : n = Len(a)
  BY LenProperties
<1>2. PICK x \in Int : x = a[l]
  BY ElementOfSeq
<1>3. PICK h : h = [i \in 0 .. n |-> IF i < l THEN 0 ELSE x]
  OBVIOUS
<1>4. h \in [0 .. n -> Int]
  BY <1>3
<1>5. h[0] = 0 /\ h[n] = x
  BY <1>1, <1>3
<1>6. ASSUME NEW i \in 1 .. n PROVE h[i] = h[i - 1] + a[i]
  <2>1. i \in 0 .. n /\ i - 1 \in 0 .. n /\ i \in Int /\ l \in Int
    BY <1>1
  <2>2. CASE i < l
    <3>1. h[i] = 0 /\ h[i - 1] = 0 /\ a[i] = 0
      BY <1>1, <1>3, <2>1, <2>2
    <3> QED
      BY <3>1
  <2>3. CASE i = l
    <3>1. h[i] = x /\ h[i - 1] = 0 /\ a[i] = x
      BY <1>2, <1>3, <2>1, <2>3
    <3> QED
      BY <3>1
  <2>4. CASE i > l
    <3>1. h[i] = x /\ h[i - 1] = x /\ a[i] = 0
      BY <1>1, <1>3, <2>1, <2>4
    <3> QED
      BY <3>1
  <2> QED
    BY <2>1, <2>2, <2>3, <2>4
<1>7. Sums(h, a, n)
  BY <1>4, <1>5, <1>6 DEF Sums
<1>8. Total(a) = h[n]
  BY <1>1, <1>7, TotalBySums
<1> QED
  BY <1>2, <1>5, <1>8

\* Sums do not change where 0 is added.
LEMMA TotalOfPadded ==
  ASSUME NEW a \in Seq(Int), NEW b \in Seq(Int), Len(b) <= Len(a),
         \A i \in 1 .. Len(b) : b[i] = a[i],
         \A i \in 1 .. Len(a) : i > Len(b) => a[i] = 0
  PROVE  Total(a) = Total(b)
<1>1. PICK n \in Nat : n = Len(a)
  BY LenProperties
<1>2. PICK m \in Nat : m = Len(b) /\ m <= n
  BY <1>1, LenProperties
<1>3. PICK f : Sums(f, a, n)
  BY <1>1, SumsOf
<1>4. Total(a) = f[n]
  BY <1>1, <1>3, TotalBySums
<1>5. Total(b) = f[m]
  BY <1>2, <1>3, TotalOfFirst
<1> DEFINE Q == {i \in 0 .. n : i >= m => f[i] = f[m]}
<1>6. 0 \in Q
  BY <1>2
<1>7. ASSUME NEW i \in 0 .. n - 1, i \in Q PROVE i + 1 \in Q
  <2>1. i + 1 \in 1 .. n /\ i + 1 \in 0 .. n /\ (i + 1) - 1 = i
    BY <1>1
  <2>2. f[i + 1] = f[i] + a[i + 1] /\ f[i] \in Int
    BY <1>3, <2>1 DEF Sums
  <2>3. CASE i >= m
    <3>1. a[i + 1] = 0
      BY <1>1, <1>2, <2>1, <2>3
    <3> QED
      BY <1>7, <2>1, <2>2, <2>3, <3>1
  <2>4. CASE i < m
    BY <1>2, <2>1, <2>4
  <2> QED
    BY <1>2, <2>3, <2>4
<1> HIDE DEF Q
<1>8. \A i \in 0 .. n : i \in Q
  BY <1>6, <1>7, InductionOverInterval
<1>9. f[n] = f[m]
  BY <1>2, <1>8 DEF Q
<1> QED
  BY <1>4, <1>5, <1>9

\* One sequence after the other.
LEMMA TotalOfConcat ==
  ASSUME NEW a \in Seq(Int), NEW b \in Seq(Int), NEW c \in Seq(Int),
         Len(c) = Len(a) + Len(b),
         \A i \in 1 .. Len(a) : c[i] = a[i],
         \A j \in 1 .. Len(b) : c[Len(a) + j] = b[j]
  PROVE  Total(c) = Total(a) + Total(b)
<1>1. PICK n \in Nat : n = Len(a)
  BY LenProperties
<1>2. PICK m \in Nat : m = Len(b)
  BY LenProperties
<1>3. PICK f : Sums(f, c, n + m)
  BY <1>1, <1>2, SumsOf
<1>4. PICK g : Sums(g, b, m)
  BY <1>2, SumsOf
<1>5. Total(c) = f[n + m]
  BY <1>1, <1>2, <1>3, TotalBySums
<1>6. Total(b) = g[m]
  BY <1>2, <1>4, TotalBySums
<1>7. Total(a) = f[n] /\ f[n] \in Int
  <2>1. PICK N \in Nat : N = n + m /\ n <= N
    BY <1>1, <1>2
  <2>2. Sums(f, c, N) /\ Len(a) <= N
    BY <1>1, <1>3, <2>1
  <2>3. \A i \in 1 .. Len(a) : a[i] = c[i]
    OBVIOUS
  <2>4. Total(a) = f[Len(a)] /\ f[Len(a)] \in Int
    BY <2>2, <2>3, TotalOfFirst
  <2> QED
    BY <1>1, <2>4
<1> DEFINE Q == {j \in 0 .. m : f[n + j] = f[n] + g[j]}
<1>8. 0 \in Q
  BY <1>4, <1>7 DEF Sums
<1>9. ASSUME NEW j \in 0 .. m - 1, j \in Q PROVE j + 1 \in Q
  <2>1. /\ j + 1 \in 1 .. m /\ j + 1 \in 0 .. m /\ (j + 1) - 1 = j /\ j \in 0 .. m
        /\ n + (j + 1) \in 1 .. n + m /\ (n + (j + 1)) - 1 = n + j
    BY <1>9
  <2>2. PICK k \in 1 .. n + m : k = n + (j + 1) /\ k - 1 = n + j
    BY <2>1
  <2>3. f[k] = f[k - 1] + c[k]
    BY <1>3 DEF Sums
  <2>4. g[j + 1] = g[j] + b[j + 1]
    BY <1>4, <2>1 DEF Sums
  <2>5. c[k] = b[j + 1] /\ b[j + 1] \in Int
    <3>1. b[j + 1] \in Int
      BY <1>2, <2>1, ElementOfSeq
    <3> QED
      BY <1>1, <1>2, <2>1, <2>2, <3>1
  <2>6. f[n + j] = f[n] + g[j] /\ g[j] \in Int
    BY <1>4, <1>9, <2>1 DEF Sums
  <2>7. f[n + (j + 1)] = f[n] + g[j + 1]
    <3>1. PICK p \in Int : p = f[n]
      BY <1>7
    <3>2. PICK q \in Int : q = g[j]
      BY <2>6
    <3>3. PICK r \in Int : r = b[j + 1]
      BY <2>5
    <3>4. f[k - 1] = p + q
      BY <2>2, <2>6, <3>1, <3>2
    <3>5. f[k] = (p + q) + r
      BY <2>3, <2>5, <3>3, <3>4
    <3>6. g[j + 1] = q + r
      BY <2>4, <3>2, <3>3
    <3>7. (p + q) + r = p + (q + r)
      OBVIOUS
    <3> QED
      BY <2>2, <3>1, <3>5, <3>6, <3>7
  <2> QED
    BY <2>1, <2>7
<1> HIDE DEF Q
<1>10. \A j \in 0 .. m : j \in Q
  BY <1>8, <1>9, InductionOverInterval
<1>11. f[n + m] = f[n] + g[m]
  <2>1. m \in 0 .. m
    BY <1>2
  <2> QED
    BY <1>10, <2>1 DEF Q
<1> QED
  BY <1>5, <1>6, <1>7, <1>11

-----------------------------------------------------------------------------
(***************************************************************************)
(* Changes of a sequence, and multiples of sums.                           *)
(***************************************************************************)

\* A sequence after one more element.
LEMMA HeadAndTail ==
  ASSUME NEW S, NEW r \in S, NEW s \in Seq(S), NEW t, t = <<r>> \o s
  PROVE  t \in Seq(S) /\ t # <<>> /\ Head(t) = r /\ Tail(t) = s
<1>1. <<r>> \in Seq(S)
  OBVIOUS
<1>2. PICK one \in Seq(S) : one = <<r>>
  BY <1>1
<1>3. Len(one) = 1 /\ one[1] = r
  BY <1>2
<1>4. /\ t \in Seq(S) /\ Len(t) = 1 + Len(s)
      /\ \A i \in 1 .. 1 + Len(s) : t[i] = IF i <= 1 THEN one[i] ELSE s[i - 1]
  BY <1>2, <1>3, ConcatProperties
<1>5. Len(s) \in Nat /\ s \in [1 .. Len(s) -> S]
  BY LenProperties
<1>6. t # <<>> /\ Head(t) = r
  <2>1. t[1] = r
    BY <1>3, <1>4, <1>5
  <2>2. t # <<>>
    BY <1>4, <1>5
  <2>3. Head(t) = t[1]
    BY <1>4, <2>2
  <2> QED
    BY <2>1, <2>2, <2>3
<1>7. Tail(t) = s
  <2>1. /\ Tail(t) \in Seq(S) /\ Len(Tail(t)) = Len(t) - 1
        /\ \A i \in 1 .. Len(Tail(t)) : Tail(t)[i] = t[i + 1]
    BY <1>4, <1>6, HeadTailProperties
  <2>2. PICK rest \in Seq(S) : rest = Tail(t)
    BY <2>1
  <2>3. Len(rest) = Len(s)
    BY <1>4, <1>5, <2>1, <2>2
  <2>4. rest \in [1 .. Len(rest) -> S]
    BY LenProperties
  <2>5. \A i \in 1 .. Len(s) : rest[i] = s[i]
    <3> SUFFICES ASSUME NEW i \in 1 .. Len(s) PROVE rest[i] = s[i]
      OBVIOUS
    <3>1. i + 1 \in 1 .. 1 + Len(s) /\ ~ (i + 1 <= 1) /\ (i + 1) - 1 = i
      BY <1>5
    <3>2. rest[i] = t[i + 1]
      BY <2>1, <2>2, <2>3
    <3> QED
      BY <1>4, <3>1, <3>2
  <2>6. rest = s
    BY <1>5, <2>3, <2>4, <2>5
  <2> QED
    BY <2>2, <2>6
<1> QED
  BY <1>4, <1>6, <1>7

\* A sequence without its first element.
LEMMA TailOfSequence ==
  ASSUME NEW s, IsSequence(s), s # <<>>, NEW t, t = Tail(s)
  PROVE  /\ IsSequence(t) /\ Len(s) \in Nat /\ Len(t) = Len(s) - 1
         /\ \A i \in 1 .. Len(t) : t[i] = s[i + 1]
<1>1. PICK S : s \in Seq(S)
  BY DEF IsSequence
<1>2. t \in Seq(S) /\ Len(t) = Len(s) - 1 /\ \A i \in 1 .. Len(t) : t[i] = s[i + 1]
  BY <1>1, HeadTailProperties
<1> QED
  BY <1>1, <1>2, LenProperties DEF IsSequence

\* Another element in the place of one.
Replaced(s, n, x) == [s EXCEPT ![n] = x]

\* It leaves the rest of a sequence as it is.
LEMMA ReplaceInSequence ==
  ASSUME NEW s, IsSequence(s), NEW n \in 1 .. Len(s), NEW x,
         NEW t, t = Replaced(s, n, x)
  PROVE  /\ IsSequence(t) /\ Len(s) \in Nat /\ Len(t) = Len(s)
         /\ t[n] = x
         /\ \A i \in 1 .. Len(s) : i # n => t[i] = s[i]
<1>1. PICK S : s \in Seq(S)
  BY DEF IsSequence
<1> DEFINE T == S \cup {x}
           l == Len(s)
<1>2. l \in Nat /\ s \in [1 .. l -> S]
  BY <1>1, LenProperties
<1>3. t \in [1 .. l -> T] /\ t[n] = x /\ \A i \in 1 .. l : i # n => t[i] = s[i]
  BY <1>2 DEF Replaced
<1>4. t \in Seq(T) /\ Len(t) = l
  <2> HIDE DEF T, l
  <2> QED
    BY <1>2, <1>3, FunctionIsSeq
<1> QED
  BY <1>2, <1>3, <1>4 DEF IsSequence

\* A sum of multiples.
LEMMA TotalScaled ==
  ASSUME NEW u \in Seq(Int), NEW x \in Seq(Int), Len(u) = Len(x), NEW k \in Int,
         \A i \in 1 .. Len(x) : x[i] = k * u[i]
  PROVE  Total(x) = k * Total(u)
<1>1. Len(x) \in Nat /\ \A i \in 1 .. Len(x) : x[i] \in Int /\ u[i] \in Int
  BY LenProperties, ElementOfSeq
<1>2. Total(u) \in Int /\ Total(x) \in Int
  BY TotalIsInt
<1>3. Total(u) * k >= 1 * Total(x)
  <2>1. PICK one \in Int : one = 1
    OBVIOUS
  <2>2. ASSUME NEW i \in 1 .. Len(u) PROVE u[i] * k >= one * x[i]
    <3>1. x[i] = k * u[i] /\ x[i] \in Int /\ u[i] \in Int
      BY <1>1
    <3> QED
      BY <2>1, <3>1
  <2>3. Total(u) * k >= one * Total(x)
    BY <2>2, TotalsScaled
  <2> QED
    BY <2>1, <2>3
<1>4. Total(x) * 1 >= k * Total(u)
  <2>1. PICK one \in Int : one = 1
    OBVIOUS
  <2>2. ASSUME NEW i \in 1 .. Len(x) PROVE x[i] * one >= k * u[i]
    <3>1. x[i] = k * u[i] /\ x[i] \in Int /\ u[i] \in Int
      BY <1>1
    <3> QED
      BY <2>1, <3>1
  <2>3. Total(x) * one >= k * Total(u)
    BY <2>2, TotalsScaled
  <2> QED
    BY <2>1, <2>3
<1>5. PICK a \in Int, b \in Int : a = Total(u) /\ b = Total(x)
  BY <1>2
<1>6. a * k >= b /\ b >= k * a
  BY <1>3, <1>4, <1>5
<1>7. b = k * a
  BY <1>6
<1> QED
  BY <1>5, <1>7

\* Numbers that are made of those of two sequences.
AreCombined(x, u, v, k, l) ==
  /\ Len(u) = Len(x) /\ Len(v) = Len(x)
  /\ \A i \in 1 .. Len(x) : x[i] = k * u[i] + l * v[i]

\* Their sum is made of the sums.
LEMMA TotalLinear ==
  ASSUME NEW u \in Seq(Int), NEW v \in Seq(Int), NEW x \in Seq(Int),
         NEW k \in Int, NEW l \in Int, AreCombined(x, u, v, k, l)
  PROVE  Total(x) = k * Total(u) + l * Total(v)
<1> USE DEF AreCombined
<1>1. Len(x) \in Nat /\ \A i \in 1 .. Len(x) : u[i] \in Int /\ v[i] \in Int
  BY LenProperties, ElementOfSeq
<1>2. PICK a, b : /\ a = [i \in 1 .. Len(x) |-> k * u[i]]
                  /\ b = [i \in 1 .. Len(x) |-> l * v[i]]
  OBVIOUS
<1>3. a \in Seq(Int) /\ Len(a) = Len(x) /\ b \in Seq(Int) /\ Len(b) = Len(x)
  <2>1. \A i \in 1 .. Len(x) : k * u[i] \in Int /\ l * v[i] \in Int
    BY <1>1, ProductIsInt
  <2>2. a \in [1 .. Len(x) -> Int] /\ b \in [1 .. Len(x) -> Int]
    BY <1>2, <2>1
  <2> QED
    BY <1>1, <2>2, FunctionIsSeq
<1>4. Total(a) = k * Total(u)
  <2>1. \A i \in 1 .. Len(a) : a[i] = k * u[i]
    BY <1>2, <1>3
  <2> QED
    BY <1>3, <2>1, TotalScaled
<1>5. Total(b) = l * Total(v)
  <2>1. \A i \in 1 .. Len(b) : b[i] = l * v[i]
    BY <1>2, <1>3
  <2> QED
    BY <1>3, <2>1, TotalScaled
<1>6. Total(x) = Total(a) + Total(b)
  <2>1. \A i \in 1 .. Len(x) : x[i] = a[i] + b[i]
    BY <1>2
  <2> QED
    BY <1>3, <2>1, TotalsAdd
<1> QED
  BY <1>4, <1>5, <1>6

\* The sum of nothing.
LEMMA TotalOfNone ==
  ASSUME NEW a \in Seq(Int), Len(a) = 0
  PROVE  Total(a) = 0
<1>1. PICK zero \in Int : zero = 0
  OBVIOUS
<1>2. \A i \in 1 .. Len(a) : a[i] = zero * a[i]
  OBVIOUS
<1>3. Total(a) = zero * Total(a)
  BY <1>2, TotalScaled
<1>4. PICK total \in Int : total = Total(a)
  BY TotalIsInt
<1> QED
  BY <1>1, <1>3, <1>4
=============================================================================
