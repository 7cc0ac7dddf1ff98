----------------------------- MODULE DiceProofs -----------------------------
(***************************************************************************)
(* Proofs about dice (Dice): what Roll and applySelection compute, for     *)
(* every expression and every source.  Both are loops, written as          *)
(* functions of the number of rounds; that such a function exists and what *)
(* it is like follows from induction over sets of numbers.                 *)
(***************************************************************************)
EXTENDS Rules, SequenceTheorems, FiniteSetTheorems, TLAPS

(* Only CallRoll calls Roll.                                               *)
LEMMA RollCalled ==
  ASSUME Next, call'.op = "roll"
  PROVE  \E tokens \in Expression, source \in [1..MaxDice -> 1..MaxFaces] : CallRoll(tokens, source)
<1>1. /\ \A first, second : CallCrosses(first, second) => call'.op = "crosses"
      /\ \A paths, role, level, policy :
            CallRedact(paths, role, level, policy) => call'.op = "redact"
      /\ \A role, tokens, walls : CallSight(role, tokens, walls) => call'.op = "sight"
      /\ \A frame : CallCodec(frame) => call'.op = "codec"
  BY DEF CallCrosses, CallRedact, CallSight, CallCodec
<1>2. "roll" \notin {"crosses", "redact", "sight", "codec"}
  OBVIOUS
<1> QED BY <1>1, <1>2, Zenon DEF Next

-----------------------------------------------------------------------------
(* Induction and iteration.                                                *)

(* A set of numbers that is not empty has a least element: the intervals   *)
(* from 0 to its elements are finite sets, and inclusion of these is well- *)
(* founded.                                                                *)
LEMMA Smallest == ASSUME NEW S \in SUBSET Nat, S # {} PROVE \E m \in S : \A k \in S : m <= k
<1> DEFINE T == {0..n : n \in S}
<1>1. IsWellFoundedOn(StrictSubsetOrdering(Nat), FiniteSubsetsOf(Nat))
  BY FS_StrictSubsetOrderingWellFounded, Zenon
<1>2. \A n \in S : 0..n \in FiniteSubsetsOf(Nat)
  <2> TAKE n \in S
  <2>1. IsFiniteSet(0..n)
    BY FS_Interval
  <2>2. 0..n \in SUBSET Nat
    OBVIOUS
  <2> QED BY <2>1, <2>2, Zenon DEF FiniteSubsetsOf
<1>3. T \subseteq FiniteSubsetsOf(Nat) /\ T # {}
  BY <1>2, Zenon
<1>4. PICK x \in T : \A y \in T : ~ (<<y, x>> \in StrictSubsetOrdering(Nat))
  BY <1>1, <1>3, WFMin, Zenon
<1>5. PICK m \in S : x = 0..m
  BY <1>4, Zenon
<1>6. ASSUME NEW k \in S, k < m PROVE FALSE
  <2>1. 0..k \subseteq 0..m /\ 0..k # 0..m
    <3>1. m \in 0..m /\ m \notin 0..k
      BY <1>6
    <3> QED BY <3>1, <1>6
  <2>2. 0..k \in SUBSET Nat /\ 0..m \in SUBSET Nat
    OBVIOUS
  <2>3. <<0..k, 0..m>> \in StrictSubsetOrdering(Nat)
    BY <2>1, <2>2 DEF StrictSubsetOrdering
  <2> QED BY <2>3, <1>4, <1>5, Zenon
<1> QED BY <1>6

(* Induction: what holds of 0 and, with a number, of the next, holds of    *)
(* all.                                                                    *)
LEMMA Upward ==
    ASSUME NEW S, 0 \in S, \A n \in Nat : n \in S => n + 1 \in S
    PROVE  Nat \subseteq S
<1> SUFFICES ASSUME NEW n \in Nat, n \notin S PROVE FALSE
  OBVIOUS
<1> DEFINE T == {k \in Nat : k \notin S}
<1>1. T \in SUBSET Nat /\ T # {}
  OBVIOUS
<1> HIDE DEF T
<1>2. PICK m \in T : \A k \in T : m <= k
  BY <1>1, Smallest, Zenon
<1> USE DEF T
<1>3. m # 0 /\ m \in Nat
  BY <1>2
<1>4. m - 1 \in Nat /\ m - 1 \in S
  BY <1>2, <1>3
<1>5. (m - 1) + 1 \in S
  BY <1>4
<1> QED BY <1>5, <1>2, <1>3

(* A function on the numbers is given by its value at 0 and a step from    *)
(* each number to the next.                                                *)
StepsOn(S, D) == [S \X D -> S]
Iteration(f, S, D, a, step) ==
    f \in [D -> S] /\ f[0] = a /\ \A n \in D : n + 1 \in D => f[n + 1] = step[<<f[n], n>>]
Reaches(g, n, a, step) == g[0] = a /\ \A k \in 0..n - 1 : g[k + 1] = step[<<g[k], k>>]

(* There is such a function.                                               *)
LEMMA Iterates ==
  ASSUME NEW S, NEW a \in S, NEW step \in StepsOn(S, Nat)
  PROVE  \E f : Iteration(f, S, Nat, a, step)
<1> USE DEF StepsOn
<1> DEFINE Some == {n \in Nat : \E g \in [0..n -> S] : Reaches(g, n, a, step)}
<1>1. 0 \in Some
  <2>1. [k \in 0..0 |-> a] \in [0..0 -> S] /\ Reaches([k \in 0..0 |-> a], 0, a, step)
    BY DEF Reaches
  <2> QED BY <2>1, Zenon
<1>2. ASSUME NEW n \in Nat, n \in Some PROVE n + 1 \in Some
  <2>1. PICK g \in [0..n -> S] : Reaches(g, n, a, step)
    BY <1>2
  <2> DEFINE h == [k \in 0..n + 1 |-> IF k <= n THEN g[k] ELSE step[<<g[n], n>>]]
  <2>2. h \in [0..n + 1 -> S]
    <3>1. g[n] \in S /\ <<g[n], n>> \in S \X Nat /\ step[<<g[n], n>>] \in S
      OBVIOUS
    <3>2. \A k \in 0..n + 1 : (IF k <= n THEN g[k] ELSE step[<<g[n], n>>]) \in S
      BY <3>1
    <3> QED BY <3>2
  <2>3. h[0] = a
    BY <2>1 DEF Reaches
  <2>4. ASSUME NEW k \in 0..(n + 1) - 1 PROVE h[k + 1] = step[<<h[k], k>>]
    <3>1. h[k] = g[k]
      OBVIOUS
    <3>2. CASE k = n
      <4>1. h[n + 1] = step[<<g[n], n>>]
        OBVIOUS
      <4> QED BY <3>1, <3>2, <4>1, Zenon
    <3>3. CASE k # n
      <4>1. k \in 0..n - 1 /\ h[k + 1] = g[k + 1]
        BY <3>3
      <4> QED BY <2>1, <3>1, <4>1 DEF Reaches
    <3> QED BY <3>2, <3>3
  <2> HIDE DEF h
  <2>5. Reaches(h, n + 1, a, step)
    BY <2>3, <2>4, Zenon DEF Reaches
  <2> QED BY <2>2, <2>5
<1> HIDE DEF Some
<1>3. Nat \subseteq Some
  BY <1>1, <1>2, Upward, Zenon
<1> DEFINE G(n) == CHOOSE g \in [0..n -> S] : Reaches(g, n, a, step)
<1>4. \A n \in Nat : G(n) \in [0..n -> S] /\ Reaches(G(n), n, a, step)
  BY <1>3, Zenon DEF Some
<1> HIDE DEF G
<1> DEFINE Same == {k \in Nat : \A n \in Nat : k <= n => G(n)[k] = G(k)[k]}
<1>5. 0 \in Same
  BY <1>4 DEF Reaches
<1>6. ASSUME NEW k \in Nat, k \in Same PROVE k + 1 \in Same
  <2> SUFFICES ASSUME NEW n \in Nat, k + 1 <= n PROVE G(n)[k + 1] = G(k + 1)[k + 1]
    OBVIOUS
  <2>1. G(n)[k] = G(k)[k] /\ G(k + 1)[k] = G(k)[k]
    BY <1>6
  <2>2. k \in 0..n - 1 /\ k \in 0..(k + 1) - 1 /\ k + 1 \in Nat
    OBVIOUS
  <2>3. G(n)[k + 1] = step[<<G(n)[k], k>>]
    BY <1>4, <2>2, Zenon DEF Reaches
  <2>4. G(k + 1)[k + 1] = step[<<G(k + 1)[k], k>>]
    BY <1>4, <2>2, Zenon DEF Reaches
  <2> QED BY <2>1, <2>3, <2>4, Zenon
<1> HIDE DEF Same
<1>7. Nat \subseteq Same
  BY <1>5, <1>6, Upward, Zenon
<1> DEFINE f == [n \in Nat |-> G(n)[n]]
<1>8. f \in [Nat -> S]
  BY <1>4
<1>9. f[0] = a
  BY <1>4 DEF Reaches
<1>10. ASSUME NEW n \in Nat PROVE f[n + 1] = step[<<f[n], n>>]
  <2>1. n \in 0..(n + 1) - 1 /\ n + 1 \in Nat
    OBVIOUS
  <2>2. G(n + 1)[n + 1] = step[<<G(n + 1)[n], n>>]
    BY <1>4, <2>1, Zenon DEF Reaches
  <2>3. G(n + 1)[n] = G(n)[n]
    <3>1. n \in Same /\ n <= n + 1
      BY <1>7
    <3> QED BY <2>1, <3>1 DEF Same
  <2> QED BY <2>1, <2>2, <2>3
<1> HIDE DEF f
<1> QED BY <1>8, <1>9, <1>10, Zenon DEF Iteration

(* So is a function on the first numbers.                                  *)
LEMMA IteratesUpTo ==
  ASSUME NEW S, NEW a \in S, NEW N \in Nat, NEW step \in StepsOn(S, 0..N - 1)
  PROVE  \E f : Iteration(f, S, 0..N, a, step)
<1> DEFINE on == [x \in S \X Nat |-> IF x[2] < N THEN step[x] ELSE x[1]]
<1>1. on \in StepsOn(S, Nat)
  <2> USE DEF StepsOn
  <2> SUFFICES ASSUME NEW x \in S \X Nat PROVE (IF x[2] < N THEN step[x] ELSE x[1]) \in S
    OBVIOUS
  <2>1. CASE x[2] < N
    <3>1. x \in S \X (0..N - 1)
      BY <2>1
    <3> QED BY <2>1, <3>1
  <2>2. CASE ~(x[2] < N)
    BY <2>2
  <2> QED BY <2>1, <2>2
<1>2. \A s \in S, n \in 0..N - 1 : on[<<s, n>>] = step[<<s, n>>]
  <2> SUFFICES ASSUME NEW s \in S, NEW n \in 0..N - 1 PROVE on[<<s, n>>] = step[<<s, n>>]
    BY Zenon
  <2>1. <<s, n>> \in S \X Nat /\ <<s, n>>[2] < N
    OBVIOUS
  <2> QED BY <2>1
<1> HIDE DEF on
<1>3. PICK f : Iteration(f, S, Nat, a, on)
  BY <1>1, Iterates, Zenon
<1>4. f \in [Nat -> S] /\ f[0] = a /\ \A n \in Nat : f[n + 1] = on[<<f[n], n>>]
  BY <1>3 DEF Iteration
<1> DEFINE g == [n \in 0..N |-> f[n]]
<1>5. g \in [0..N -> S] /\ g[0] = a
  BY <1>4
<1>6. ASSUME NEW n \in 0..N - 1 PROVE g[n + 1] = step[<<g[n], n>>]
  <2>1. n \in Nat /\ f[n] \in S /\ g[n] = f[n] /\ g[n + 1] = f[n + 1]
    BY <1>4
  <2> QED BY <1>2, <1>4, <2>1
<1>7. \A n \in 0..N : n + 1 \in 0..N => n \in 0..N - 1
  OBVIOUS
<1> HIDE DEF g
<1> QED BY <1>5, <1>6, <1>7, Zenon DEF Iteration
-----------------------------------------------------------------------------
(* Sums.                                                                   *)

(* SumOver is a sum: it begins with 0 and adds one addend at a time.       *)
Addend(values, indexes, k) == IF k \in indexes THEN values[k] ELSE 0
Summable(values, indexes) == \A k \in Nat \ {0} : k \in indexes => values[k] \in Int
SumsUp(f, values, indexes) ==
    f = [k \in Nat |-> IF k = 0 THEN 0 ELSE f[k - 1] + Addend(values, indexes, k)]

(* The function that SumOver chooses is the one it describes.              *)
LEMMA SumSteps ==
  ASSUME NEW values, NEW indexes, Summable(values, indexes)
  PROVE  /\ SumOver(values, indexes, 0) = 0
         /\ \A n \in Nat :
               /\ SumOver(values, indexes, n) \in Int
               /\ Addend(values, indexes, n + 1) \in Int
               /\ SumOver(values, indexes, n + 1)
                     = SumOver(values, indexes, n) + Addend(values, indexes, n + 1)
<1> DEFINE add(k) == Addend(values, indexes, k)
           step == [x \in Int \X Nat |-> x[1] + add(x[2] + 1)]
<1>1. \A k \in Nat \ {0} : add(k) \in Int
  BY DEF Summable, Addend
<1> HIDE DEF add
<1>2. step \in StepsOn(Int, Nat)
  <2>1. \A x \in Int \X Nat : x[1] + add(x[2] + 1) \in Int
    <3> TAKE x \in Int \X Nat
    <3>1. x[1] \in Int /\ x[2] + 1 \in Nat \ {0}
      OBVIOUS
    <3>2. add(x[2] + 1) \in Int
      BY <1>1, <3>1, Zenon
    <3> QED BY <3>1, <3>2
  <2> QED BY <2>1 DEF StepsOn
<1>3. \A s \in Int, n \in Nat : step[<<s, n>>] = s + add(n + 1)
  OBVIOUS
<1>4. 0 \in Int
  OBVIOUS
<1> HIDE DEF step
<1>5. PICK f : Iteration(f, Int, Nat, 0, step)
  BY <1>2, <1>4, Iterates, Zenon
<1>6. SumsUp(f, values, indexes)
  <2>1. f \in [Nat -> Int] /\ f[0] = 0
    BY <1>5 DEF Iteration
  <2>2. ASSUME NEW k \in Nat, k # 0 PROVE f[k] = f[k - 1] + add(k)
    <3>1. k - 1 \in Nat /\ (k - 1) + 1 = k /\ f[k - 1] \in Int
      BY <2>1, <2>2
    <3>2. f[(k - 1) + 1] = step[<<f[k - 1], k - 1>>]
      BY <1>5, <3>1 DEF Iteration
    <3>3. step[<<f[k - 1], k - 1>>] = f[k - 1] + add((k - 1) + 1)
      BY <1>3, <3>1, Zenon
    <3> QED BY <3>1, <3>2, <3>3
  <2>3. \A k \in Nat : f[k] = IF k = 0 THEN 0 ELSE f[k - 1] + add(k)
    BY <2>1, <2>2
  <2> QED BY <2>1, <2>3 DEF SumsUp, add
<1> DEFINE g == CHOOSE h : SumsUp(h, values, indexes)
<1>7. SumsUp(g, values, indexes)
  BY <1>6, Zenon
<1>8. \A n : SumOver(values, indexes, n) = g[n]
  BY Zenon DEF SumOver, SumsUp, Addend
<1> HIDE DEF g
<1>9. g[0] = 0 /\ \A n \in Nat : g[n + 1] = g[n] + add(n + 1)
  <2>1. \A k \in Nat : g[k] = IF k = 0 THEN 0 ELSE g[k - 1] + add(k)
    BY <1>7, Zenon DEF SumsUp, add
  <2>2. ASSUME NEW n \in Nat PROVE g[n + 1] = g[n] + add(n + 1)
    <3>1. n + 1 \in Nat /\ n + 1 # 0 /\ (n + 1) - 1 = n
      OBVIOUS
    <3>2. g[n + 1] = g[(n + 1) - 1] + add(n + 1)
      BY <2>1, <3>1, Zenon
    <3> QED BY <3>1, <3>2
  <2>3. g[0] = 0
    BY <2>1
  <2> QED BY <2>2, <2>3
<1> DEFINE Whole == {n \in Nat : g[n] \in Int}
<1>10. 0 \in Whole
  BY <1>9
<1>11. ASSUME NEW n \in Nat, n \in Whole PROVE n + 1 \in Whole
  <2>1. g[n] \in Int /\ n + 1 \in Nat \ {0}
    BY <1>11
  <2>2. add(n + 1) \in Int
    BY <1>1, <2>1, Zenon
  <2> QED BY <1>9, <2>1, <2>2
<1> HIDE DEF Whole
<1>12. Nat \subseteq Whole
  BY <1>10, <1>11, Upward, Zenon
<1>13. ASSUME NEW n \in Nat
       PROVE  /\ SumOver(values, indexes, n) \in Int
              /\ add(n + 1) \in Int
              /\ SumOver(values, indexes, n + 1) = SumOver(values, indexes, n) + add(n + 1)
  <2>1. n + 1 \in Nat \ {0} /\ g[n] \in Int
    BY <1>12 DEF Whole
  <2>2. add(n + 1) \in Int
    BY <1>1, <2>1, Zenon
  <2> QED BY <1>8, <1>9, <2>1, <2>2, Zenon
<1> QED BY <1>8, <1>9, <1>13, Zenon DEF add

(* Sums with the same addends are the same.                                *)
LEMMA SumsAgree ==
  ASSUME NEW values, NEW indexes, Summable(values, indexes),
         NEW others, NEW chosen, Summable(others, chosen), NEW N \in Nat,
         \A k \in 1..N : Addend(values, indexes, k) = Addend(others, chosen, k)
  PROVE  SumOver(values, indexes, N) = SumOver(others, chosen, N)
<1> DEFINE Same == {n \in Nat : n <= N => SumOver(values, indexes, n) = SumOver(others, chosen, n)}
<1>1. 0 \in Same
  BY SumSteps
<1>2. ASSUME NEW n \in Nat, n \in Same PROVE n + 1 \in Same
  <2> SUFFICES ASSUME n + 1 <= N
               PROVE  SumOver(values, indexes, n + 1) = SumOver(others, chosen, n + 1)
    OBVIOUS
  <2>1. n + 1 \in 1..N /\ SumOver(values, indexes, n) = SumOver(others, chosen, n)
    BY <1>2
  <2>2. Addend(values, indexes, n + 1) = Addend(others, chosen, n + 1)
    BY <2>1, Zenon
  <2>3. SumOver(values, indexes, n + 1) = SumOver(values, indexes, n) + Addend(values, indexes, n + 1)
    BY SumSteps, Zenon
  <2>4. SumOver(others, chosen, n + 1) = SumOver(others, chosen, n) + Addend(others, chosen, n + 1)
    BY SumSteps, Zenon
  <2> QED BY <2>1, <2>2, <2>3, <2>4, Zenon
<1> HIDE DEF Same
<1>3. Nat \subseteq Same
  BY <1>1, <1>2, Upward, Zenon
<1>4. N <= N
  OBVIOUS
<1> QED BY <1>3, <1>4, Zenon DEF Same

(* x is at least as high as y when the most is wanted, or else as low.     *)
Beats(most, x, y) == IF most THEN y <= x ELSE x <= y

(* A sum whose addends beat those of another beats the other.              *)
LEMMA AddendsBeat ==
  ASSUME NEW most \in BOOLEAN, NEW values, NEW indexes, Summable(values, indexes),
         NEW others, NEW chosen, Summable(others, chosen), NEW N \in Nat,
         \A k \in 1..N : Beats(most, Addend(values, indexes, k), Addend(others, chosen, k))
  PROVE  Beats(most, SumOver(values, indexes, N), SumOver(others, chosen, N))
<1> DEFINE a(n) == SumOver(values, indexes, n)
           b(n) == SumOver(others, chosen, n)
           Beaten == {n \in Nat : n <= N => Beats(most, a(n), b(n))}
<1>1. 0 \in Beaten
  <2>1. a(0) = 0 /\ b(0) = 0
    BY SumSteps, Zenon
  <2> QED BY <2>1 DEF Beats
<1>2. ASSUME NEW n \in Nat, n \in Beaten PROVE n + 1 \in Beaten
  <2> SUFFICES ASSUME n + 1 <= N PROVE Beats(most, a(n + 1), b(n + 1))
    OBVIOUS
  <2>1. n + 1 \in 1..N /\ Beats(most, a(n), b(n))
    BY <1>2
  <2>2. Beats(most, Addend(values, indexes, n + 1), Addend(others, chosen, n + 1))
    BY <2>1, Zenon
  <2>3. /\ a(n) \in Int /\ Addend(values, indexes, n + 1) \in Int
        /\ a(n + 1) = a(n) + Addend(values, indexes, n + 1)
    BY SumSteps, Zenon
  <2>4. /\ b(n) \in Int /\ Addend(others, chosen, n + 1) \in Int
        /\ b(n + 1) = b(n) + Addend(others, chosen, n + 1)
    BY SumSteps, Zenon
  <2> HIDE DEF a, b
  <2> QED BY <2>1, <2>2, <2>3, <2>4 DEF Beats
<1> HIDE DEF Beaten
<1>3. Nat \subseteq Beaten
  BY <1>1, <1>2, Upward, Zenon
<1>4. N <= N
  OBVIOUS
<1> QED BY <1>3, <1>4, Zenon DEF Beaten

(* Taking t from every addend takes it from the sum as often as there are  *)
(* addends.                                                                *)
LEMMA SumShifts ==
  ASSUME NEW N \in Nat, NEW values, \A k \in 1..N : values[k] \in Int,
         NEW S \in SUBSET (1..N), NEW t \in Int
  PROVE  /\ Cardinality(S) \in Nat /\ SumOver(values, S, N) \in Int
         /\ Summable(values, S) /\ Summable([k \in 1..N |-> values[k] - t], S)
         /\ SumOver([k \in 1..N |-> values[k] - t], S, N)
               = SumOver(values, S, N) - t * Cardinality(S)
<1> DEFINE shifted == [k \in 1..N |-> values[k] - t]
           a(n) == SumOver(values, S, n)
           b(n) == SumOver(shifted, S, n)
           c(n) == Cardinality(S \cap (1..n))
           Right == {n \in Nat : n <= N => c(n) \in Nat /\ b(n) = a(n) - t * c(n)}
<1>1. Summable(values, S) /\ Summable(shifted, S)
  BY DEF Summable
<1>2. \A k \in 1..N : shifted[k] = values[k] - t
  OBVIOUS
<1> HIDE DEF shifted
<1>3. 0 \in Right
  <2>1. a(0) = 0 /\ b(0) = 0
    BY <1>1, SumSteps, Zenon
  <2>2. S \cap (1..0) = {}
    OBVIOUS
  <2>3. c(0) = 0
    BY <2>2, FS_EmptySet
  <2> QED BY <2>1, <2>3
<1>4. ASSUME NEW n \in Nat, n \in Right PROVE n + 1 \in Right
  <2> SUFFICES ASSUME n + 1 <= N
               PROVE  c(n + 1) \in Nat /\ b(n + 1) = a(n + 1) - t * c(n + 1)
    OBVIOUS
  <2>1. n + 1 \in 1..N /\ c(n) \in Nat /\ b(n) = a(n) - t * c(n)
    BY <1>4
  <2>2. /\ a(n) \in Int /\ Addend(values, S, n + 1) \in Int
        /\ a(n + 1) = a(n) + Addend(values, S, n + 1)
    BY <1>1, SumSteps, Zenon
  <2>3. /\ b(n) \in Int /\ Addend(shifted, S, n + 1) \in Int
        /\ b(n + 1) = b(n) + Addend(shifted, S, n + 1)
    BY <1>1, SumSteps, Zenon
  <2>4. CASE n + 1 \in S
    <3>1. S \cap (1..n + 1) = (S \cap (1..n)) \cup {n + 1} /\ n + 1 \notin S \cap (1..n)
      BY <2>4
    <3>2. IsFiniteSet(1..n)
      BY FS_Interval
    <3>3. IsFiniteSet(S \cap (1..n))
      BY <3>2, FS_Intersection, Zenon
    <3>4. c(n + 1) = c(n) + 1
      BY <3>1, <3>3, FS_AddElement, Zenon
    <3>5. Addend(values, S, n + 1) = values[n + 1] /\ Addend(shifted, S, n + 1) = values[n + 1] - t
      BY <1>2, <2>1, <2>4, Zenon DEF Addend
    <3>6. values[n + 1] \in Int
      BY <2>1
    <3> HIDE DEF a, b, c
    <3>7. t * (c(n) + 1) = t * c(n) + t
      BY <2>1
    <3> QED BY <2>1, <2>2, <2>3, <3>4, <3>5, <3>6, <3>7
  <2>5. CASE n + 1 \notin S
    <3>1. S \cap (1..n + 1) = S \cap (1..n)
      BY <2>5
    <3>2. Addend(values, S, n + 1) = 0 /\ Addend(shifted, S, n + 1) = 0
      BY <2>5, Zenon DEF Addend
    <3>3. c(n + 1) = c(n)
      BY <3>1, Zenon
    <3> HIDE DEF a, b, c
    <3> QED BY <2>1, <2>2, <2>3, <3>2, <3>3
  <2> QED BY <2>4, <2>5
<1> HIDE DEF Right
<1>5. Nat \subseteq Right
  BY <1>3, <1>4, Upward, Zenon
<1>6. c(N) \in Nat /\ b(N) = a(N) - t * c(N)
  <2>1. N \in Right /\ N <= N
    BY <1>5
  <2> QED BY <2>1, Zenon DEF Right
<1>7. S \cap (1..N) = S
  BY Zenon
<1>8. a(N) \in Int
  BY <1>1, SumSteps, Zenon
<1> QED BY <1>1, <1>6, <1>7, <1>8, Zenon DEF shifted

(* When all values that are taken beat t and t beats all others, no other  *)
(* selection of as many values has a sum that beats theirs.                *)
LEMMA BestSelection ==
  ASSUME NEW N \in Nat, NEW values, \A k \in 1..N : values[k] \in Int,
         NEW most \in BOOLEAN, NEW best \in SUBSET (1..N), NEW other \in SUBSET (1..N),
         Cardinality(best) = Cardinality(other), NEW t \in Int,
         \A k \in best : Beats(most, values[k], t),
         \A k \in (1..N) \ best : Beats(most, t, values[k])
  PROVE  Beats(most, SumOver(values, best, N), SumOver(values, other, N))
<1> DEFINE shifted == [k \in 1..N |-> values[k] - t]
<1>1. /\ Cardinality(best) \in Nat /\ SumOver(values, best, N) \in Int
      /\ Summable(shifted, best)
      /\ SumOver(shifted, best, N) = SumOver(values, best, N) - t * Cardinality(best)
  BY SumShifts, ZenonT(30)
<1>2. /\ SumOver(values, other, N) \in Int /\ Summable(shifted, other)
      /\ SumOver(shifted, other, N) = SumOver(values, other, N) - t * Cardinality(other)
  BY SumShifts, ZenonT(30)
<1>3. ASSUME NEW k \in 1..N
      PROVE  Beats(most, Addend(shifted, best, k), Addend(shifted, other, k))
  <2>1. shifted[k] = values[k] - t /\ values[k] \in Int
    OBVIOUS
  <2> HIDE DEF shifted
  <2>2. CASE k \in best
    <3>1. Beats(most, values[k], t)
      BY <2>2
    <3> QED BY <2>1, <2>2, <3>1 DEF Beats, Addend
  <2>3. CASE k \notin best
    <3>1. Beats(most, t, values[k])
      BY <2>3
    <3> QED BY <2>1, <2>3, <3>1 DEF Beats, Addend
  <2> QED BY <2>2, <2>3
<1> HIDE DEF shifted
<1>4. Beats(most, SumOver(shifted, best, N), SumOver(shifted, other, N))
  BY <1>1, <1>2, <1>3, AddendsBeat, Zenon
<1>5. PICK x \in Int : x = t * Cardinality(best)
  BY <1>1
<1>6. SumOver(shifted, best, N) = SumOver(values, best, N) - x
      /\ SumOver(shifted, other, N) = SumOver(values, other, N) - x
  BY <1>1, <1>2, <1>5, Zenon
<1> QED BY <1>1, <1>2, <1>4, <1>5, <1>6 DEF Beats
-----------------------------------------------------------------------------
(* The insertion sort of applySelection.                                   *)

(* Whether the die a may stand before b: insertion sort leaves them so.    *)
MayLead(dice, mode, a, b) == ~Precedes(mode, dice[a], dice[b])
AreDice(dice, N) == \A k \in 1..N : dice[k] \in Int

(* Of two dice one may stand before the other, and so on down the line.    *)
LEMMA LeadOrders ==
  ASSUME NEW mode, NEW N, NEW dice, AreDice(dice, N),
         NEW a \in 1..N, NEW b \in 1..N, NEW c \in 1..N
  PROVE  /\ MayLead(dice, mode, a, b) \/ MayLead(dice, mode, b, a)
         /\ MayLead(dice, mode, a, b) /\ MayLead(dice, mode, b, c) => MayLead(dice, mode, a, c)
<1>1. dice[a] \in Int /\ dice[b] \in Int /\ dice[c] \in Int
  BY DEF AreDice
<1> QED BY <1>1 DEF MayLead, Precedes

(* The orders of N dice.                                                   *)
Arrangements(N) ==
    {o \in [1..N -> 1..N] : /\ \A p, q \in 1..N : o[p] = o[q] => p = q
                            /\ \A a \in 1..N : \E p \in 1..N : o[p] = a}

(* Swapping two neighbours gives another order.                            *)
LEMMA SwapArranges ==
  ASSUME NEW N \in Nat, NEW o \in Arrangements(N), NEW j \in 2..N
  PROVE  /\ Swap(o, j) \in Arrangements(N)
         /\ Swap(o, j)[j] = o[j - 1] /\ Swap(o, j)[j - 1] = o[j]
         /\ \A p \in 1..N : p # j /\ p # j - 1 => Swap(o, j)[p] = o[p]
<1> DEFINE w == Swap(o, j)
<1>1. o \in [1..N -> 1..N] /\ j \in 1..N /\ j - 1 \in 1..N /\ j # j - 1
  BY DEF Arrangements
<1>2. /\ w \in [1..N -> 1..N] /\ w[j] = o[j - 1] /\ w[j - 1] = o[j]
      /\ \A p \in 1..N : p # j /\ p # j - 1 => w[p] = o[p]
  BY <1>1, Zenon DEF Swap
<1> HIDE DEF w
<1>3. ASSUME NEW p \in 1..N, NEW q \in 1..N, w[p] = w[q] PROVE p = q
  <2>1. \A x, y \in 1..N : o[x] = o[y] => x = y
    BY DEF Arrangements
  <2> DEFINE at(x) == IF x = j THEN j - 1 ELSE IF x = j - 1 THEN j ELSE x
  <2>2. \A x \in 1..N : at(x) \in 1..N /\ w[x] = o[at(x)]
    BY <1>1, <1>2, Zenon
  <2>3. at(p) = at(q) => p = q
    BY <1>1
  <2> HIDE DEF at
  <2> QED BY <1>3, <2>1, <2>2, <2>3, Zenon
<1>4. ASSUME NEW a \in 1..N PROVE \E p \in 1..N : w[p] = a
  <2>1. PICK p \in 1..N : o[p] = a
    BY DEF Arrangements
  <2> QED BY <1>1, <1>2, <2>1, Zenon
<1>5. w \in Arrangements(N)
  BY <1>2, <1>3, <1>4, Zenon DEF Arrangements
<1> QED BY <1>2, <1>5, Zenon DEF w

(* The inner loop of applySelection.  Sifted says that the first i dice    *)
(* are in order but for the one at j, which may lead all that follow it.   *)
Sifting(N, i) == [order : Arrangements(N), j : 1..i]
Round(dice, mode, s) ==
    IF s.j > 1 /\ Precedes(mode, dice[s.order[s.j - 1]], dice[s.order[s.j]])
    THEN [order |-> Swap(s.order, s.j), j |-> s.j - 1]
    ELSE s
InOrder(dice, mode, o, i) == \A p, q \in 1..i : p < q => MayLead(dice, mode, o[p], o[q])
SiftedAt(dice, mode, o, j, i) ==
    /\ \A p, q \in 1..i : p < q /\ p # j /\ q # j => MayLead(dice, mode, o[p], o[q])
    /\ \A q \in 1..i : j < q => MayLead(dice, mode, o[j], o[q])
Settled(dice, mode, o, j) == j = 1 \/ MayLead(dice, mode, o[j - 1], o[j])
Moves(dice, mode, s) ==
    \/ Settled(dice, mode, s.order, s.j) /\ Round(dice, mode, s) = s
    \/ Round(dice, mode, s).j = s.j - 1

(* When the die has settled, all are in order.                             *)
LEMMA SettledInOrder ==
  ASSUME NEW N \in Nat, NEW mode, NEW dice, AreDice(dice, N), NEW i \in 1..N,
         NEW o \in Arrangements(N), NEW j \in 1..i,
         SiftedAt(dice, mode, o, j, i), Settled(dice, mode, o, j)
  PROVE  InOrder(dice, mode, o, i)
<1> DEFINE L(p, q) == MayLead(dice, mode, o[p], o[q])
<1>0. \A p \in 1..i : p \in 1..N /\ o[p] \in 1..N
  BY SMTT(30) DEF Arrangements
<1>1. ASSUME NEW p \in 1..i, NEW q \in 1..i, p < q PROVE L(p, q)
  <2>1. CASE p # j /\ q # j
    BY <1>1, <2>1 DEF SiftedAt
  <2>2. CASE p = j
    BY <1>1, <2>2 DEF SiftedAt
  <2>3. CASE q = j /\ p = j - 1
    BY <1>1, <2>3 DEF Settled
  <2>4. CASE q = j /\ p # j - 1
    <3>1. j - 1 \in 1..i /\ p < j - 1 /\ j # 1 /\ j - 1 # j /\ p # j
      BY <1>1, <2>4
    <3>2. L(p, j - 1)
      BY <3>1 DEF SiftedAt
    <3>3. L(j - 1, j)
      BY <3>1 DEF Settled
    <3>4. o[p] \in 1..N /\ o[j - 1] \in 1..N /\ o[j] \in 1..N
      BY <1>0, <3>1
    <3>5. L(p, j)
      BY <3>2, <3>3, <3>4, LeadOrders, ZenonT(30)
    <3> QED BY <2>4, <3>5, Zenon
  <2> QED BY <2>1, <2>2, <2>3, <2>4, Zenon
<1> QED BY <1>1, Zenon DEF InOrder

(* One round keeps the order so far, and moves the die or has settled it.  *)
LEMMA RoundSifts ==
  ASSUME NEW N \in Nat, NEW mode, NEW dice, AreDice(dice, N), NEW i \in 1..N,
         NEW s \in Sifting(N, i), SiftedAt(dice, mode, s.order, s.j, i)
  PROVE  /\ Round(dice, mode, s) \in Sifting(N, i)
         /\ SiftedAt(dice, mode, Round(dice, mode, s).order, Round(dice, mode, s).j, i)
         /\ Moves(dice, mode, s)
<1>1. PICK o \in Arrangements(N), j \in 1..i : o = s.order /\ j = s.j
  BY DEF Sifting
<1>2. CASE j > 1 /\ Precedes(mode, dice[o[j - 1]], dice[o[j]])
  <2> DEFINE w == Swap(o, j)
             L(a, b) == MayLead(dice, mode, a, b)
  <2>1. j \in 2..N /\ j - 1 \in 1..i /\ \A p \in 1..i : p \in 1..N /\ o[p] \in 1..N
    <3>1. j \in 2..N /\ j - 1 \in 1..i
      BY <1>2
    <3>2. \A p \in 1..i : p \in 1..N /\ o[p] \in 1..N
      BY SMTT(30) DEF Arrangements
    <3> QED BY <3>1, <3>2, Zenon
  <2>2. /\ w \in Arrangements(N) /\ w[j] = o[j - 1] /\ w[j - 1] = o[j]
        /\ \A p \in 1..N : p # j /\ p # j - 1 => w[p] = o[p]
    BY <2>1, SwapArranges, Zenon
  <2> HIDE DEF w
  <2>3. Round(dice, mode, s) = [order |-> w, j |-> j - 1]
    BY <1>1, <1>2, Zenon DEF Round, w
  <2>4. L(o[j], o[j - 1])
    <3>1. ~L(o[j - 1], o[j])
      BY <1>2, Zenon DEF MayLead
    <3>2. o[j] \in 1..N /\ o[j - 1] \in 1..N
      BY <2>1, Zenon
    <3> QED BY <3>1, <3>2, LeadOrders, Zenon
  <2>5. /\ \A p, q \in 1..i : p < q /\ p # j /\ q # j => L(o[p], o[q])
        /\ \A q \in 1..i : j < q => L(o[j], o[q])
    BY <1>1, Zenon DEF SiftedAt
  <2> HIDE DEF L
  <2>6. ASSUME NEW p \in 1..i, NEW q \in 1..i, p < q, p # j - 1, q # j - 1 PROVE L(w[p], w[q])
    <3>1. CASE p # j /\ q # j
      BY <2>1, <2>2, <2>5, <2>6, <3>1
    <3>2. CASE p = j
      <4>1. j - 1 < q /\ j - 1 # j /\ q # j
        BY <2>1, <2>6, <3>2
      <4>2. L(o[j - 1], o[q])
        BY <2>1, <2>5, <2>6, <4>1, Zenon
      <4>3. w[q] = o[q]
        BY <2>1, <2>2, <2>6, <4>1, Zenon
      <4> QED BY <2>2, <3>2, <4>2, <4>3, Zenon
    <3>3. CASE q = j
      <4>1. p < j - 1 /\ j - 1 # j /\ p # j
        BY <2>1, <2>6, <3>3
      <4>2. L(o[p], o[j - 1])
        BY <2>1, <2>5, <2>6, <4>1, Zenon
      <4>3. w[p] = o[p]
        BY <2>1, <2>2, <2>6, <4>1, Zenon
      <4> QED BY <2>2, <3>3, <4>2, <4>3, Zenon
    <3> QED BY <3>1, <3>2, <3>3
  <2>7. ASSUME NEW q \in 1..i, j - 1 < q PROVE L(w[j - 1], w[q])
    <3>1. CASE q = j
      BY <2>2, <2>4, <3>1, Zenon
    <3>2. CASE q # j
      <4>1. j < q /\ q # j - 1
        BY <2>1, <2>7, <3>2
      <4> QED BY <2>1, <2>2, <2>5, <3>2, <4>1, Zenon
    <3> QED BY <3>1, <3>2
  <2>8. SiftedAt(dice, mode, w, j - 1, i)
    BY <2>6, <2>7, Zenon DEF SiftedAt, L
  <2>9. PICK r : r = Round(dice, mode, s)
    OBVIOUS
  <2>10. r.order = w /\ r.j = j - 1 /\ r \in Sifting(N, i)
    BY <2>1, <2>2, <2>3, <2>9 DEF Sifting
  <2> QED BY <1>1, <2>8, <2>9, <2>10, Zenon DEF Moves
<1>3. CASE ~(j > 1 /\ Precedes(mode, dice[o[j - 1]], dice[o[j]]))
  <2>1. Round(dice, mode, s) = s
    BY <1>1, <1>3, Zenon DEF Round
  <2>2. Settled(dice, mode, o, j)
    BY <1>3 DEF Settled, MayLead
  <2> QED BY <1>1, <2>1, <2>2, Zenon DEF Moves
<1> QED BY <1>2, <1>3

(* The inner loop puts one more die in order.                              *)
LEMMA SiftSorts ==
  ASSUME NEW N \in Nat, NEW mode, NEW dice, AreDice(dice, N), NEW i \in 1..N,
         NEW o \in Arrangements(N), InOrder(dice, mode, o, i - 1)
  PROVE  /\ Sift(dice, mode, o, i) \in Arrangements(N)
         /\ InOrder(dice, mode, Sift(dice, mode, o, i), i)
<1> DEFINE S == {s \in Sifting(N, i) : SiftedAt(dice, mode, s.order, s.j, i)}
           begin == [order |-> o, j |-> i]
           step == [x \in S \X (0..i - 1) |-> Round(dice, mode, x[1])]
           Is(f) == f = [n \in 0..i |-> IF n = 0 THEN begin ELSE Round(dice, mode, f[n - 1])]
<1>1. begin \in S
  <2>1. begin.order = o /\ begin.j = i /\ begin \in Sifting(N, i)
    BY DEF Sifting
  <2>2. ASSUME NEW p \in 1..i, NEW q \in 1..i, p < q, p # i, q # i
        PROVE  MayLead(dice, mode, o[p], o[q])
    <3>1. p \in 1..i - 1 /\ q \in 1..i - 1
      BY <2>2
    <3> QED BY <2>2, <3>1, Zenon DEF InOrder
  <2>3. \A q \in 1..i : ~(i < q)
    OBVIOUS
  <2>4. SiftedAt(dice, mode, o, i, i)
    BY <2>2, <2>3, Zenon DEF SiftedAt
  <2> HIDE DEF begin
  <2> QED BY <2>1, <2>4, Zenon
<1>2. \A s \in S : Round(dice, mode, s) \in S
  BY RoundSifts, Zenon
<1>3. \A s \in S : Moves(dice, mode, s)
  BY RoundSifts, Zenon
<1>4. \A s \in S : /\ s.order \in Arrangements(N) /\ s.j \in 1..i
                   /\ SiftedAt(dice, mode, s.order, s.j, i)
  BY DEF Sifting
<1>5. begin.j = i
  OBVIOUS
<1> HIDE DEF S, begin
<1>6. step \in StepsOn(S, 0..i - 1)
  BY <1>2 DEF StepsOn
<1>7. \A s \in S, n \in 0..i - 1 : step[<<s, n>>] = Round(dice, mode, s)
  OBVIOUS
<1> HIDE DEF step
<1>8. i \in Nat
  OBVIOUS
<1>9. PICK f : Iteration(f, S, 0..i, begin, step)
  BY <1>1, <1>6, <1>8, IteratesUpTo, Zenon
<1>10. Is(f)
  <2>1. f \in [0..i -> S] /\ f[0] = begin
    BY <1>9, Zenon DEF Iteration
  <2>2. ASSUME NEW n \in 0..i, n # 0 PROVE f[n] = Round(dice, mode, f[n - 1])
    <3>1. /\ n - 1 \in 0..i /\ (n - 1) + 1 \in 0..i /\ (n - 1) + 1 = n
          /\ n - 1 \in 0..i - 1
      BY <2>2
    <3>2. f[(n - 1) + 1] = step[<<f[n - 1], n - 1>>]
      BY <1>9, <3>1, Zenon DEF Iteration
    <3>3. f[n - 1] \in S
      BY <2>1, <3>1
    <3>4. step[<<f[n - 1], n - 1>>] = Round(dice, mode, f[n - 1])
      BY <1>7, <3>1, <3>3, Zenon
    <3> QED BY <3>1, <3>2, <3>4
  <2>3. \A n \in 0..i : f[n] = IF n = 0 THEN begin ELSE Round(dice, mode, f[n - 1])
    BY <2>1, <2>2, Zenon
  <2> QED BY <2>1, <2>3
<1> DEFINE g == CHOOSE h : Is(h)
<1>11. Is(g)
  BY <1>10, Zenon
<1>12. Sift(dice, mode, o, i) = g[i].order
  BY Zenon DEF Sift, Round, begin
<1> HIDE DEF g
<1>13. g[0] = begin /\ \A n \in 0..i : n # 0 => g[n] = Round(dice, mode, g[n - 1])
  <2>1. \A n \in 0..i : g[n] = IF n = 0 THEN begin ELSE Round(dice, mode, g[n - 1])
    BY <1>11, Zenon
  <2>2. 0 \in 0..i
    OBVIOUS
  <2> QED BY <2>1, <2>2, Zenon
<1> HIDE DEF Is
<1> DEFINE Going == {n \in Nat : n <= i => /\ g[n] \in S
                                           /\ \/ g[n].j = i - n
                                              \/ Settled(dice, mode, g[n].order, g[n].j)}
<1>14. 0 \in Going
  BY <1>1, <1>5, <1>13
<1>15. ASSUME NEW n \in Nat, n \in Going PROVE n + 1 \in Going
  <2> SUFFICES ASSUME n + 1 <= i
               PROVE  /\ g[n + 1] \in S
                      /\ \/ g[n + 1].j = i - (n + 1)
                         \/ Settled(dice, mode, g[n + 1].order, g[n + 1].j)
    OBVIOUS
  <2>1. g[n] \in S /\ (g[n].j = i - n \/ Settled(dice, mode, g[n].order, g[n].j))
    BY <1>15
  <2>2. g[n + 1] = Round(dice, mode, g[n])
    <3>1. n + 1 \in 0..i /\ n + 1 # 0 /\ (n + 1) - 1 = n
      OBVIOUS
    <3> QED BY <1>13, <3>1, Zenon
  <2>3. g[n + 1] \in S
    BY <1>2, <2>1, <2>2, Zenon
  <2>4. CASE Round(dice, mode, g[n]) = g[n] /\ Settled(dice, mode, g[n].order, g[n].j)
    BY <2>2, <2>3, <2>4, Zenon
  <2>5. CASE Round(dice, mode, g[n]).j = g[n].j - 1 /\ g[n].j = i - n
    <3>1. g[n + 1].j = i - (n + 1)
      BY <2>2, <2>5
    <3> QED BY <2>3, <3>1, Zenon
  <2>6. CASE Settled(dice, mode, g[n].order, g[n].j)
    <3>1. PICK s \in S : s = g[n]
      BY <2>1
    <3>2. s.j \in 1..i /\ Settled(dice, mode, s.order, s.j)
      BY <1>4, <2>6, <3>1, Zenon
    <3>3. ~(s.j > 1 /\ Precedes(mode, dice[s.order[s.j - 1]], dice[s.order[s.j]]))
      BY <3>2 DEF Settled, MayLead
    <3>4. Round(dice, mode, s) = s
      BY <3>3, Zenon DEF Round
    <3> QED BY <2>2, <2>3, <2>6, <3>1, <3>4, Zenon
  <2> QED BY <1>3, <2>1, <2>4, <2>5, <2>6, Zenon DEF Moves
<1> HIDE DEF Going
<1>16. Nat \subseteq Going
  BY <1>14, <1>15, Upward, Zenon
<1>17. g[i] \in S /\ Settled(dice, mode, g[i].order, g[i].j)
  <2>1. i \in Going /\ i <= i
    BY <1>8, <1>16
  <2>2. g[i] \in S /\ (g[i].j = i - i \/ Settled(dice, mode, g[i].order, g[i].j))
    BY <2>1, Zenon DEF Going
  <2>3. g[i].j \in 1..i
    BY <1>4, <2>2, Zenon
  <2>4. g[i].j # i - i
    BY <2>3
  <2> QED BY <2>2, <2>4, Zenon
<1> QED BY <1>4, <1>12, <1>17, SettledInOrder, Zenon

(* The outer loop puts all in order.                                       *)
LEMMA InsertionSorts ==
  ASSUME NEW N \in Nat, NEW mode, NEW dice, Len(dice) = N, AreDice(dice, N)
  PROVE  /\ InsertionSort(dice, mode) \in Arrangements(N)
         /\ InOrder(dice, mode, InsertionSort(dice, mode), N)
<1> DEFINE S == Arrangements(N)
           begin == [k \in 1..N |-> k]
           next(o, i) == Sift(dice, mode, o, i)
           step == [x \in S \X (0..N - 1) |->
                      IF InOrder(dice, mode, x[1], x[2]) THEN next(x[1], x[2] + 1) ELSE x[1]]
           Is(f) == f = [i \in 0..N |-> IF i = 0 THEN begin ELSE next(f[i - 1], i)]
<1>1. begin \in S /\ InOrder(dice, mode, begin, 0)
  BY DEF Arrangements, InOrder
<1>2. \A o \in S, n \in 0..N - 1 :
         InOrder(dice, mode, o, n) => next(o, n + 1) \in S /\ InOrder(dice, mode, next(o, n + 1), n + 1)
  <2> SUFFICES ASSUME NEW o \in S, NEW n \in 0..N - 1, InOrder(dice, mode, o, n)
               PROVE  next(o, n + 1) \in S /\ InOrder(dice, mode, next(o, n + 1), n + 1)
    OBVIOUS
  <2>1. n + 1 \in 1..N /\ (n + 1) - 1 = n
    OBVIOUS
  <2> QED BY <2>1, SiftSorts, Zenon
<1> HIDE DEF S, begin, next
<1>3. step \in StepsOn(S, 0..N - 1)
  <2>1. ASSUME NEW x \in S \X (0..N - 1)
        PROVE  (IF InOrder(dice, mode, x[1], x[2]) THEN next(x[1], x[2] + 1) ELSE x[1]) \in S
    <3>1. x[1] \in S /\ x[2] \in 0..N - 1
      OBVIOUS
    <3> QED BY <1>2, <3>1, Zenon
  <2> QED BY <2>1 DEF StepsOn
<1>4. ASSUME NEW o \in S, NEW n \in 0..N - 1, InOrder(dice, mode, o, n)
      PROVE  step[<<o, n>>] = next(o, n + 1)
  BY <1>4
<1> HIDE DEF step
<1>5. PICK f : Iteration(f, S, 0..N, begin, step)
  BY <1>1, <1>3, IteratesUpTo, Zenon
<1>6. f \in [0..N -> S] /\ f[0] = begin
  BY <1>5, Zenon DEF Iteration
<1>7. \A n \in 0..N - 1 : f[n + 1] = step[<<f[n], n>>]
  <2>1. \A n \in 0..N - 1 : n \in 0..N /\ n + 1 \in 0..N
    OBVIOUS
  <2> QED BY <1>5, <2>1, Zenon DEF Iteration
<1> DEFINE Done == {n \in Nat : n <= N => InOrder(dice, mode, f[n], n)}
<1>8. 0 \in Done
  BY <1>1, <1>6
<1>9. ASSUME NEW n \in Nat, n \in Done PROVE n + 1 \in Done
  <2> SUFFICES ASSUME n + 1 <= N PROVE InOrder(dice, mode, f[n + 1], n + 1)
    OBVIOUS
  <2>1. n \in 0..N - 1 /\ f[n] \in S /\ InOrder(dice, mode, f[n], n)
    BY <1>6, <1>9
  <2>2. f[n + 1] = next(f[n], n + 1)
    BY <1>4, <1>7, <2>1, Zenon
  <2> QED BY <1>2, <2>1, <2>2, Zenon
<1> HIDE DEF Done
<1>10. Nat \subseteq Done
  BY <1>8, <1>9, Upward, Zenon
<1>11. Is(f)
  <2>1. ASSUME NEW i \in 0..N, i # 0 PROVE f[i] = next(f[i - 1], i)
    <3>1. i - 1 \in 0..N - 1 /\ (i - 1) + 1 = i /\ i - 1 \in Nat /\ i - 1 <= N
      BY <2>1
    <3>2. f[i - 1] \in S /\ InOrder(dice, mode, f[i - 1], i - 1)
      BY <1>6, <1>10, <3>1 DEF Done
    <3>3. f[(i - 1) + 1] = next(f[i - 1], (i - 1) + 1)
      BY <1>4, <1>7, <3>1, <3>2, Zenon
    <3> QED BY <3>1, <3>3
  <2>2. \A i \in 0..N : f[i] = IF i = 0 THEN begin ELSE next(f[i - 1], i)
    BY <1>6, <2>1, Zenon
  <2> QED BY <1>6, <2>2
<1> DEFINE g == CHOOSE h : Is(h)
<1>12. Is(g)
  BY <1>11, Zenon
<1>13. InsertionSort(dice, mode) = g[N]
  BY Zenon DEF InsertionSort, next, begin
<1> HIDE DEF g
<1>14. g[0] = begin /\ \A i \in 0..N : i # 0 => g[i] = next(g[i - 1], i)
  <2>1. \A i \in 0..N : g[i] = IF i = 0 THEN begin ELSE next(g[i - 1], i)
    BY <1>12, Zenon
  <2>2. 0 \in 0..N
    OBVIOUS
  <2> QED BY <2>1, <2>2, Zenon
<1> HIDE DEF Is
<1> DEFINE Sorted == {n \in Nat : n <= N => g[n] \in S /\ InOrder(dice, mode, g[n], n)}
<1>15. 0 \in Sorted
  BY <1>1, <1>14
<1>16. ASSUME NEW n \in Nat, n \in Sorted PROVE n + 1 \in Sorted
  <2> SUFFICES ASSUME n + 1 <= N PROVE g[n + 1] \in S /\ InOrder(dice, mode, g[n + 1], n + 1)
    OBVIOUS
  <2>1. n \in 0..N - 1 /\ g[n] \in S /\ InOrder(dice, mode, g[n], n)
    BY <1>16
  <2>2. n + 1 \in 0..N /\ n + 1 # 0 /\ (n + 1) - 1 = n
    OBVIOUS
  <2>3. g[n + 1] = next(g[n], n + 1)
    BY <1>14, <2>2, Zenon
  <2> QED BY <1>2, <2>1, <2>3, Zenon
<1> HIDE DEF Sorted
<1>17. Nat \subseteq Sorted
  BY <1>15, <1>16, Upward, Zenon
<1>18. g[N] \in S /\ InOrder(dice, mode, g[N], N)
  <2>1. N \in Sorted /\ N <= N
    BY <1>17
  <2> QED BY <2>1, Zenon DEF Sorted
<1> QED BY <1>13, <1>18, Zenon DEF S
-----------------------------------------------------------------------------
(* What applySelection keeps.                                              *)

(* The extreme of a set is the member that beats them all.                 *)
LEMMA ExtremeIs ==
  ASSUME NEW S, S \subseteq Int, NEW most \in BOOLEAN, NEW best \in S,
         \A m \in S : Beats(most, best, m)
  PROVE  Extreme(S, most) = best
<1> DEFINE Top(n) == \A m \in S : IF most THEN m <= n ELSE n <= m
<1>1. Top(best)
  BY Zenon DEF Beats
<1>2. ASSUME NEW n \in S, Top(n) PROVE n = best
  <2>1. /\ IF most THEN n <= best ELSE best <= n
        /\ IF most THEN best <= n ELSE n <= best
    BY <1>1, <1>2, Zenon
  <2>2. n \in Int /\ best \in Int
    BY Zenon
  <2> QED BY <2>1, <2>2
<1> HIDE DEF Top
<1>3. (CHOOSE n \in S : Top(n)) = best
  BY <1>1, <1>2, Zenon
<1> QED BY <1>3, Zenon DEF Extreme, Top

(* Dice that a threshold tells from the others have the extreme sum of     *)
(* all as many dice.                                                       *)
LEMMA BestIsExtreme ==
  ASSUME NEW N \in Nat, NEW dice, Len(dice) = N, AreDice(dice, N), NEW most \in BOOLEAN,
         NEW best \in SUBSET (1..N), NEW t \in Int,
         \A k \in best : Beats(most, dice[k], t),
         \A k \in (1..N) \ best : Beats(most, t, dice[k])
  PROVE  Extreme(Yields(dice, Cardinality(best)), most) = SumOver(dice, best, N)
<1> DEFINE choices == {S \in SUBSET (1..Len(dice)) : Cardinality(S) = Cardinality(best)}
           sums == {SumOver(dice, S, Len(dice)) : S \in choices}
<1>1. ASSUME NEW S \in choices
      PROVE  SumOver(dice, S, N) \in Int /\ Beats(most, SumOver(dice, best, N), SumOver(dice, S, N))
  <2>1. S \in SUBSET (1..N) /\ Cardinality(S) = Cardinality(best)
    BY <1>1
  <2>2. Summable(dice, S)
    BY <2>1 DEF Summable, AreDice
  <2>3. SumOver(dice, S, N) \in Int
    BY <2>2, SumSteps, Zenon
  <2>4. \A k \in 1..N : dice[k] \in Int
    BY DEF AreDice
  <2>5. Beats(most, SumOver(dice, best, N), SumOver(dice, S, N))
    BY <2>1, <2>4, BestSelection, Zenon
  <2> QED BY <2>3, <2>5
<1>2. best \in choices
  BY Zenon
<1> HIDE DEF choices
<1>3. sums \subseteq Int /\ SumOver(dice, best, N) \in sums
  BY <1>1, <1>2, Zenon
<1>4. \A m \in sums : Beats(most, SumOver(dice, best, N), m)
  BY <1>1, Zenon
<1> HIDE DEF sums
<1>5. Extreme(sums, most) = SumOver(dice, best, N)
  BY <1>3, <1>4, ExtremeIs, Zenon
<1> QED BY <1>5, Zenon DEF Yields, sums, choices

(* As many dice stand at a stretch of places as the stretch is long.       *)
LEMMA StretchSize ==
  ASSUME NEW N \in Nat, NEW o \in Arrangements(N), NEW a \in 1..N + 1, NEW b \in 0..N, a <= b + 1
  PROVE  Cardinality({o[p] : p \in a..b}) = b - a + 1
<1> DEFINE f == [p \in a..b |-> o[p]]
           T == {o[p] : p \in a..b}
<1>1. \A p, q \in a..b : o[p] = o[q] => p = q
  BY SMTT(30) DEF Arrangements
<1>2. f \in Bijection(a..b, T)
  BY <1>1, Zenon DEF Bijection, Injection, Surjection, IsInjective
<1>3. IsFiniteSet(a..b) /\ Cardinality(a..b) = b - a + 1
  <2>1. a \in Int /\ b \in Int
    OBVIOUS
  <2>2. IsFiniteSet(a..b) /\ Cardinality(a..b) = IF a > b THEN 0 ELSE b - a + 1
    BY <2>1, FS_Interval, Zenon
  <2> QED BY <2>2
<1> HIDE DEF f, T
<1>4. ExistsBijection(a..b, T)
  BY <1>2, Zenon DEF ExistsBijection
<1>5. Cardinality(T) = Cardinality(a..b)
  BY <1>3, <1>4, FS_Bijection, Zenon
<1> QED BY <1>3, <1>5, Zenon DEF T

(* The selections, and the most or the least that those of n dice which a  *)
(* selection keeps can yield.                                              *)
Selections == {"kh", "kl", "dh", "dl"}
BestYield(dice, mode, amount, n) ==
    IF mode \in {"kh", "kl"} THEN Extreme(Yields(dice, Least(amount, n)), mode = "kh")
    ELSE Extreme(Yields(dice, n - Least(amount, n)), mode = "dl")

(* What applySelection keeps of its dice is the most, or the least, that   *)
(* as many of them can yield, whatever the dice and however many are kept. *)
THEOREM SelectionIsExtreme ==
  ASSUME NEW N \in Nat \ {0}, NEW dice, Len(dice) = N, AreDice(dice, N),
         NEW mode \in Selections, NEW amount \in Nat
  PROVE  /\ applySelection(dice, mode, amount) \in SUBSET (1..N)
         /\ SumOver(dice, applySelection(dice, mode, amount), N) = BestYield(dice, mode, amount, N)
<1> DEFINE o == InsertionSort(dice, mode)
           high == mode \in {"kh", "dh"}
           keep == mode \in {"kh", "kl"}
           k == Least(amount, N)
           front == {o[p] : p \in 1..k}
           back == {o[p] : p \in k + 1..N}
<1>1. o \in Arrangements(N) /\ InOrder(dice, mode, o, N)
  BY InsertionSorts, Zenon
<1>2. k \in 0..N /\ (\A p \in 1..N : p <= amount <=> p <= k)
  BY DEF Least
<1>3. applySelection(dice, mode, amount) = IF keep THEN front ELSE back
  <2>1. applySelection(dice, mode, amount) =
          {o[p] : p \in {p \in 1..N : IF keep THEN p <= amount ELSE p > amount}}
    BY Zenon DEF applySelection
  <2>2. {p \in 1..N : p <= amount} = 1..k /\ {p \in 1..N : p > amount} = k + 1..N
    <3>1. \A p \in 1..N : (p <= amount <=> p \in 1..k) /\ (p > amount <=> p \in k + 1..N)
      BY DEF Least
    <3>2. 1..k \subseteq 1..N /\ k + 1..N \subseteq 1..N
      BY DEF Least
    <3> HIDE DEF k
    <3> QED BY <3>1, <3>2, Zenon
  <2> HIDE DEF k, o
  <2> QED BY <2>1, <2>2, Zenon
<1> HIDE DEF k, o
<1>4. /\ \A p \in 1..N : o[p] \in 1..N
      /\ \A p, q \in 1..N : o[p] = o[q] => p = q
      /\ \A a \in 1..N : \E p \in 1..N : o[p] = a
  BY <1>1, Zenon DEF Arrangements
<1>5. \A p \in 1..N : (p \in 1..k \/ p \in k + 1..N) /\ ~(p \in 1..k /\ p \in k + 1..N)
  BY <1>2
<1>6. 1..k \subseteq 1..N /\ k + 1..N \subseteq 1..N
  BY <1>2
<1>7. front \in SUBSET (1..N) /\ back \in SUBSET (1..N) /\ (1..N) \ front = back /\ (1..N) \ back = front
  <2>1. front \in SUBSET (1..N) /\ back \in SUBSET (1..N)
    <3>1. \A p \in 1..k : o[p] \in 1..N
      BY <1>4, <1>6, Zenon
    <3>2. \A p \in k + 1..N : o[p] \in 1..N
      BY <1>4, <1>6, Zenon
    <3> QED BY <3>1, <3>2, Zenon
  <2>2. ASSUME NEW a \in 1..N PROVE (a \in front \/ a \in back) /\ ~(a \in front /\ a \in back)
    <3>1. PICK p \in 1..N : o[p] = a
      BY <1>4, Zenon
    <3>2. (a \in front <=> p \in 1..k) /\ (a \in back <=> p \in k + 1..N)
      <4>1. ASSUME NEW D, D \subseteq 1..N PROVE a \in {o[q] : q \in D} <=> p \in D
        <5>1. ASSUME NEW q \in D, o[q] = a PROVE q = p
          <6>1. q \in 1..N /\ o[q] = o[p]
            BY <3>1, <4>1, <5>1, Zenon
          <6> QED BY <1>4, <6>1, Zenon
        <5>2. (\E q \in D : o[q] = a) <=> p \in D
          BY <3>1, <5>1, Zenon
        <5> QED BY <5>2, Zenon
      <4> QED BY <1>6, <4>1, Zenon
    <3> HIDE DEF front, back
    <3> QED BY <1>5, <3>2, Zenon
  <2> HIDE DEF front, back
  <2>3. (1..N) \ front = back
    BY <2>1, <2>2, Zenon
  <2>4. (1..N) \ back = front
    BY <2>1, <2>2, Zenon
  <2> QED BY <2>1, <2>3, <2>4, Zenon
<1>8. Cardinality(front) = k /\ Cardinality(back) = N - k
  <2>1. 1 \in 1..N + 1 /\ k \in 0..N /\ 1 <= k + 1 /\ k + 1 \in 1..N + 1 /\ N \in 0..N /\ k + 1 <= N + 1
    BY <1>2
  <2>2. Cardinality(front) = k - 1 + 1 /\ Cardinality(back) = N - (k + 1) + 1
    BY <1>1, <2>1, StretchSize, ZenonT(30)
  <2> HIDE DEF front, back
  <2> QED BY <1>2, <2>2
<1> DEFINE m == IF k = 0 THEN 1 ELSE k
           t == dice[o[m]]
<1>9. m \in 1..N /\ (\A p \in 1..k : p < m \/ p = m) /\ (\A p \in k + 1..N : m < p \/ p = m)
  BY <1>2
<1>10. t \in Int
  <2> HIDE DEF m
  <2> QED BY <1>4, <1>9, Zenon DEF AreDice
<1>11. ASSUME NEW a \in 1..N, NEW b \in 1..N, MayLead(dice, mode, a, b)
       PROVE  Beats(high, dice[a], dice[b]) /\ Beats(~high, dice[b], dice[a])
  <2>1. dice[a] \in Int /\ dice[b] \in Int
    BY DEF AreDice
  <2> QED BY <1>11, <2>1 DEF MayLead, Precedes, Beats
<1>12. \A x \in Int : Beats(high, x, x) /\ Beats(~high, x, x)
  BY DEF Beats
<1> HIDE DEF m
<1>13. \A a \in front : Beats(high, dice[a], t) /\ Beats(~high, t, dice[a])
  <2> SUFFICES ASSUME NEW p \in 1..k PROVE Beats(high, dice[o[p]], t) /\ Beats(~high, t, dice[o[p]])
    BY Zenon
  <2>1. p \in 1..N /\ (p < m \/ p = m)
    BY <1>6, <1>9, Zenon
  <2>2. CASE p < m
    <3>1. MayLead(dice, mode, o[p], o[m])
      BY <1>1, <1>9, <2>1, <2>2, Zenon DEF InOrder
    <3> QED BY <1>4, <1>9, <1>11, <2>1, <3>1, Zenon
  <2>3. CASE p = m
    BY <1>10, <1>12, <2>3, Zenon
  <2> QED BY <2>1, <2>2, <2>3, Zenon
<1>14. \A a \in back : Beats(high, t, dice[a]) /\ Beats(~high, dice[a], t)
  <2> SUFFICES ASSUME NEW p \in k + 1..N
               PROVE  Beats(high, t, dice[o[p]]) /\ Beats(~high, dice[o[p]], t)
    BY Zenon
  <2>1. p \in 1..N /\ (m < p \/ p = m)
    BY <1>6, <1>9, Zenon
  <2>2. CASE m < p
    <3>1. MayLead(dice, mode, o[m], o[p])
      BY <1>1, <1>9, <2>1, <2>2, Zenon DEF InOrder
    <3> QED BY <1>4, <1>9, <1>11, <2>1, <3>1, Zenon
  <2>3. CASE p = m
    BY <1>10, <1>12, <2>3, Zenon
  <2> QED BY <2>1, <2>2, <2>3, Zenon
<1> HIDE DEF front, back, t
<1>15. high \in BOOLEAN /\ (~high) \in BOOLEAN
  OBVIOUS
<1>16. Extreme(Yields(dice, k), high) = SumOver(dice, front, N)
  <2>1. Extreme(Yields(dice, Cardinality(front)), high) = SumOver(dice, front, N)
    <3> HIDE DEF high
    <3> QED BY <1>7, <1>10, <1>13, <1>14, <1>15, BestIsExtreme, Zenon
  <2> QED BY <1>8, <2>1, Zenon
<1>17. Extreme(Yields(dice, N - k), ~high) = SumOver(dice, back, N)
  <2> DEFINE low == ~high
  <2>1. \A a \in back : Beats(low, dice[a], t)
    BY <1>14, Zenon
  <2>2. \A a \in (1..N) \ back : Beats(low, t, dice[a])
    BY <1>7, <1>13, Zenon
  <2>3. low \in BOOLEAN
    OBVIOUS
  <2>4. Extreme(Yields(dice, Cardinality(back)), low) = SumOver(dice, back, N)
    <3> HIDE DEF low, high
    <3> QED BY <1>7, <1>10, <2>1, <2>2, <2>3, BestIsExtreme, ZenonT(30)
  <2> QED BY <1>8, <2>4, Zenon
<1>18. CASE keep
  <2>1. high = (mode = "kh")
    BY <1>18 DEF Selections
  <2> HIDE DEF high
  <2> QED BY <1>3, <1>7, <1>16, <1>18, <2>1, Zenon DEF k, BestYield
<1>19. CASE ~keep
  <2>1. (~high) = (mode = "dl")
    BY <1>19 DEF Selections
  <2> HIDE DEF high
  <2> QED BY <1>3, <1>7, <1>17, <1>19, <2>1, Zenon DEF k, BestYield
<1> QED BY <1>18, <1>19, Zenon
-----------------------------------------------------------------------------
(* evaluate.                                                               *)

(* The pieces that RulesAssumption admits.                                 *)
IsConstant(piece) == piece.kind = "constant" /\ piece.value \in Int
IsDice(piece) ==
    /\ piece.kind = "dice" /\ piece.count \in Nat /\ piece.faces \in Nat /\ piece.amount \in Nat
    /\ piece.mode \in {"", "kh", "kl", "dh", "dl"}
IsPiece(piece) == piece.kind = "malformed" \/ IsConstant(piece) \/ IsDice(piece)
Affordable(piece, budget) == Sound(piece) /\ Count(piece) <= budget

(* What evaluate makes of a piece that it does not refuse.                 *)
Evaluated(piece, budget, source) ==
    [ok |-> TRUE, subtotal |-> Worth(piece, SubSeq(source, 1, Count(piece))),
     budget |-> budget - Count(piece),
     source |-> SubSeq(source, Count(piece) + 1, Len(source))]

(* The dice that evaluate takes from the source.                           *)
LEMMA DiceTaken ==
  ASSUME NEW source \in Seq(Int), NEW n \in 0..Len(source)
  PROVE  /\ Len(SubSeq(source, 1, n)) = n
         /\ AreDice(SubSeq(source, 1, n), n)
         /\ SubSeq(source, 1, Len(source)) = source
<1>1. SubSeq(source, 1, n) \in Seq(Int) /\ Len(SubSeq(source, 1, n)) = n
  OBVIOUS
<1>2. AreDice(SubSeq(source, 1, n), n)
  BY <1>1 DEF AreDice
<1>3. SubSeq(source, 1, Len(source)) = source
  <2> DEFINE s == SubSeq(source, 1, Len(source))
  <2>1. s \in Seq(Int) /\ Len(s) = Len(source) /\ \A k \in 1..Len(source) : s[k] = source[k]
    OBVIOUS
  <2> HIDE DEF s
  <2>2. s = source
    BY <2>1, SeqEqual, SMTT(30)
  <2> QED BY <2>2 DEF s
<1> QED BY <1>1, <1>2, <1>3

(* evaluate refuses what is unsound or too expensive; a constant is worth  *)
(* itself, and dice the extreme of what as many as are kept can yield.     *)
LEMMA EvaluateIs ==
  ASSUME NEW piece, IsPiece(piece), NEW source \in Seq(Int)
  PROVE  /\ Count(piece) \in Nat
         /\ evaluate(piece, Len(source), source) =
               IF Affordable(piece, Len(source)) THEN Evaluated(piece, Len(source), source)
               ELSE Refused
         /\ Affordable(piece, Len(source)) =>
               Worth(piece, SubSeq(source, 1, Count(piece))) \in Int
<1> DEFINE budget == Len(source)
<1>0. budget \in Nat
  OBVIOUS
<1>1. CASE piece.kind = "malformed"
  BY <1>1 DEF evaluate, Affordable, Sound, Count
<1>2. CASE IsConstant(piece)
  <2>1. Count(piece) = 0 /\ Worth(piece, SubSeq(source, 1, Count(piece))) = piece.value
    BY <1>2 DEF IsConstant, Count, Worth
  <2>2. Affordable(piece, budget)
    BY <1>0, <1>2, <2>1 DEF IsConstant, Affordable, Sound
  <2>3. SubSeq(source, Count(piece) + 1, Len(source)) = source /\ budget - Count(piece) = budget
    BY <1>0, <2>1, DiceTaken
  <2>4. evaluate(piece, budget, source) =
          [ok |-> TRUE, subtotal |-> piece.value, budget |-> budget, source |-> source]
    BY <1>2 DEF IsConstant, evaluate
  <2>5. evaluate(piece, budget, source) = Evaluated(piece, budget, source)
    BY <2>1, <2>3, <2>4, Zenon DEF Evaluated
  <2> QED BY <1>2, <2>1, <2>2, <2>5 DEF IsConstant
<1>3. CASE IsDice(piece)
  <2>1. Count(piece) = piece.count /\ piece.count \in Nat
    BY <1>3, Zenon DEF IsDice, Count
  <2>2. Affordable(piece, budget)
          <=> ~(piece.faces \notin 2..MaxFaces \/ piece.count < 1 \/ piece.count > budget)
    <3>1. Sound(piece) <=> piece.faces \in 2..MaxFaces /\ piece.count >= 1
      BY <1>3, Zenon DEF IsDice, Sound
    <3>2. (piece.count >= 1 <=> ~(piece.count < 1)) /\ (piece.count <= budget <=> ~(piece.count > budget))
      BY <1>0, <2>1
    <3> HIDE DEF budget
    <3> QED BY <2>1, <3>1, <3>2, Zenon DEF Affordable
  <2> DEFINE dice == SubSeq(source, 1, piece.count)
             kept == IF piece.mode = "" THEN 1..piece.count
                     ELSE applySelection(dice, piece.mode, piece.amount)
             result == [ok |-> TRUE, subtotal |-> SumOver(dice, kept, piece.count),
                        budget |-> budget - piece.count,
                        source |-> SubSeq(source, piece.count + 1, Len(source))]
  <2>3. evaluate(piece, budget, source) = IF Affordable(piece, budget) THEN result ELSE Refused
    <3> HIDE DEF kept
    <3>1. evaluate(piece, budget, source) =
            IF piece.faces \notin 2..MaxFaces \/ piece.count < 1 \/ piece.count > budget
            THEN Refused ELSE result
      BY <1>3, Zenon DEF IsDice, evaluate, kept
    <3> HIDE DEF result, budget
    <3> QED BY <2>2, <3>1, Zenon
  <2>4. ASSUME Affordable(piece, budget)
        PROVE  /\ SumOver(dice, kept, piece.count) = Worth(piece, dice)
               /\ SumOver(dice, kept, piece.count) \in Int
    <3>1. piece.count \in Nat \ {0} /\ piece.count \in 0..Len(source)
      BY <2>1, <2>2, <2>4
    <3>2. Len(dice) = piece.count /\ AreDice(dice, piece.count)
      BY <3>1, DiceTaken, Zenon
    <3> HIDE DEF dice
    <3>3. CASE piece.mode = ""
      <4>1. kept = 1..piece.count
        BY <3>3, Zenon
      <4>2. Worth(piece, dice) = SumOver(dice, 1..piece.count, piece.count)
        BY <1>3, <3>2, <3>3, Zenon DEF IsDice, Worth
      <4>3. Summable(dice, kept)
        BY <3>2, <4>1, Zenon DEF Summable, AreDice
      <4> HIDE DEF kept
      <4> QED BY <2>1, <4>1, <4>2, <4>3, SumSteps, Zenon
    <3>4. CASE piece.mode # ""
      <4>1. kept = applySelection(dice, piece.mode, piece.amount)
        BY <3>4, Zenon
      <4>2. piece.mode \in Selections /\ piece.amount \in Nat
        BY <1>3, <3>4, Zenon DEF IsDice, Selections
      <4> DEFINE n == piece.count
                 k == Least(piece.amount, n)
                 e == IF piece.mode \in {"kh", "kl"}
                      THEN Extreme(Yields(dice, k), piece.mode = "kh")
                      ELSE Extreme(Yields(dice, n - k), piece.mode = "dl")
      <4>3. kept \in SUBSET (1..piece.count) /\ SumOver(dice, kept, piece.count) = e
        <5> HIDE DEF kept
        <5>1. kept \in SUBSET (1..n) /\ SumOver(dice, kept, n) = BestYield(dice, piece.mode, piece.amount, n)
          BY <3>1, <3>2, <4>1, <4>2, SelectionIsExtreme, Zenon
        <5> QED BY <5>1, Zenon DEF BestYield
      <4>4. Worth(piece, dice) = e
        <5> HIDE DEF k
        <5>1. Worth(piece, dice) =
                CASE piece.mode = "" -> SumOver(dice, 1..Len(dice), Len(dice))
                  [] piece.mode \in {"kh", "kl"} -> Extreme(Yields(dice, k), piece.mode = "kh")
                  [] OTHER -> Extreme(Yields(dice, Len(dice) - k), piece.mode = "dl")
          BY <1>3, <3>2, Zenon DEF IsDice, Worth, k
        <5> QED BY <3>2, <4>2, <5>1, Zenon DEF Selections
      <4>5. Summable(dice, kept)
        <5> HIDE DEF kept
        <5> QED BY <3>2, <4>3 DEF Summable, AreDice
      <4> HIDE DEF kept, e
      <4> QED BY <2>1, <4>3, <4>4, <4>5, SumSteps, Zenon
    <3> QED BY <3>3, <3>4, Zenon
  <2> HIDE DEF kept
  <2>5. Affordable(piece, budget) => result = Evaluated(piece, budget, source)
    BY <2>1, <2>4, Zenon DEF Evaluated
  <2>6. Affordable(piece, budget) => Worth(piece, SubSeq(source, 1, Count(piece))) \in Int
    BY <2>1, <2>4, Zenon
  <2> HIDE DEF result
  <2> QED BY <2>1, <2>3, <2>5, <2>6, Zenon
<1> QED BY <1>1, <1>2, <1>3, Zenon DEF IsPiece
-----------------------------------------------------------------------------
(* The loop of Roll.                                                       *)

(* The tokens of an expression: no two pieces stand side by side.          *)
IsSign(token) == token.kind = "sign"
Tokenized(tokens) ==
    /\ Len(tokens) \in Nat
    /\ \A i \in 1..Len(tokens) : IsSign(tokens[i]) \/ IsPiece(tokens[i])
    /\ \A i \in 1..Len(tokens) - 1 : IsSign(tokens[i]) \/ IsSign(tokens[i + 1])

(* The gains of the pieces, and the total of those up to n.                *)
Gain(tokens, source, i) ==
    IF Term(tokens, source, i) \in Int THEN Term(tokens, source, i) ELSE 0
Gains(tokens, source) == [i \in Places(tokens) |-> Gain(tokens, source, i)]
TotalUpTo(tokens, source, n) == SumOver(Gains(tokens, source), Places(tokens), n)

(* Every other place is one for a piece.                                   *)
LEMMA PlacesAlternate ==
  ASSUME NEW tokens, Tokenized(tokens)
  PROVE  /\ Len(tokens) > 0 => (1 \in Places(tokens) <=> ~IsSign(tokens[1]))
         /\ \A i \in 1..Len(tokens) - 1 : i + 1 \in Places(tokens) <=> i \notin Places(tokens)
         /\ Places(tokens) \subseteq 1..Len(tokens)
<1> DEFINE L == Len(tokens)
           f == First(tokens)
<1>1. L \in Nat /\ f \in {1, 2} /\ (L > 0 => (f = 1 <=> ~IsSign(tokens[1])))
  BY DEF Tokenized, First, IsSign
<1>2. Places(tokens) = {i \in f..L : (i - f) % 2 = 0}
  BY DEF Places
<1> HIDE DEF L, f
<1>3. L > 0 => (1 \in Places(tokens) <=> f = 1)
  BY <1>1, <1>2
<1>4. Places(tokens) \subseteq 1..L
  BY <1>1, <1>2
<1>5. ASSUME NEW i \in 1..L - 1 PROVE i + 1 \in Places(tokens) <=> i \notin Places(tokens)
  <2>1. CASE f = 1
    BY <1>1, <1>2, <1>5, <2>1
  <2>2. CASE f = 2
    BY <1>1, <1>2, <1>5, <2>2
  <2> QED BY <1>1, <2>1, <2>2
<1> QED BY <1>1, <1>3, <1>4, <1>5 DEF L

(* The dice and the gains can be added up, and the dice are never fewer    *)
(* further on.                                                             *)
LEMMA CountsAddUp ==
  ASSUME NEW tokens, Tokenized(tokens)
  PROVE  /\ DiceUpTo(tokens, 0) = 0
         /\ \A n \in Nat :
               /\ DiceUpTo(tokens, n) \in Nat
               /\ n + 1 \in Places(tokens) =>
                     /\ Count(tokens[n + 1]) \in Nat
                     /\ DiceUpTo(tokens, n + 1) = DiceUpTo(tokens, n) + Count(tokens[n + 1])
               /\ n + 1 \notin Places(tokens) => DiceUpTo(tokens, n + 1) = DiceUpTo(tokens, n)
               /\ DiceUpTo(tokens, n) <= DiceUpTo(tokens, n + 1)
<1> DEFINE c == [i \in Places(tokens) |-> Count(tokens[i])]
           at == Places(tokens)
           S(n) == DiceUpTo(tokens, n)
<1>1. \A k \in at : c[k] = Count(tokens[k]) /\ Count(tokens[k]) \in Nat
  <2>1. ASSUME NEW k \in at PROVE c[k] = Count(tokens[k]) /\ Count(tokens[k]) \in Nat
    <3>1. k \in 1..Len(tokens)
      BY PlacesAlternate, Zenon
    <3>2. IsSign(tokens[k]) \/ IsPiece(tokens[k])
      BY <3>1, Zenon DEF Tokenized
    <3>3. Count(tokens[k]) \in Nat
      BY <3>2, Zenon DEF IsSign, IsPiece, IsConstant, IsDice, Count
    <3> QED BY <3>3
  <2> QED BY <2>1, Zenon
<1>2. Summable(c, at)
  <2> HIDE DEF c, at
  <2> QED BY <1>1 DEF Summable
<1>3. /\ S(0) = 0
      /\ \A n \in Nat : S(n) \in Int /\ Addend(c, at, n + 1) \in Int
                        /\ S(n + 1) = S(n) + Addend(c, at, n + 1)
  BY <1>2, SumSteps, Zenon DEF DiceUpTo
<1>4. \A n \in Nat : /\ n + 1 \in at => Addend(c, at, n + 1) = Count(tokens[n + 1])
                     /\ n + 1 \notin at => Addend(c, at, n + 1) = 0
  BY <1>1, Zenon DEF Addend
<1> HIDE DEF c, at, S
<1>5. \A n \in Nat : Addend(c, at, n + 1) \in Nat
  BY <1>1, <1>4
<1> DEFINE Natural == {n \in Nat : S(n) \in Nat}
<1>6. 0 \in Natural
  BY <1>3
<1>7. ASSUME NEW n \in Nat, n \in Natural PROVE n + 1 \in Natural
  BY <1>3, <1>5, <1>7
<1> HIDE DEF Natural
<1>8. Nat \subseteq Natural
  BY <1>6, <1>7, Upward, Zenon
<1>9. ASSUME NEW n \in Nat
      PROVE  /\ S(n) \in Nat
             /\ n + 1 \in at =>
                   Count(tokens[n + 1]) \in Nat /\ S(n + 1) = S(n) + Count(tokens[n + 1])
             /\ n + 1 \notin at => S(n + 1) = S(n)
             /\ S(n) <= S(n + 1)
  <2>1. S(n) \in Nat
    BY <1>8, Zenon DEF Natural
  <2>2. S(n + 1) = S(n) + Addend(c, at, n + 1) /\ Addend(c, at, n + 1) \in Nat
    BY <1>3, <1>5, Zenon
  <2> QED BY <1>1, <1>4, <2>1, <2>2
<1> QED BY <1>3, <1>9, Zenon DEF S, at

(* The dice up to a place are no more than those up to a later one.        *)
LEMMA CountsGrow ==
  ASSUME NEW tokens, Tokenized(tokens), NEW m \in Nat, NEW n \in Nat, m <= n
  PROVE  DiceUpTo(tokens, m) <= DiceUpTo(tokens, n)
<1> DEFINE S(k) == DiceUpTo(tokens, k)
           Grown == {k \in Nat : m <= k => S(m) <= S(k)}
<1>1. \A k \in Nat : S(k) \in Nat /\ S(k) <= S(k + 1)
  BY CountsAddUp, Zenon
<1> HIDE DEF S
<1>2. 0 \in Grown
  BY <1>1
<1>3. ASSUME NEW k \in Nat, k \in Grown PROVE k + 1 \in Grown
  <2>1. S(k) <= S(k + 1) /\ S(m) \in Nat /\ S(k) \in Nat /\ S(k + 1) \in Nat
    BY <1>1
  <2>2. CASE m <= k
    BY <1>3, <2>1, <2>2
  <2>3. CASE ~(m <= k)
    BY <2>1, <2>3
  <2> QED BY <2>2, <2>3
<1> HIDE DEF Grown
<1>4. Nat \subseteq Grown
  BY <1>2, <1>3, Upward, Zenon
<1>5. n \in Grown
  BY <1>4, Zenon
<1> QED BY <1>5, Zenon DEF Grown, S

(* The total of the gains grows by each of them.                           *)
LEMMA GainsAddUp ==
  ASSUME NEW tokens, NEW source
  PROVE  /\ TotalUpTo(tokens, source, 0) = 0
         /\ \A n \in Nat :
               /\ TotalUpTo(tokens, source, n) \in Int
               /\ n + 1 \in Places(tokens) =>
                     TotalUpTo(tokens, source, n + 1) =
                        TotalUpTo(tokens, source, n) + Gain(tokens, source, n + 1)
               /\ n + 1 \notin Places(tokens) =>
                     TotalUpTo(tokens, source, n + 1) = TotalUpTo(tokens, source, n)
<1> DEFINE g == Gains(tokens, source)
           at == Places(tokens)
           T(n) == TotalUpTo(tokens, source, n)
<1>1. \A k \in at : g[k] = Gain(tokens, source, k) /\ Gain(tokens, source, k) \in Int
  <2>1. \A k : Gain(tokens, source, k) \in Int
    BY DEF Gain
  <2> QED BY <2>1, Zenon DEF Gains
<1>2. Summable(g, at)
  <2> HIDE DEF g, at
  <2> QED BY <1>1 DEF Summable
<1>3. /\ T(0) = 0
      /\ \A n \in Nat : T(n) \in Int /\ T(n + 1) = T(n) + Addend(g, at, n + 1)
  BY <1>2, SumSteps, Zenon DEF TotalUpTo
<1>4. \A n \in Nat : /\ n + 1 \in at => Addend(g, at, n + 1) = Gain(tokens, source, n + 1)
                     /\ n + 1 \notin at => Addend(g, at, n + 1) = 0
  BY <1>1, Zenon DEF Addend
<1> HIDE DEF g, at, T
<1>5. \A n \in Nat : /\ T(n) \in Int
                     /\ n + 1 \in at => T(n + 1) = T(n) + Gain(tokens, source, n + 1)
                     /\ n + 1 \notin at => T(n + 1) = T(n)
  BY <1>3, <1>4
<1> QED BY <1>3, <1>5, Zenon DEF T, at

(* What is left of the source after some dice, and after some more.        *)
LEMMA SourceLeft ==
  ASSUME NEW source \in Seq(Int), NEW M, Len(source) = M, NEW d \in 0..M, NEW c \in 0..(M - d)
  PROVE  /\ SubSeq(source, d + 1, M) \in Seq(Int) /\ Len(SubSeq(source, d + 1, M)) = M - d
         /\ SubSeq(SubSeq(source, d + 1, M), 1, c) = SubSeq(source, d + 1, d + c)
         /\ SubSeq(SubSeq(source, d + 1, M), c + 1, M - d) = SubSeq(source, d + c + 1, M)
<1> DEFINE rest == SubSeq(source, d + 1, M)
           a == SubSeq(rest, 1, c)
           b == SubSeq(source, d + 1, d + c)
           x == SubSeq(rest, c + 1, M - d)
           y == SubSeq(source, d + c + 1, M)
<1>0. M \in Nat /\ d \in Nat /\ c \in Nat /\ d <= M /\ d + c <= M
  OBVIOUS
<1>1. rest \in Seq(Int) /\ Len(rest) = M - d /\ \A k \in 1..(M - d) : rest[k] = source[d + k]
  BY <1>0
<1>2. b \in Seq(Int) /\ Len(b) = c /\ \A k \in 1..c : b[k] = source[d + k]
  BY <1>0
<1>3. y \in Seq(Int) /\ Len(y) = M - d - c /\ \A k \in 1..(M - d - c) : y[k] = source[d + c + k]
  BY <1>0
<1> HIDE DEF rest, b, y
<1>4. a \in Seq(Int) /\ Len(a) = c /\ \A k \in 1..c : a[k] = rest[k]
  BY <1>0, <1>1, SMTT(30)
<1>5. x \in Seq(Int) /\ Len(x) = M - d - c /\ \A k \in 1..(M - d - c) : x[k] = rest[c + k]
  BY <1>0, <1>1
<1> HIDE DEF a, x
<1>6. a = b
  <2>1. \A k \in 1..c : a[k] = b[k]
    <3>1. \A k \in 1..c : k \in 1..(M - d)
      BY <1>0
    <3> QED BY <1>1, <1>2, <1>4, <3>1, Zenon
  <2> QED BY <1>2, <1>4, <2>1, SeqEqual, Zenon
<1>7. x = y
  <2>1. \A k \in 1..(M - d - c) : c + k \in 1..(M - d) /\ d + (c + k) = d + c + k
    BY <1>0
  <2>2. \A k \in 1..(M - d - c) : x[k] = y[k]
    BY <1>1, <1>3, <1>5, <2>1, ZenonT(30)
  <2> QED BY <1>3, <1>5, <2>2, SeqEqual, Zenon
<1> QED BY <1>1, <1>6, <1>7, Zenon DEF a, b, x, y, rest

(* A piece that is sound and that the budget pays for, and the tokens up   *)
(* to i when every sign after the first follows one.                       *)
Paid(tokens, k) == Sound(tokens[k]) /\ DiceUpTo(tokens, k) <= MaxDice
Good(tokens, i) ==
    \A k \in 2..i : IsSign(tokens[k]) => ~IsSign(tokens[k - 1]) /\ Paid(tokens, k - 1)

(* Then the pieces are where they have their places.                       *)
LEMMA GoodAlternates ==
  ASSUME NEW tokens, Tokenized(tokens), NEW i \in 0..Len(tokens), Good(tokens, i)
  PROVE  \A k \in 1..i : k \in Places(tokens) <=> ~IsSign(tokens[k])
<1> DEFINE at == Places(tokens)
           sign(k) == IsSign(tokens[k])
           Placed == {k \in Nat : k \in 1..i => (k \in at <=> ~sign(k))}
<1>0. Len(tokens) \in Nat
  BY DEF Tokenized
<1>1. /\ Len(tokens) > 0 => (1 \in at <=> ~sign(1))
      /\ \A k \in 1..Len(tokens) - 1 : k + 1 \in at <=> k \notin at
  BY PlacesAlternate, Zenon
<1>2. \A k \in 2..i : sign(k) => ~sign(k - 1)
  BY Zenon DEF Good
<1>3. \A k \in 1..Len(tokens) - 1 : sign(k) \/ sign(k + 1)
  BY Zenon DEF Tokenized
<1> HIDE DEF at, sign
<1>4. 0 \in Placed
  OBVIOUS
<1>5. ASSUME NEW k \in Nat, k \in Placed PROVE k + 1 \in Placed
  <2> SUFFICES ASSUME k + 1 \in 1..i PROVE k + 1 \in at <=> ~sign(k + 1)
    OBVIOUS
  <2>1. CASE k = 0
    BY <1>0, <1>1, <2>1
  <2>2. CASE k # 0
    <3>1. k \in 1..i /\ k \in 1..Len(tokens) - 1 /\ k + 1 \in 2..i /\ k + 1 - 1 = k
      BY <1>0, <2>2
    <3>2. k \in at <=> ~sign(k)
      BY <1>5, <3>1, Zenon
    <3>3. sign(k + 1) <=> ~sign(k)
      BY <1>2, <1>3, <3>1
    <3> QED BY <1>1, <3>1, <3>2, <3>3, Zenon
  <2> QED BY <2>1, <2>2
<1> HIDE DEF Placed
<1>6. Nat \subseteq Placed
  BY <1>4, <1>5, Upward, Zenon
<1>7. \A k \in 1..i : k \in Nat
  OBVIOUS
<1> QED BY <1>6, <1>7, Zenon DEF Placed, at, sign

(* The state of Roll's loop that has added up the pieces until n.          *)
LeadSign(tokens, i) == IF i > 1 THEN SignOf(tokens[i - 1].sign) ELSE 1
Holding(tokens, source, n, sign, buffer) ==
    [ok |-> TRUE, total |-> TotalUpTo(tokens, source, n), sign |-> sign, buffer |-> buffer,
     budget |-> MaxDice - DiceUpTo(tokens, n),
     source |-> SubSeq(source, DiceUpTo(tokens, n) + 1, MaxDice)]

(* The dice before a piece that is next to be added up are within the      *)
(* budget.                                                                 *)
LEMMA PaidBefore ==
  ASSUME NEW tokens, Tokenized(tokens), NEW i \in 1..Len(tokens), Good(tokens, i),
         ~IsSign(tokens[i])
  PROVE  DiceUpTo(tokens, i - 1) \in 0..MaxDice
<1>0. Len(tokens) \in Nat /\ i \in Nat /\ i - 1 \in Nat /\ MaxDice \in Nat
  BY DiceAssumption DEF Tokenized
<1>1. DiceUpTo(tokens, i - 1) \in Nat /\ DiceUpTo(tokens, 0) = 0
  BY <1>0, CountsAddUp, Zenon
<1>2. CASE i = 1
  <2>1. i - 1 = 0
    BY <1>2
  <2>2. DiceUpTo(tokens, i - 1) = 0
    BY <1>1, <2>1, Zenon
  <2> QED BY <1>0, <2>2
<1>3. CASE i # 1
  <2> DEFINE j == i - 1
             h == j - 1
  <2>0. j \in 1..i /\ h \in Nat /\ h + 1 = j /\ j \in 1..Len(tokens) - 1 /\ j + 1 = i
    BY <1>0, <1>3
  <2> HIDE DEF h, j
  <2>1. IsSign(tokens[j])
    BY <2>0, Zenon DEF Tokenized
  <2>2. j \notin Places(tokens)
    <3>1. i \in 0..Len(tokens)
      BY <1>0
    <3> QED BY <2>0, <2>1, <3>1, GoodAlternates, Zenon
  <2>3. DiceUpTo(tokens, j) = DiceUpTo(tokens, h)
    BY <2>0, <2>2, CountsAddUp, Zenon
  <2>4. CASE j = 1
    <3>1. h = 0
      BY <2>0, <2>4
    <3>2. DiceUpTo(tokens, j) = 0
      BY <1>1, <2>3, <3>1, Zenon
    <3> QED BY <1>0, <3>2 DEF j
  <2>5. CASE j # 1
    <3>1. j \in 2..i /\ j - 1 = h
      BY <2>0, <2>5
    <3>2. DiceUpTo(tokens, h) <= MaxDice
      BY <2>1, <3>1, Zenon DEF Good, Paid
    <3>3. DiceUpTo(tokens, j) <= MaxDice /\ DiceUpTo(tokens, j) \in Nat
      BY <1>1, <2>3, <3>2, Zenon DEF j
    <3> QED BY <1>0, <3>3 DEF j
  <2> QED BY <2>4, <2>5
<1> QED BY <1>2, <1>3

(* Flushing a piece adds what it gains to the total and takes its dice     *)
(* from the budget and the source, or is refused when it is not paid for.  *)
LEMMA FlushIs ==
  ASSUME NEW tokens, Tokenized(tokens), NEW source \in Seq(Int), Len(source) = MaxDice,
         NEW i \in 1..Len(tokens), Good(tokens, i), ~IsSign(tokens[i]), NEW sign,
         sign = LeadSign(tokens, i)
  PROVE  /\ Flush(Holding(tokens, source, i - 1, sign, <<tokens[i]>>)) =
               IF Paid(tokens, i) THEN Holding(tokens, source, i, sign, <<>>) ELSE Refused
         /\ Paid(tokens, i) => Gain(tokens, source, i) = Term(tokens, source, i)
<1> DEFINE piece == tokens[i]
           d == DiceUpTo(tokens, i - 1)
           c == Count(piece)
           rest == SubSeq(source, d + 1, MaxDice)
           worth == Worth(piece, SubSeq(source, d + 1, d + c))
           state == Holding(tokens, source, i - 1, sign, <<tokens[i]>>)
<1>0. i - 1 \in Nat /\ i - 1 + 1 = i /\ MaxDice \in Nat /\ i \in 1..i /\ i \in 0..Len(tokens) /\ i \in Nat
  BY DiceAssumption DEF Tokenized
<1>1. d \in 0..MaxDice
  BY PaidBefore, Zenon
<1>2. IsPiece(piece) /\ i \in Places(tokens)
  BY <1>0, GoodAlternates, Zenon DEF Tokenized
<1>3. c \in Nat /\ DiceUpTo(tokens, i) = d + c
  <2>1. ASSUME NEW n \in Nat, n + 1 \in Places(tokens)
        PROVE  /\ Count(tokens[n + 1]) \in Nat
               /\ DiceUpTo(tokens, n + 1) = DiceUpTo(tokens, n) + Count(tokens[n + 1])
    BY <2>1, CountsAddUp, Zenon
  <2> QED BY <1>0, <1>2, <2>1, Zenon
<1>4. TotalUpTo(tokens, source, i - 1) \in Int
      /\ TotalUpTo(tokens, source, i) = TotalUpTo(tokens, source, i - 1) + Gain(tokens, source, i)
  <2>1. ASSUME NEW n \in Nat, n + 1 \in Places(tokens)
        PROVE  /\ TotalUpTo(tokens, source, n) \in Int
               /\ TotalUpTo(tokens, source, n + 1) =
                     TotalUpTo(tokens, source, n) + Gain(tokens, source, n + 1)
    BY <2>1, GainsAddUp, Zenon
  <2> QED BY <1>0, <1>2, <2>1, Zenon
<1>5. rest \in Seq(Int) /\ Len(rest) = MaxDice - d
  <2>1. 0 \in 0..(MaxDice - d)
    BY <1>0, <1>1
  <2> HIDE DEF d
  <2> QED BY <1>1, <2>1, SourceLeft, Zenon
<1>6. Affordable(piece, Len(rest)) <=> Paid(tokens, i)
  <2>1. c <= MaxDice - d <=> d + c <= MaxDice
    BY <1>0, <1>1, <1>3
  <2> HIDE DEF rest, d
  <2> QED BY <1>3, <1>5, <2>1, Zenon DEF Affordable, Paid
<1>7. evaluate(piece, Len(rest), rest) =
        IF Affordable(piece, Len(rest)) THEN Evaluated(piece, Len(rest), rest) ELSE Refused
  <2> HIDE DEF rest, piece
  <2> QED BY <1>2, <1>5, EvaluateIs, Zenon
<1>8. /\ state.buffer = <<piece>> /\ state.budget = Len(rest) /\ state.source = rest
      /\ state.total = TotalUpTo(tokens, source, i - 1) /\ state.sign = sign
  BY <1>5, Zenon DEF Holding
<1>9. <<piece>> # <<>> /\ <<piece>>[1] = piece
  OBVIOUS
<1>10. CASE ~Paid(tokens, i)
  <2>1. evaluate(piece, Len(rest), rest) = Refused /\ ~Refused.ok
    BY <1>6, <1>7, <1>10, Zenon DEF Refused
  <2> HIDE DEF state, piece, rest
  <2>2. Flush(state) = Refused
    BY <1>8, <1>9, <2>1, Zenon DEF Flush
  <2> QED BY <1>10, <2>2, Zenon DEF state, piece
<1>11. CASE Paid(tokens, i)
  <2>1. c \in 0..(MaxDice - d)
    BY <1>0, <1>1, <1>3, <1>11 DEF Paid
  <2>2. SubSeq(rest, 1, c) = SubSeq(source, d + 1, d + c)
        /\ SubSeq(rest, c + 1, MaxDice - d) = SubSeq(source, d + c + 1, MaxDice)
    <3> HIDE DEF d, c
    <3>1. SubSeq(rest, 1, c) = SubSeq(source, d + 1, d + c)
      <4>1. ASSUME NEW e \in 0..(MaxDice - d)
            PROVE  SubSeq(rest, 1, e) = SubSeq(source, d + 1, d + e)
        <5>1. SubSeq(SubSeq(source, d + 1, MaxDice), 1, e) = SubSeq(source, d + 1, d + e)
          BY <1>1, SourceLeft
        <5> QED BY <5>1, Zenon
      <4> QED BY <2>1, <4>1, Zenon
    <3>2. SubSeq(rest, c + 1, MaxDice - d) = SubSeq(source, d + c + 1, MaxDice)
      BY <1>1, <2>1, SourceLeft, Zenon
    <3> QED BY <3>1, <3>2, Zenon
  <2>3. evaluate(piece, Len(rest), rest) =
          [ok |-> TRUE, subtotal |-> worth, budget |-> MaxDice - d - c,
           source |-> SubSeq(source, d + c + 1, MaxDice)]
    <3>1. evaluate(piece, Len(rest), rest) = Evaluated(piece, Len(rest), rest)
      BY <1>6, <1>7, <1>11, Zenon
    <3> HIDE DEF rest, d, piece
    <3> QED BY <1>5, <2>2, <3>1, Zenon DEF Evaluated
  <2>4. worth \in Int
    <3>1. Worth(piece, SubSeq(rest, 1, c)) \in Int
      <4> HIDE DEF rest, piece
      <4> QED BY <1>2, <1>5, <1>6, <1>11, EvaluateIs, Zenon
    <3> HIDE DEF rest, piece, d, c
    <3> QED BY <2>2, <3>1, Zenon
  <2>5. Term(tokens, source, i) = sign * worth /\ sign \in {1, -1}
    <3>1. (IF i > 1 /\ tokens[i - 1].sign = "-" THEN -1 ELSE 1) = sign
      BY DEF LeadSign, SignOf
    <3>2. sign \in {1, -1}
      BY DEF LeadSign, SignOf
    <3> QED BY <3>1, <3>2, Zenon DEF Term
  <2> HIDE DEF worth
  <2>6. Gain(tokens, source, i) = sign * worth /\ sign * worth \in Int
    <3>1. sign * worth \in Int
      BY <2>4, <2>5
    <3> QED BY <2>5, <3>1, Zenon DEF Gain
  <2>7. MaxDice - d - c = MaxDice - (d + c)
    BY <1>0, <1>1, <1>3
  <2> HIDE DEF d, rest, piece, c
  <2> DEFINE term == evaluate(piece, Len(rest), rest)
  <2>8. /\ term.ok /\ term.subtotal = worth /\ term.budget = MaxDice - DiceUpTo(tokens, i)
        /\ term.source = SubSeq(source, DiceUpTo(tokens, i) + 1, MaxDice)
    <3>1. /\ term.ok /\ term.subtotal = worth /\ term.budget = MaxDice - d - c
          /\ term.source = SubSeq(source, d + c + 1, MaxDice)
      <4>1. term = [ok |-> TRUE, subtotal |-> worth, budget |-> MaxDice - d - c,
                    source |-> SubSeq(source, d + c + 1, MaxDice)]
        BY <2>3, Zenon
      <4> HIDE DEF term
      <4> QED BY <4>1, Zenon
    <3> HIDE DEF term
    <3>2. DiceUpTo(tokens, i) + 1 = d + c + 1 /\ MaxDice - DiceUpTo(tokens, i) = MaxDice - d - c
      BY <1>3, <2>7, Zenon
    <3> QED BY <3>1, <3>2, Zenon
  <2> HIDE DEF term, state
  <2>9. Flush(state) = [ok |-> TRUE, total |-> state.total + state.sign * term.subtotal,
                        sign |-> state.sign, buffer |-> <<>>,
                        budget |-> term.budget, source |-> term.source]
    BY <1>8, <1>9, <2>8, Zenon DEF Flush, term
  <2>10. Flush(state) = Holding(tokens, source, i, sign, <<>>)
    BY <1>4, <1>8, <2>6, <2>8, <2>9, Zenon DEF Holding
  <2> QED BY <1>11, <2>5, <2>6, <2>10, Zenon DEF state, piece
<1> QED BY <1>10, <1>11, Zenon

(* Changing the sign or the buffer of a state of the loop.                 *)
WithBuffer(state, b) == [state EXCEPT !.buffer = b]
WithSign(state, s) == [state EXCEPT !.sign = s]

LEMMA HoldingChanges ==
  ASSUME NEW tokens, NEW source, NEW n, NEW sign, NEW buffer, NEW state,
         state = Holding(tokens, source, n, sign, buffer)
  PROVE  /\ state.ok /\ state.buffer = buffer
         /\ \A b : WithBuffer(state, b) = Holding(tokens, source, n, sign, b)
         /\ \A s : WithSign(state, s) = Holding(tokens, source, n, s, buffer)
<1>1. state.ok /\ state.buffer = buffer
  BY Zenon DEF Holding
<1>2. PICK yes, total, budget, rest :
        /\ yes = TRUE
        /\ total = TotalUpTo(tokens, source, n) /\ budget = MaxDice - DiceUpTo(tokens, n)
        /\ rest = SubSeq(source, DiceUpTo(tokens, n) + 1, MaxDice)
  BY Zenon
<1> DEFINE record(s, b) == [ok |-> yes, total |-> total, sign |-> s, buffer |-> b,
                            budget |-> budget, source |-> rest]
<1>3. \A s, b : Holding(tokens, source, n, s, b) = record(s, b)
  BY <1>2, Zenon DEF Holding
<1>4. state = record(sign, buffer)
  BY <1>3, Zenon
<1>5. ASSUME NEW b PROVE WithBuffer(state, b) = record(sign, b)
  <2>1. [record(sign, buffer) EXCEPT !.buffer = b] = record(sign, b)
    OBVIOUS
  <2> HIDE DEF record
  <2> QED BY <1>4, <2>1, Zenon DEF WithBuffer
<1>6. ASSUME NEW s PROVE WithSign(state, s) = record(s, buffer)
  <2>1. [record(sign, buffer) EXCEPT !.sign = s] = record(s, buffer)
    OBVIOUS
  <2> HIDE DEF record
  <2> QED BY <1>4, <2>1, Zenon DEF WithSign
<1> HIDE DEF record
<1>7. ASSUME NEW b PROVE WithBuffer(state, b) = Holding(tokens, source, n, sign, b)
  <2>1. Holding(tokens, source, n, sign, b) = record(sign, b)
    BY <1>3, SMT
  <2>2. WithBuffer(state, b) = record(sign, b)
    BY <1>5, SMT
  <2> QED BY <2>1, <2>2, Zenon
<1>8. ASSUME NEW s PROVE WithSign(state, s) = Holding(tokens, source, n, s, buffer)
  <2>1. Holding(tokens, source, n, s, buffer) = record(s, buffer)
    BY <1>3, SMT
  <2>2. WithSign(state, s) = record(s, buffer)
    BY <1>6, SMT
  <2> QED BY <2>1, <2>2, Zenon
<1> QED BY <1>1, <1>7, <1>8, Zenon

(* The state of the loop after i tokens.                                   *)
After(tokens, source, i) ==
    IF ~Good(tokens, i) THEN Refused
    ELSE IF i = 0 \/ IsSign(tokens[i])
    THEN Holding(tokens, source, i, LeadSign(tokens, i + 1), <<>>)
    ELSE Holding(tokens, source, i - 1, LeadSign(tokens, i), <<tokens[i]>>)
Advance(tokens, state, i) == IF state.ok THEN Scan(state, tokens[i], i) ELSE state

(* Every round of the loop leads from one such state to the next.          *)
LEMMA AfterAdvances ==
  ASSUME NEW tokens, Tokenized(tokens), NEW source \in Seq(Int), Len(source) = MaxDice,
         NEW i \in 1..Len(tokens)
  PROVE  After(tokens, source, i) = Advance(tokens, After(tokens, source, i - 1), i)
<1> DEFINE h == i - 1
           H(n, sign, buffer) == Holding(tokens, source, n, sign, buffer)
<1>0. h \in Nat /\ i \in Nat /\ h + 1 = i /\ i # 0 /\ Len(tokens) \in Nat /\ i + 1 > 1 /\ i + 1 - 1 = i
      /\ i \in 0..Len(tokens) /\ h \in 0..Len(tokens) /\ i \in 1..i
  BY DEF Tokenized
<1>1. Good(tokens, i) <=>
        /\ Good(tokens, h)
        /\ i # 1 /\ IsSign(tokens[i]) => ~IsSign(tokens[h]) /\ Paid(tokens, h)
  <2>1. \A k : k \in 2..i <=> k \in 2..h \/ (k = i /\ i # 1)
    BY <1>0
  <2> QED BY <2>1, Zenon DEF Good
<1>2. LeadSign(tokens, i + 1) = SignOf(tokens[i].sign)
  <2>1. LeadSign(tokens, i + 1) = SignOf(tokens[i + 1 - 1].sign)
    BY <1>0 DEF LeadSign
  <2> QED BY <1>0, <2>1, Zenon
<1>3. ASSUME Good(tokens, i), IsSign(tokens[i]), NEW sign, NEW buffer
      PROVE  H(h, sign, buffer) = H(i, sign, buffer)
  <2>1. i \notin Places(tokens)
    BY <1>0, <1>3, GoodAlternates, Zenon
  <2>2. ASSUME NEW n \in Nat, n + 1 \notin Places(tokens)
        PROVE  /\ DiceUpTo(tokens, n + 1) = DiceUpTo(tokens, n)
               /\ TotalUpTo(tokens, source, n + 1) = TotalUpTo(tokens, source, n)
    BY <2>2, CountsAddUp, GainsAddUp, Zenon
  <2>3. DiceUpTo(tokens, i) = DiceUpTo(tokens, h) /\ TotalUpTo(tokens, source, i) = TotalUpTo(tokens, source, h)
    BY <1>0, <2>1, <2>2, Zenon
  <2> HIDE DEF h
  <2> QED BY <2>3, Zenon DEF Holding
<1> HIDE DEF h
<1>8. ASSUME NEW n, NEW sign, NEW buffer
      PROVE  H(n, sign, buffer).ok /\ H(n, sign, buffer).buffer = buffer
  BY Zenon DEF Holding
<1>10. /\ \A n, sign, buffer, b : WithBuffer(H(n, sign, buffer), b) = H(n, sign, b)
       /\ \A n, sign, buffer, s : WithSign(H(n, sign, buffer), s) = H(n, s, buffer)
  <2>1. ASSUME NEW n, NEW sign, NEW buffer, NEW b
        PROVE  WithBuffer(H(n, sign, buffer), b) = H(n, sign, b)
    BY HoldingChanges, SMT
  <2>2. ASSUME NEW n, NEW sign, NEW buffer, NEW s
        PROVE  WithSign(H(n, sign, buffer), s) = H(n, s, buffer)
    BY HoldingChanges, SMT
  <2> HIDE DEF H
  <2>3. \A n, sign, buffer, b : WithBuffer(H(n, sign, buffer), b) = H(n, sign, b)
    BY <2>1, SMT
  <2>4. \A n, sign, buffer, s : WithSign(H(n, sign, buffer), s) = H(n, s, buffer)
    BY <2>2, SMT
  <2> QED BY <2>3, <2>4, Zenon
<1>9. PICK none : none = <<>>
  OBVIOUS
<1> DEFINE before == After(tokens, source, h)
           token == tokens[i]
<1>4. CASE ~Good(tokens, h)
  <2>1. before = Refused /\ After(tokens, source, i) = Refused /\ ~Refused.ok
    BY <1>1, <1>4, Zenon DEF After, Refused
  <2> QED BY <2>1, Zenon DEF Advance, h
<1>5. CASE Good(tokens, h) /\ ~IsSign(token)
  <2>1. h = 0 \/ IsSign(tokens[h])
    <3>1. h = 0 \/ h \in 1..Len(tokens) - 1
      BY <1>0
    <3> QED BY <1>0, <1>5, <3>1, Zenon DEF Tokenized
  <2>2. before = H(h, LeadSign(tokens, i), <<>>)
    BY <1>0, <1>5, <2>1, Zenon DEF After
  <2>3. Advance(tokens, before, i) = WithBuffer(before, <<token>>)
    <3>1. before.ok
      <4>1. before = H(h, LeadSign(tokens, i), none)
        BY <1>9, <2>2, Zenon
      <4> HIDE DEF before, H
      <4> QED BY <1>8, <4>1, Zenon
    <3> HIDE DEF before
    <3> QED BY <1>5, <3>1, Zenon DEF Advance, Scan, IsSign, WithBuffer, WithSign
  <2>4. Advance(tokens, before, i) = H(h, LeadSign(tokens, i), <<token>>)
    <3>1. before = H(h, LeadSign(tokens, i), none)
      BY <1>9, <2>2, Zenon
    <3>2. PICK one : one = <<token>>
      BY Zenon
    <3>3. Advance(tokens, before, i) = WithBuffer(before, one)
      BY <2>3, <3>2, Zenon
    <3>4. Advance(tokens, before, i) = H(h, LeadSign(tokens, i), one)
      <4> HIDE DEF before, H
      <4>1. WithBuffer(H(h, LeadSign(tokens, i), none), one) = H(h, LeadSign(tokens, i), one)
        BY <1>10, SMT
      <4> QED BY <3>1, <3>3, <4>1, Zenon
    <3> QED BY <3>2, <3>4, Zenon
  <2>5. After(tokens, source, i) = H(h, LeadSign(tokens, i), <<token>>)
    BY <1>0, <1>1, <1>5, Zenon DEF After, h
  <2> QED BY <2>4, <2>5, Zenon DEF h
<1>6. CASE Good(tokens, h) /\ IsSign(token) /\ i = 1
  <2>1. h = 0 /\ Good(tokens, i)
    BY <1>0, <1>1, <1>6
  <2>2. before = H(h, LeadSign(tokens, i), <<>>)
    BY <1>0, <1>6, <2>1, Zenon DEF After
  <2>3. Advance(tokens, before, i) = WithSign(before, SignOf(token.sign))
    <3>1. before.ok
      <4>1. before = H(h, LeadSign(tokens, i), none)
        BY <1>9, <2>2, Zenon
      <4> HIDE DEF before, H
      <4> QED BY <1>8, <4>1, Zenon
    <3> HIDE DEF before
    <3> QED BY <1>6, <3>1, Zenon DEF Advance, Scan, IsSign, WithBuffer, WithSign
  <2>4. Advance(tokens, before, i) = H(h, SignOf(token.sign), <<>>)
    <3>1. before = H(h, LeadSign(tokens, i), none)
      BY <1>9, <2>2, Zenon
    <3>2. Advance(tokens, before, i) = H(h, SignOf(token.sign), none)
      <4> HIDE DEF before, H
      <4>1. WithSign(H(h, LeadSign(tokens, i), none), SignOf(token.sign)) = H(h, SignOf(token.sign), none)
        BY <1>10, SMT
      <4> QED BY <2>3, <3>1, <4>1, Zenon
    <3> QED BY <1>9, <3>2, Zenon
  <2>5. After(tokens, source, i) = H(i, SignOf(token.sign), <<>>)
    BY <1>2, <1>6, <2>1, Zenon DEF After
  <2> QED BY <1>3, <1>6, <2>1, <2>4, <2>5, Zenon DEF h
<1>7. CASE Good(tokens, h) /\ IsSign(token) /\ i # 1
  <2>0. h \in 1..Len(tokens) /\ h # 0
    BY <1>0, <1>7
  <2>1. before.ok
    BY <1>7, HoldingChanges, Zenon DEF After
  <2>2. Advance(tokens, before, i) =
          IF Flush(before).ok THEN WithSign(Flush(before), SignOf(token.sign)) ELSE Refused
    <3> HIDE DEF before
    <3> QED BY <1>7, <2>1, Zenon DEF Advance, Scan, IsSign, WithBuffer, WithSign
  <2>3. ~Refused.ok
    BY Zenon DEF Refused
  <2>4. CASE IsSign(tokens[h])
    <3>1. before.buffer = <<>>
      <4>1. before = H(h, LeadSign(tokens, h + 1), <<>>)
        BY <1>7, <2>4, Zenon DEF After
      <4>2. before = H(h, LeadSign(tokens, h + 1), none)
        BY <1>9, <4>1, Zenon
      <4>3. before.buffer = none
        <5> HIDE DEF before, H
        <5>1. H(h, LeadSign(tokens, h + 1), none).buffer = none
          BY <1>8, Zenon
        <5> QED BY <4>2, <5>1, Zenon
      <4> QED BY <1>9, <4>3, Zenon
    <3>2. Flush(before) = Refused
      BY <3>1, Zenon DEF Flush
    <3>3. After(tokens, source, i) = Refused
      BY <1>1, <1>7, <2>4, Zenon DEF After
    <3> QED BY <2>2, <2>3, <3>2, <3>3, Zenon DEF h
  <2>5. CASE ~IsSign(tokens[h])
    <3> DEFINE sign == LeadSign(tokens, h)
    <3>1. before = H(h - 1, sign, <<tokens[h]>>)
      BY <1>7, <2>0, <2>5, Zenon DEF After
    <3>2. Flush(before) = IF Paid(tokens, h) THEN H(h, sign, <<>>) ELSE Refused
      <4> HIDE DEF sign
      <4>1. Flush(H(h - 1, sign, <<tokens[h]>>)) =
              IF Paid(tokens, h) THEN H(h, sign, <<>>) ELSE Refused
        BY <1>7, <2>0, <2>5, FlushIs, Zenon DEF sign
      <4> QED BY <3>1, <4>1, Zenon
    <3>3. CASE ~Paid(tokens, h)
      <4>1. After(tokens, source, i) = Refused
        BY <1>1, <1>7, <3>3, Zenon DEF After
      <4> QED BY <2>2, <2>3, <3>2, <3>3, <4>1, Zenon DEF h
    <3>4. CASE Paid(tokens, h)
      <4> HIDE DEF before, sign
      <4>1. Good(tokens, i)
        BY <1>1, <1>7, <2>5, <3>4, Zenon
      <4>2. Advance(tokens, before, i) = H(h, SignOf(token.sign), <<>>)
        <5> DEFINE flushed == Flush(before)
        <5>1. flushed = H(h, sign, none)
          BY <1>9, <3>2, <3>4, Zenon
        <5> HIDE DEF flushed, H
        <5>2. flushed.ok /\ WithSign(flushed, SignOf(token.sign)) = H(h, SignOf(token.sign), none)
          <6>1. H(h, sign, none).ok
            BY <1>8, Zenon
          <6>2. WithSign(H(h, sign, none), SignOf(token.sign)) = H(h, SignOf(token.sign), none)
            BY <1>10, SMT
          <6> QED BY <5>1, <6>1, <6>2, Zenon
        <5> QED BY <1>9, <2>2, <5>2, Zenon DEF flushed, H
      <4>3. After(tokens, source, i) = H(i, SignOf(token.sign), <<>>)
        BY <1>2, <1>7, <4>1, Zenon DEF After
      <4> QED BY <1>3, <1>7, <4>1, <4>2, <4>3, Zenon DEF before, h
    <3> QED BY <3>3, <3>4, Zenon
  <2> QED BY <2>4, <2>5, Zenon
<1> QED BY <1>4, <1>5, <1>6, <1>7, Zenon

(* The loop begins in the first of these states.                           *)
Begin(source) ==
    [ok |-> TRUE, total |-> 0, sign |-> 1, buffer |-> <<>>, budget |-> MaxDice, source |-> source]
LEMMA AfterNothing ==
  ASSUME NEW tokens, Tokenized(tokens), NEW source \in Seq(Int), Len(source) = MaxDice
  PROVE  After(tokens, source, 0) = Begin(source)
<1>1. Good(tokens, 0)
  BY DEF Good
<1>2. After(tokens, source, 0) = Holding(tokens, source, 0, LeadSign(tokens, 0 + 1), <<>>)
  BY <1>1, Zenon DEF After
<1>3. LeadSign(tokens, 0 + 1) = 1
  BY DEF LeadSign
<1>4. DiceUpTo(tokens, 0) = 0 /\ TotalUpTo(tokens, source, 0) = 0
  BY CountsAddUp, GainsAddUp, Zenon
<1>5. MaxDice - 0 = MaxDice /\ 0 + 1 = 1
  BY DiceAssumption
<1>6. SubSeq(source, 1, MaxDice) = source
  BY SubSeqFull, Zenon
<1> QED BY <1>2, <1>3, <1>4, <1>5, <1>6, Zenon DEF Holding, Begin

(* So ScanUpTo is in one of them after the last token.                     *)
LEMMA ScanIs ==
  ASSUME NEW tokens, Tokenized(tokens), NEW source \in Seq(Int), Len(source) = MaxDice
  PROVE  ScanUpTo(tokens, source, Len(tokens)) = After(tokens, source, Len(tokens))
<1> DEFINE L == Len(tokens)
           A(i) == After(tokens, source, i)
           begin == Begin(source)
           Is(f) == f = [i \in 0..L |-> IF i = 0 THEN begin ELSE Advance(tokens, f[i - 1], i)]
<1>0. L \in Nat
  BY DEF Tokenized
<1>1. A(0) = begin
  BY AfterNothing, Zenon
<1>2. \A i \in 1..L : A(i) = Advance(tokens, A(i - 1), i)
  BY AfterAdvances, Zenon
<1> DEFINE g == CHOOSE f : Is(f)
<1>3. ScanUpTo(tokens, source, L) = g[L]
  BY Zenon DEF ScanUpTo, Advance, Begin
<1> HIDE DEF A, begin
<1>4. Is([i \in 0..L |-> A(i)])
  <2> DEFINE f == [i \in 0..L |-> A(i)]
  <2>1. \A i \in 0..L : f[i] = A(i)
    OBVIOUS
  <2>2. \A i \in 0..L : i # 0 => i \in 1..L /\ i - 1 \in 0..L
    BY <1>0
  <2>3. ASSUME NEW i \in 0..L PROVE A(i) = IF i = 0 THEN begin ELSE Advance(tokens, f[i - 1], i)
    <3> HIDE DEF f
    <3>1. CASE i = 0
      BY <1>1, <3>1, Zenon
    <3>2. CASE i # 0
      <4>1. f[i - 1] = A(i - 1)
        BY <2>1, <2>2, <3>2, Zenon
      <4>2. A(i) = Advance(tokens, A(i - 1), i)
        BY <1>2, <2>2, <3>2, Zenon
      <4> QED BY <3>2, <4>1, <4>2, Zenon
    <3> QED BY <3>1, <3>2, Zenon
  <2> QED BY <2>3, Zenon
<1>5. Is(g)
  BY <1>4, Zenon
<1> HIDE DEF g
<1>6. \A i \in 0..L : g[i] = IF i = 0 THEN begin ELSE Advance(tokens, g[i - 1], i)
  BY <1>5, Zenon
<1> HIDE DEF Is
<1> DEFINE Same == {i \in Nat : i <= L => g[i] = A(i)}
<1>7. 0 \in Same
  <2>1. 0 \in 0..L
    BY <1>0
  <2>2. g[0] = A(0)
    BY <1>1, <1>6, <2>1, Zenon
  <2> QED BY <2>2
<1>8. ASSUME NEW n \in Nat, n \in Same PROVE n + 1 \in Same
  <2> SUFFICES ASSUME n + 1 <= L PROVE g[n + 1] = A(n + 1)
    OBVIOUS
  <2>1. PICK m \in 1..L : m = n + 1 /\ m - 1 = n
    BY <1>0
  <2>2. m \in 0..L /\ m # 0 /\ n <= L
    BY <1>0, <2>1
  <2>3. g[n] = A(n)
    BY <1>8, <2>2
  <2>4. g[m] = Advance(tokens, g[m - 1], m)
    BY <1>6, <2>2, Zenon
  <2>5. A(m) = Advance(tokens, A(m - 1), m)
    BY <1>2, Zenon
  <2>6. g[m - 1] = A(m - 1)
    BY <2>1, <2>3, Zenon
  <2>7. g[m] = A(m)
    BY <2>4, <2>5, <2>6, Zenon
  <2> QED BY <2>1, <2>7, Zenon
<1> HIDE DEF Same
<1>9. Nat \subseteq Same
  BY <1>7, <1>8, Upward, Zenon
<1>10. L <= L
  BY <1>0
<1>11. g[L] = A(L)
  BY <1>0, <1>9, <1>10, Zenon DEF Same
<1> QED BY <1>3, <1>11, Zenon DEF A

(* The expressions that Roll accepts, as the loop finds out.               *)
Passed(tokens) ==
    /\ Len(tokens) > 0 /\ Good(tokens, Len(tokens))
    /\ ~IsSign(tokens[Len(tokens)]) /\ Paid(tokens, Len(tokens))

(* Roll returns the total of the gains, or refuses the expression.         *)
LEMMA RollIs ==
  ASSUME NEW tokens \in Seq(SignToken \cup Piece), Tokenized(tokens),
         NEW source \in Seq(Int), Len(source) = MaxDice
  PROVE  Roll(tokens, source) =
            IF Passed(tokens) THEN [ok |-> TRUE, total |-> TotalUpTo(tokens, source, Len(tokens))]
            ELSE Refused
<1> DEFINE L == Len(tokens)
           scanned == ScanUpTo(tokens, source, L)
           last == IF scanned.ok THEN Flush(scanned) ELSE Refused
<1>0. L \in Nat /\ (tokens # <<>> <=> L > 0) /\ (L > 0 => L \in 1..L /\ L # 0) /\ (~(L > 0) => L = 0)
  OBVIOUS
<1>1. scanned = After(tokens, source, L)
  BY ScanIs, Zenon
<1>2. Roll(tokens, source) = IF L > 0 /\ last.ok THEN [ok |-> TRUE, total |-> last.total] ELSE Refused
  <2>1. Roll(tokens, source) =
          IF tokens # <<>> /\ last.ok THEN [ok |-> TRUE, total |-> last.total] ELSE Refused
    BY Zenon DEF Roll
  <2> HIDE DEF last
  <2> QED BY <1>0, <2>1, Zenon
<1> HIDE DEF scanned
<1>3. ~Refused.ok
  BY Zenon DEF Refused
<1>4. CASE ~(L > 0) \/ ~Good(tokens, L)
  <2>1. ~Passed(tokens)
    BY <1>4, Zenon DEF Passed
  <2>2. ~Good(tokens, L) => ~last.ok
    BY <1>1, <1>3, Zenon DEF After
  <2> HIDE DEF last
  <2> QED BY <1>2, <1>4, <2>1, <2>2, Zenon
<1>5. CASE L > 0 /\ Good(tokens, L) /\ IsSign(tokens[L])
  <2>1. ~Passed(tokens)
    BY <1>5, Zenon DEF Passed
  <2>2. PICK none : none = <<>>
    OBVIOUS
  <2>3. scanned = Holding(tokens, source, L, LeadSign(tokens, L + 1), none)
    BY <1>1, <1>5, <2>2, Zenon DEF After
  <2>4. scanned.buffer = none
    BY <2>3, Zenon DEF Holding
  <2>5. Flush(scanned) = Refused
    BY <2>2, <2>4, Zenon DEF Flush
  <2>6. ~last.ok
    BY <1>3, <2>5, Zenon
  <2> HIDE DEF last
  <2> QED BY <1>2, <2>1, <2>6, Zenon
<1>6. CASE L > 0 /\ Good(tokens, L) /\ ~IsSign(tokens[L])
  <2> DEFINE sign == LeadSign(tokens, L)
  <2>1. scanned = Holding(tokens, source, L - 1, sign, <<tokens[L]>>)
    BY <1>0, <1>1, <1>6, Zenon DEF After
  <2>2. scanned.ok
    BY <2>1, Zenon DEF Holding
  <2>3. Flush(scanned) =
          IF Paid(tokens, L) THEN Holding(tokens, source, L, sign, <<>>) ELSE Refused
    <3>1. Flush(Holding(tokens, source, L - 1, sign, <<tokens[L]>>)) =
            IF Paid(tokens, L) THEN Holding(tokens, source, L, sign, <<>>) ELSE Refused
      <4> HIDE DEF sign
      <4> QED BY <1>0, <1>6, FlushIs, Zenon DEF sign
    <3> QED BY <2>1, <3>1, Zenon
  <2>4. last = Flush(scanned)
    BY <2>2, Zenon
  <2> HIDE DEF last, sign
  <2>5. CASE Paid(tokens, L)
    <3>1. Passed(tokens)
      BY <1>6, <2>5, Zenon DEF Passed
    <3>2. last = Holding(tokens, source, L, sign, <<>>)
      BY <2>3, <2>4, <2>5, Zenon
    <3>3. last.ok /\ last.total = TotalUpTo(tokens, source, L)
      BY <3>2, Zenon DEF Holding
    <3> QED BY <1>2, <1>6, <3>1, <3>3, Zenon
  <2>6. CASE ~Paid(tokens, L)
    <3>1. ~Passed(tokens)
      BY <2>6, Zenon DEF Passed
    <3>2. ~last.ok
      BY <1>3, <2>3, <2>4, <2>6, Zenon
    <3> QED BY <1>2, <3>1, <3>2, Zenon
  <2> QED BY <2>5, <2>6, Zenon
<1> QED BY <1>4, <1>5, <1>6, Zenon

(* These are the expressions that are well formed.                         *)
LEMMA PassedIsFormed ==
  ASSUME NEW tokens, Tokenized(tokens)
  PROVE  Passed(tokens) <=> Formed(tokens)
<1> DEFINE L == Len(tokens)
           at == Places(tokens)
           f == First(tokens)
           sign(i) == IsSign(tokens[i])
<1>0. L \in Nat /\ f \in {1, 2}
  BY DEF Tokenized, First
<1>1. /\ L > 0 => (1 \in at <=> ~sign(1))
      /\ \A i \in 1..L - 1 : i + 1 \in at <=> i \notin at
      /\ at \subseteq 1..L
  BY PlacesAlternate, Zenon
<1>2. at \subseteq f..L
  BY Zenon DEF Places
<1>3. Formed(tokens) <=>
        /\ L >= f /\ L \in at
        /\ \A i \in f..L : i \in at <=> ~sign(i)
        /\ \A i \in at : Sound(tokens[i])
        /\ DiceUpTo(tokens, L) <= MaxDice
  BY Zenon DEF Formed, IsSign
<1>4. Passed(tokens) <=>
        /\ L > 0 /\ Good(tokens, L)
        /\ ~sign(L) /\ Sound(tokens[L]) /\ DiceUpTo(tokens, L) <= MaxDice
  BY Zenon DEF Passed, Paid
<1> HIDE DEF L, at, f
<1>5. ASSUME Passed(tokens) PROVE Formed(tokens)
  <2>1. \A k \in 1..L : k \in at <=> ~sign(k)
    <3>1. L \in 0..L
      BY <1>0
    <3> QED BY <1>4, <1>5, <3>1, GoodAlternates, Zenon DEF L, at
  <2>2. L \in 1..L
    BY <1>0, <1>4, <1>5
  <2>3. L \in at
    BY <1>4, <1>5, <2>1, <2>2, Zenon
  <2>4. L >= f
    <3>1. L \in f..L
      BY <1>2, <2>3, Zenon
    <3> QED BY <1>0, <3>1
  <2>5. \A i \in f..L : i \in 1..L
    BY <1>0
  <2>6. ASSUME NEW i \in at PROVE Sound(tokens[i])
    <3>1. i \in 1..L
      BY <1>1, Zenon
    <3>2. CASE i = L
      BY <1>4, <1>5, <3>2, Zenon
    <3>3. CASE i # L
      <4>1. PICK m \in 2..L : m = i + 1 /\ m - 1 = i
        BY <1>0, <3>1, <3>3
      <4>2. i \in 1..L - 1 /\ m \in 1..L
        BY <1>0, <3>1, <3>3
      <4>3. i + 1 \notin at
        BY <1>1, <4>2, Zenon
      <4>4. sign(m)
        BY <2>1, <4>1, <4>2, <4>3, Zenon
      <4>5. Paid(tokens, m - 1)
        BY <1>4, <1>5, <4>4, Zenon DEF Good
      <4> QED BY <4>1, <4>5, Zenon DEF Paid
    <3> QED BY <3>2, <3>3, Zenon
  <2> QED BY <1>3, <1>4, <1>5, <2>1, <2>3, <2>4, <2>5, <2>6, Zenon
<1>6. ASSUME Formed(tokens) PROVE Passed(tokens)
  <2>1. L \in 1..L /\ L > 0 /\ L \in f..L
    BY <1>0, <1>3, <1>6
  <2>2. ~sign(L) /\ Sound(tokens[L])
    BY <1>3, <1>6, <2>1, Zenon
  <2>3. ASSUME NEW k \in 2..L, sign(k) PROVE ~sign(k - 1) /\ Paid(tokens, k - 1)
    <3>1. PICK h \in 1..L - 1 : h = k - 1 /\ h + 1 = k
      BY <1>0
    <3>2. k \in f..L /\ h \in Nat /\ h <= L
      BY <1>0, <3>1
    <3>3. k \notin at
      BY <1>3, <1>6, <2>3, <3>2, Zenon
    <3>4. h \in at
      BY <1>1, <3>1, <3>3, Zenon
    <3>5. ~sign(h) /\ Sound(tokens[h])
      BY <1>2, <1>3, <1>6, <3>4, Zenon
    <3>6. DiceUpTo(tokens, h) <= MaxDice
      <4>1. DiceUpTo(tokens, h) <= DiceUpTo(tokens, L)
        BY <1>0, <3>2, CountsGrow, Zenon
      <4>2. DiceUpTo(tokens, h) \in Nat /\ DiceUpTo(tokens, L) \in Nat /\ MaxDice \in Nat
        BY <1>0, <3>2, CountsAddUp, DiceAssumption, Zenon
      <4>3. DiceUpTo(tokens, L) <= MaxDice
        BY <1>3, <1>6, Zenon
      <4> QED BY <4>1, <4>2, <4>3
    <3> QED BY <3>1, <3>5, <3>6, Zenon DEF Paid
  <2>4. Good(tokens, L)
    BY <2>3, Zenon DEF Good
  <2> QED BY <1>3, <1>4, <1>6, <2>1, <2>2, <2>4, Zenon
<1> QED BY <1>5, <1>6, Zenon

(* In an expression that is accepted every gain is the term of its piece.  *)
LEMMA GainsAreTerms ==
  ASSUME NEW tokens, Tokenized(tokens), NEW source \in Seq(Int), Len(source) = MaxDice,
         Passed(tokens)
  PROVE  TotalUpTo(tokens, source, Len(tokens)) =
            SumOver([i \in Places(tokens) |-> Term(tokens, source, i)], Places(tokens), Len(tokens))
<1> DEFINE L == Len(tokens)
           at == Places(tokens)
<1>1. Formed(tokens) /\ at \subseteq 1..L /\ L \in Nat
  BY PassedIsFormed, PlacesAlternate, Zenon DEF Tokenized
<1>2. ASSUME NEW i \in at PROVE Gain(tokens, source, i) = Term(tokens, source, i)
  <2>1. i \in 1..L
    BY <1>1, Zenon
  <2>2. 2..i \subseteq 2..L /\ i \in Nat /\ i <= L /\ L \in 0..L
    BY <1>1, <2>1
  <2>3. Good(tokens, i)
    BY <2>2, Zenon DEF Passed, Good
  <2>4. ~IsSign(tokens[i])
    BY <2>1, <2>2, GoodAlternates, Zenon DEF Passed
  <2>5. Paid(tokens, i)
    <3>1. Sound(tokens[i])
      BY <1>1, Zenon DEF Formed
    <3>2. DiceUpTo(tokens, i) <= DiceUpTo(tokens, L)
      BY <1>1, <2>2, CountsGrow, Zenon
    <3>3. DiceUpTo(tokens, i) \in Nat /\ DiceUpTo(tokens, L) \in Nat /\ MaxDice \in Nat
      BY <1>1, <2>2, CountsAddUp, DiceAssumption, Zenon
    <3>4. DiceUpTo(tokens, L) <= MaxDice
      BY Zenon DEF Passed, Paid
    <3>5. DiceUpTo(tokens, i) <= MaxDice
      BY <3>2, <3>3, <3>4
    <3> QED BY <3>1, <3>5, Zenon DEF Paid
  <2> QED BY <2>1, <2>3, <2>4, <2>5, FlushIs, Zenon
<1>3. Gains(tokens, source) = [i \in at |-> Term(tokens, source, i)]
  BY <1>2, Zenon DEF Gains
<1> QED BY <1>3, Zenon DEF TotalUpTo

(* The expressions that CallRoll is called with.                           *)
LEMMA ExpressionTokenized ==
  ASSUME NEW tokens \in Expression
  PROVE  tokens \in Seq(SignToken \cup Piece) /\ Tokenized(tokens)
<1>1. PICK m \in 0..MaxTokens : tokens \in [1..m -> SignToken \cup Piece]
  BY Zenon DEF Expression, SeqOf
<1>2. m \in Nat
  <2>1. MaxTokens \in Nat
    BY RulesAssumption, Zenon
  <2> QED BY <1>1, <2>1
<1>3. tokens \in Seq(SignToken \cup Piece) /\ Len(tokens) = m
  BY <1>1, <1>2
<1>4. \A token \in SignToken : IsSign(token)
  BY DEF SignToken, IsSign
<1>5. \A token \in Piece : IsPiece(token)
  <2> SUFFICES ASSUME NEW token \in Piece PROVE IsPiece(token)
    OBVIOUS
  <2>1. CASE token = Malformed
    BY <2>1 DEF IsPiece, Malformed
  <2>2. CASE token # Malformed
    BY <2>2, RulesAssumption, Zenon DEF IsPiece, IsConstant, IsDice
  <2> QED BY <2>1, <2>2
<1>6. \A i \in 1..Len(tokens) : IsSign(tokens[i]) \/ IsPiece(tokens[i])
  <2>1. \A i \in 1..Len(tokens) : tokens[i] \in SignToken \/ tokens[i] \in Piece
    BY <1>3
  <2> QED BY <1>4, <1>5, <2>1, Zenon
<1>7. \A i \in 1..Len(tokens) - 1 : IsSign(tokens[i]) \/ IsSign(tokens[i + 1])
  BY Zenon DEF Expression, IsSign
<1> QED BY <1>2, <1>3, <1>6, <1>7, Zenon DEF Tokenized

(* What RollAddsUp says of one call.                                       *)
AddsUp(tokens, source, out) ==
    /\ out.ok <=> Formed(tokens)
    /\ Formed(tokens) =>
          out.total = SumOver([i \in Places(tokens) |-> Term(tokens, source, i)], Places(tokens),
                              Len(tokens))

(* A roll succeeds exactly on signs and sound pieces that alternate within *)
(* the budget, and adds up what they are worth, for every expression and   *)
(* source: dice.go's Roll and applySelection against their specification.  *)
THEOREM RulesRollAddsUp == Spec => []RollAddsUp
<1>1. Init => RollAddsUp
  <2>1. Init => call.op # "roll"
    BY DEF Init, Idle
  <2> QED BY <2>1, Zenon DEF RollAddsUp
<1>2. RollAddsUp /\ [Next]_call => RollAddsUp'
  <2> SUFFICES ASSUME RollAddsUp, [Next]_call PROVE RollAddsUp'
    OBVIOUS
  <2>1. CASE UNCHANGED call
    BY <2>1, Zenon DEF RollAddsUp
  <2>2. CASE call'.op # "roll"
    BY <2>2, Zenon DEF RollAddsUp
  <2>3. ASSUME NEW tokens \in Expression, NEW source \in [1..MaxDice -> 1..MaxFaces],
               CallRoll(tokens, source)
        PROVE  RollAddsUp'
    <3>1. tokens \in Seq(SignToken \cup Piece) /\ Tokenized(tokens)
      BY ExpressionTokenized, Zenon
    <3>2. source \in Seq(Int) /\ Len(source) = MaxDice
      BY DiceAssumption
    <3>3. PICK out : out = Roll(tokens, source)
      OBVIOUS
    <3>4. call'.tokens = tokens /\ call'.source = source /\ call'.out = out
      BY <2>3, <3>3, Zenon DEF CallRoll
    <3>5. Passed(tokens) <=> Formed(tokens)
      BY <3>1, PassedIsFormed, Zenon
    <3>6. out = IF Passed(tokens)
                THEN [ok |-> TRUE, total |-> TotalUpTo(tokens, source, Len(tokens))] ELSE Refused
      BY <3>1, <3>2, <3>3, RollIs, Zenon
    <3>7. AddsUp(tokens, source, out)
      <4>1. CASE Passed(tokens)
        <5>1. out = [ok |-> TRUE, total |-> TotalUpTo(tokens, source, Len(tokens))]
          BY <3>6, <4>1, Zenon
        <5>2. out.ok /\ out.total = TotalUpTo(tokens, source, Len(tokens))
          BY <5>1, Zenon
        <5>3. out.total = SumOver([i \in Places(tokens) |-> Term(tokens, source, i)],
                                  Places(tokens), Len(tokens))
          BY <3>1, <3>2, <4>1, <5>2, GainsAreTerms, Zenon
        <5> QED BY <3>5, <4>1, <5>2, <5>3, Zenon DEF AddsUp
      <4>2. CASE ~Passed(tokens)
        <5>1. out = Refused
          BY <3>6, <4>2, Zenon
        <5>2. ~out.ok
          BY <5>1, Zenon DEF Refused
        <5> QED BY <3>5, <4>2, <5>2, Zenon DEF AddsUp
      <4> QED BY <4>1, <4>2, Zenon
    <3> QED BY <3>4, <3>7, Zenon DEF RollAddsUp, AddsUp
  <2>4. CASE Next /\ call'.op = "roll"
    BY <2>3, <2>4, RollCalled, Zenon
  <2> QED BY <2>1, <2>2, <2>4, Zenon
<1> QED BY <1>1, <1>2, PTL DEF Spec
=============================================================================
