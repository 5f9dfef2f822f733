---------------------------- MODULE LeastElement ----------------------------
(***************************************************************************)
(* Every nonempty set of naturals has a least element.  Used wherever a     *)
(* proof needs the first index at which something happens; it stands in for *)
(* induction on the naturals.                                              *)
(***************************************************************************)
EXTENDS Integers, FiniteSetTheorems, TLAPS

\* The least element exists: the initial segments below the elements of S
\* are finite sets, and strict inclusion of finite sets is well-founded.
LEMMA SmallestExists ==
  ASSUME NEW S \in SUBSET Nat, S # {}
  PROVE  \E x \in S : \A y \in S : x <= y
<1>. DEFINE below(x) == 0 .. (x - 1)
            T == {below(x) : x \in S}
            R == StrictSubsetOrdering(Nat)
<1>1. T \subseteq FiniteSubsetsOf(Nat)
  <2>1. \A x \in S : IsFiniteSet(below(x)) /\ below(x) \subseteq Nat
    BY FS_Interval
  <2>. QED BY <2>1 DEF FiniteSubsetsOf
<1>2. T # {}
  OBVIOUS
<1>3. IsWellFoundedOn(R, FiniteSubsetsOf(Nat))
  BY FS_StrictSubsetOrderingWellFounded
<1>4. \E t \in T : \A u \in T : ~ (<<u, t>> \in R)
  <2>. HIDE DEF T, R
  <2>. QED BY <1>1, <1>2, <1>3, WFMin
<1>5. PICK x \in S : \A y \in S : ~ (<<below(y), below(x)>> \in R)
  BY <1>4
<1>6. ASSUME NEW y \in S, y < x PROVE FALSE
  <2>1. below(y) \subseteq below(x)
    BY <1>6
  <2>2. y \in below(x) /\ y \notin below(y)
    BY <1>6
  <2>3. <<below(y), below(x)>> \in R
    BY <2>1, <2>2 DEF StrictSubsetOrdering
  <2>. QED BY <2>3, <1>5
<1>. QED BY <1>6

-----------------------------------------------------------------------------
(* A step that is iterated from a start: the function a recursive definition *)
(* over the naturals names exists, and is the only one.                     *)

\* g iterates next from start, n times at least.
Iterates(g, D, next, start, n) ==
  g \in [Nat -> D] /\ g[0] = start /\ \A i \in Nat : i < n => g[i + 1] = next[g[i]]

\* g iterates next from start for ever.
Forever(g, D, next, start) ==
  g \in [Nat -> D] /\ g[0] = start /\ \A i \in Nat : g[i + 1] = next[g[i]]

\* Two iterations of the same step from the same start agree as far as both go.
LEMMA IterationsAgree ==
  ASSUME NEW D, NEW next, NEW start, NEW n \in Nat, NEW f, NEW g,
         Iterates(f, D, next, start, n), Iterates(g, D, next, start, n)
  PROVE  \A i \in 0 .. n : f[i] = g[i]
<1> USE DEF Iterates
<1> DEFINE S == {i \in Nat : i <= n /\ f[i] # g[i]}
<1>1. SUFFICES ASSUME S # {} PROVE FALSE
  OBVIOUS
<1>2. PICK x \in S : \A y \in S : x <= y
  <2>1. S \in SUBSET Nat
    OBVIOUS
  <2> HIDE DEF S
  <2> QED
    BY <1>1, <2>1, SmallestExists
<1>3. x \in Nat /\ x # 0 /\ x - 1 \in Nat /\ x - 1 < n /\ x - 1 \notin S
  BY <1>2
<1>4. f[x - 1] = g[x - 1]
  BY <1>3
<1>5. f[(x - 1) + 1] = g[(x - 1) + 1]
  BY <1>3, <1>4
<1> QED
  BY <1>2, <1>3, <1>5

\* A step can be taken any number of times.
LEMMA SomeIterations ==
  ASSUME NEW D, NEW next \in [D -> D], NEW start \in D, NEW n \in Nat
  PROVE  \E g : Iterates(g, D, next, start, n)
<1> DEFINE Can(m) == \E g : Iterates(g, D, next, start, m)
           S == {m \in Nat : ~Can(m)}
<1>1. SUFFICES ASSUME S # {} PROVE FALSE
  OBVIOUS
<1>2. PICK x \in S : \A y \in S : x <= y
  <2>1. S \in SUBSET Nat
    OBVIOUS
  <2> HIDE DEF S
  <2> QED
    BY <1>1, <2>1, SmallestExists
<1>3. Can(0)
  <2> DEFINE g == [i \in Nat |-> start]
  <2>1. g \in [Nat -> D] /\ g[0] = start /\ \A i \in Nat : i < 0 => g[i + 1] = next[g[i]]
    OBVIOUS
  <2> HIDE DEF g
  <2> QED
    BY <2>1 DEF Iterates
<1>4. x \in Nat /\ x # 0 /\ x - 1 \in Nat /\ x - 1 \notin S
  <2> HIDE DEF Can
  <2> QED
    BY <1>2, <1>3
<1>5. Can(x - 1)
  <2> HIDE DEF Can
  <2> QED
    BY <1>4
<1>6. PICK g \in [Nat -> D] : g[0] = start /\ \A i \in Nat : i < x - 1 => g[i + 1] = next[g[i]]
  BY <1>5 DEF Iterates
<1> DEFINE h == [i \in Nat |-> IF i = x THEN next[g[x - 1]] ELSE g[i]]
<1>7. h \in [Nat -> D]
  BY <1>4
<1>8. h[0] = start
  BY <1>4, <1>6
<1>9. ASSUME NEW i \in Nat, i < x PROVE h[i + 1] = next[h[i]]
  <2>1. h[i] = g[i]
    BY <1>4, <1>9
  <2>2. CASE i = x - 1
    BY <1>4, <2>1, <2>2
  <2>3. CASE i # x - 1
    <3>1. i < x - 1 /\ i + 1 # x
      BY <1>4, <1>9, <2>3
    <3> QED
      BY <1>6, <2>1, <3>1
  <2> QED
    BY <2>2, <2>3
<1>10. Can(x)
  <2> HIDE DEF h
  <2> QED
    BY <1>7, <1>8, <1>9 DEF Iterates
<1> QED
  BY <1>2, <1>10

\* A step can be taken for ever.
LEMMA IterationExists ==
  ASSUME NEW D, NEW next \in [D -> D], NEW start \in D
  PROVE  \E f : Forever(f, D, next, start)
<1> DEFINE upto(n) == CHOOSE g : Iterates(g, D, next, start, n)
           f == [n \in Nat |-> upto(n)[n]]
<1>1. \A n \in Nat : Iterates(upto(n), D, next, start, n)
  BY SomeIterations
<1> HIDE DEF upto
<1> USE DEF Iterates
<1>2. f \in [Nat -> D]
  BY <1>1
<1>3. f[0] = start
  BY <1>1
<1>4. ASSUME NEW n \in Nat PROVE f[n + 1] = next[f[n]]
  <2>1. upto(n + 1)[n + 1] = next[upto(n + 1)[n]]
    BY <1>1
  <2>2. Iterates(upto(n), D, next, start, n) /\ Iterates(upto(n + 1), D, next, start, n)
    BY <1>1
  <2> HIDE DEF Iterates
  <2>3. \A i \in 0 .. n : upto(n)[i] = upto(n + 1)[i]
    BY <2>2, IterationsAgree
  <2>4. upto(n)[n] = upto(n + 1)[n]
    BY <2>3
  <2> QED
    BY <2>1, <2>4
<1> QED
  <2> HIDE DEF f
  <2> QED
    BY <1>2, <1>3, <1>4 DEF Forever

\* There is but one way.
LEMMA OneWay ==
  ASSUME NEW D, NEW next, NEW start, NEW f, NEW g, Forever(f, D, next, start), Forever(g, D, next, start)
  PROVE  f = g
<1>1. \A n \in Nat : Iterates(f, D, next, start, n) /\ Iterates(g, D, next, start, n)
  BY DEF Forever, Iterates
<1>2. ASSUME NEW n \in Nat PROVE f[n] = g[n]
  <2>1. \A i \in 0 .. n : f[i] = g[i]
    BY <1>1, IterationsAgree
  <2> QED
    BY <2>1
<1> QED
  BY <1>2 DEF Forever

-----------------------------------------------------------------------------
(* Induction up to a number, and the functions it defines. *)

\* What holds at 0, and at each number if it does at the one before, holds up to n.
LEMMA InductionTo ==
  ASSUME NEW n \in Nat, NEW S, 0 \in S, \A i \in 1 .. n : i - 1 \in S => i \in S
  PROVE  \A i \in 0 .. n : i \in S
<1> DEFINE T == {i \in 0 .. n : i \notin S}
<1>1. SUFFICES ASSUME T # {} PROVE FALSE
  OBVIOUS
<1>2. PICK x \in T : \A y \in T : x <= y
  <2>1. T \in SUBSET Nat
    OBVIOUS
  <2> HIDE DEF T
  <2> QED
    BY <1>1, <2>1, SmallestExists
<1>3. x \in 1 .. n /\ x - 1 \in 0 .. n /\ x - 1 \notin T
  BY <1>2
<1> QED
  BY <1>2, <1>3

\* Each step leads from D into D; f takes them one after the other.
StayIn(D, step, n) == \A i \in 1 .. n : step[i] \in [D -> D]
Takes(f, D, start, step, n) == f \in [0 .. n -> D] /\ f[0] = start /\ \A i \in 1 .. n : f[i] = step[i][f[i - 1]]

\* What a recursive definition over 0 .. n names, when each value follows from
\* the one before it and stays in D.
LEMMA RecursionExists ==
  ASSUME NEW n, NEW D, NEW start, NEW step, n \in Nat, start \in D, StayIn(D, step, n)
  PROVE  \E f : Takes(f, D, start, step, n)
<1>0. \A i \in 1 .. n : step[i] \in [D -> D]
  BY DEF StayIn
<1> DEFINE Runs(f, m) == f[0] = start /\ \A i \in 1 .. m : f[i] = step[i][f[i - 1]]
           S == {m \in 0 .. n : \E f \in [0 .. n -> D] : Runs(f, m)}
<1>1. 0 \in S
  <2> DEFINE f == [i \in 0 .. n |-> start]
  <2>1. f \in [0 .. n -> D] /\ Runs(f, 0)
    OBVIOUS
  <2> HIDE DEF f, Runs
  <2> QED
    BY <2>1
<1>2. ASSUME NEW m \in 1 .. n, m - 1 \in S PROVE m \in S
  <2>1. PICK f \in [0 .. n -> D] : Runs(f, m - 1)
    <3> HIDE DEF Runs
    <3> QED
      BY <1>2
  <2> DEFINE g == [i \in 0 .. n |-> IF i = m THEN step[m][f[m - 1]] ELSE f[i]]
  <2>2. m - 1 \in 0 .. n /\ f[m - 1] \in D /\ step[m][f[m - 1]] \in D
    BY <1>0, <2>1
  <2>3. g \in [0 .. n -> D] /\ g[0] = f[0]
    BY <2>1, <2>2
  <2>4. ASSUME NEW i \in 1 .. m PROVE g[i] = step[i][g[i - 1]]
    <3>1. i - 1 \in 0 .. n /\ i - 1 # m /\ g[i - 1] = f[i - 1]
      BY <2>1
    <3>2. CASE i = m
      BY <3>1, <3>2
    <3>3. CASE i # m
      <4>1. i \in 1 .. m - 1 /\ g[i] = f[i]
        BY <3>3
      <4> QED
        BY <2>1, <3>1, <4>1
    <3> QED
      BY <3>2, <3>3
  <2>5. Runs(g, m)
    BY <2>1, <2>3, <2>4
  <2> HIDE DEF g, Runs
  <2> QED
    BY <2>3, <2>5
<1>3. n \in S
  <2> HIDE DEF S
  <2> QED
    BY <1>1, <1>2, InductionTo
<1> HIDE DEF Runs
<1>4. PICK f \in [0 .. n -> D] : Runs(f, n)
  BY <1>3
<1> QED
  BY <1>4 DEF Runs, Takes
\* A number lies in the multiple its quotient counts, and in no other.
LEMMA Quotient ==
  ASSUME NEW n \in Nat, NEW w \in Nat \ {0}
  PROVE  /\ n \div w \in Nat /\ (n \div w) * w <= n /\ n < (n \div w + 1) * w
         /\ \A m \in Nat : m * w <= n /\ n < (m + 1) * w => n \div w = m
<1>1. n \div w \in Nat
  OBVIOUS
<1>2. (n \div w) * w <= n
  OBVIOUS
<1>3. n < (n \div w + 1) * w
  OBVIOUS
<1>4. ASSUME NEW m \in Nat, m * w <= n, n < (m + 1) * w PROVE n \div w = m
  <2>1. n - m * w \in 0 .. w - 1 /\ n = m * w + (n - m * w)
    <3>1. m * w \in Nat /\ (m + 1) * w = m * w + w
      OBVIOUS
    <3> QED
      BY <1>4, <3>1
  <2>2. \A a \in Nat, r \in 0 .. w - 1 : (a * w + r) \div w = a
    OBVIOUS
  <2> QED
    BY <2>1, <2>2
<1> QED
  BY <1>1, <1>2, <1>3, <1>4
=============================================================================
