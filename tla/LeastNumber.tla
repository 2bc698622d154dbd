---------------------------- MODULE LeastNumber ----------------------------
(***************************************************************************)
(* The least number principle, in a form that speaks of a set: what the    *)
(* oldest row, or the first check that fails, rests on.  Induction and     *)
(* recursion follow from it in the same form, with a set for what is       *)
(* proved and a function for a step, so that the provers can use them:     *)
(* what the digits of an amount rest on.                                   *)
(***************************************************************************)
EXTENDS Integers, FiniteSetTheorems, WellFoundedInduction, TLAPS

\* Finite sets are well founded under inclusion, so one of the initial
\* segments of a set of naturals is minimal.
LEMMA LeastExists ==
  ASSUME NEW S, S \subseteq Nat, S # {}
  PROVE  \E n \in S : \A k \in S : n <= k
<1> DEFINE Below(n) == {k \in S : k <= n}
           T == {Below(n) : n \in S}
<1>1. ASSUME NEW n \in S
      PROVE  Below(n) \in FiniteSubsetsOf(S)
  <2>1. n \in Nat /\ Below(n) \in SUBSET Nat /\ \A k \in Below(n) : k <= n
    OBVIOUS
  <2>2. IsFiniteSet(Below(n))
    BY <2>1, FS_BoundedSetOfNaturals
  <2> QED
    BY <2>2 DEF FiniteSubsetsOf
<1>2. T \subseteq FiniteSubsetsOf(S) /\ T # {}
  BY <1>1
<1>3. PICK x \in T : \A y \in T : ~(<<y, x>> \in StrictSubsetOrdering(S))
  BY <1>2, FS_StrictSubsetOrderingWellFounded, WFMin
<1>4. PICK n \in S : x = Below(n)
  OBVIOUS
<1>5. ASSUME NEW k \in S, k < n
      PROVE  FALSE
  <2>1. k \in Nat /\ n \in Nat
    OBVIOUS
  <2>2. \A j \in S : j \in Nat /\ (j <= k => j <= n)
    BY <1>5, <2>1
  <2>3. n <= n /\ ~(n <= k)
    BY <1>5, <2>1
  <2>4. Below(k) \subseteq Below(n) /\ n \in Below(n) /\ n \notin Below(k)
    BY <2>2, <2>3, Zenon
  <2>5. <<Below(k), Below(n)>> \in StrictSubsetOrdering(S)
    BY <2>4 DEF StrictSubsetOrdering
  <2> QED
    BY <1>3, <1>4, <2>5
<1> QED
  BY <1>5

LEMMA GreatestExists ==
  ASSUME NEW m \in Nat, NEW S, S \subseteq 0..m, S # {}
  PROVE  \E n \in S : \A k \in S : n >= k
<1> DEFINE T == {m - k : k \in S}
<1>1. T \subseteq Nat /\ T # {}
  <2>1. ASSUME NEW k \in S
        PROVE  m - k \in Nat
    <3>1. k \in 0..m
      OBVIOUS
    <3> QED
      BY <3>1
  <2> QED
    BY <2>1
<1>2. PICK t \in T : \A u \in T : t <= u
  BY <1>1, LeastExists
<1>3. PICK n \in S : t = m - n
  OBVIOUS
<1>4. ASSUME NEW k \in S
      PROVE  n >= k
  <2>1. m - n <= m - k
    BY <1>2, <1>3
  <2>2. n \in 0..m /\ k \in 0..m
    OBVIOUS
  <2> QED
    BY <2>1, <2>2
<1> QED
  BY <1>4

\* Induction over the naturals that are in a set.
LEMMA Induction ==
  ASSUME NEW P, 0 \in P, \A n \in Nat : n \in P => n + 1 \in P
  PROVE  Nat \subseteq P
<1> SUFFICES ASSUME Nat \ P # {}
             PROVE  FALSE
  OBVIOUS
<1>1. PICK n \in Nat \ P : \A k \in Nat \ P : n <= k
  <2>1. Nat \ P \subseteq Nat
    OBVIOUS
  <2> QED
    BY <2>1, LeastExists
<1>2. n # 0 /\ n - 1 \in Nat /\ (n - 1) + 1 = n /\ ~(n <= n - 1)
  BY <1>1
<1>3. n - 1 \in P
  BY <1>1, <1>2
<1> QED
  BY <1>1, <1>2, <1>3

-----------------------------------------------------------------------------
(* Functions by recursion: f begins a sequence with base and goes on, up   *)
(* to n, by a step that sees the index and the value before.               *)

Follows(f, base, step, n) ==
  /\ f[0] = base
  /\ \A i \in 0..(n - 1) : f[i + 1] = step[<<i, f[i]>>]

\* Two functions that follow the same steps agree.
LEMMA OneFollows ==
  ASSUME NEW base, NEW step, NEW n \in Nat, NEW m \in Nat, n <= m, NEW f, NEW g,
         Follows(f, base, step, n), Follows(g, base, step, m)
  PROVE  f[n] = g[n]
<1> DEFINE P == {i \in Nat : i <= n => f[i] = g[i]}
<1>1. 0 \in P
  BY DEF Follows
<1>2. ASSUME NEW i \in Nat, i \in P
      PROVE  i + 1 \in P
  <2> SUFFICES ASSUME i + 1 <= n
               PROVE  f[i + 1] = g[i + 1]
    OBVIOUS
  <2>1. f[i] = g[i] /\ i \in 0..(n - 1) /\ i \in 0..(m - 1)
    BY <1>2
  <2> QED
    BY <2>1 DEF Follows
<1> HIDE DEF P
<1>3. n \in P
  BY <1>1, <1>2, Induction
<1> QED
  BY <1>3 DEF P

\* Some function follows the steps up to n.
LEMMA SomeFollows ==
  ASSUME NEW S, NEW base \in S, NEW step \in [Nat \X S -> S], NEW n \in Nat
  PROVE  \E f \in [Nat -> S] : Follows(f, base, step, n)
<1> DEFINE P == {i \in Nat : \E f \in [Nat -> S] : Follows(f, base, step, i)}
<1>1. 0 \in P
  <2>1. [i \in Nat |-> base] \in [Nat -> S]
    OBVIOUS
  <2>2. Follows([i \in Nat |-> base], base, step, 0)
    BY DEF Follows
  <2> QED
    BY <2>1, <2>2
<1>2. ASSUME NEW i \in Nat, i \in P
      PROVE  i + 1 \in P
  <2>1. PICK f \in [Nat -> S] : Follows(f, base, step, i)
    BY <1>2
  <2> DEFINE g == [f EXCEPT ![i + 1] = step[<<i, f[i]>>]]
  <2>2. g \in [Nat -> S]
    OBVIOUS
  <2>3. g[0] = base
    BY <2>1 DEF Follows
  <2>4. ASSUME NEW j \in 0..((i + 1) - 1)
        PROVE  g[j + 1] = step[<<j, g[j]>>]
    <3>1. g[j] = f[j] /\ j \in Nat
      OBVIOUS
    <3>2. CASE j = i
      BY <3>1, <3>2
    <3>3. CASE j # i
      <4>1. j \in 0..(i - 1) /\ j + 1 # i + 1 /\ j + 1 \in Nat
        BY <3>3
      <4>2. g[j + 1] = f[j + 1]
        BY <4>1
      <4> QED
        BY <2>1, <3>1, <4>1, <4>2 DEF Follows
    <3> QED
      BY <3>2, <3>3
  <2> HIDE DEF g
  <2>5. Follows(g, base, step, i + 1)
    BY <2>3, <2>4 DEF Follows
  <2> QED
    BY <2>2, <2>5
<1> HIDE DEF P
<1>3. n \in P
  BY <1>1, <1>2, Induction
<1> QED
  BY <1>3 DEF P

\* A function is defined by such a recursion on the naturals up to n.
LEMMA RecursionUpTo ==
  ASSUME NEW S, NEW base \in S, NEW step \in [Nat \X S -> S], NEW n \in Nat
  PROVE  \E f \in [0..n -> S] : Follows(f, base, step, n)
<1>1. PICK f \in [Nat -> S] : Follows(f, base, step, n)
  BY SomeFollows
<1> DEFINE g == [i \in 0..n |-> f[i]]
<1>2. g \in [0..n -> S] /\ g[0] = base
  BY <1>1 DEF Follows
<1>3. ASSUME NEW i \in 0..(n - 1)
      PROVE  g[i + 1] = step[<<i, g[i]>>]
  <2>1. i \in 0..n /\ i + 1 \in 0..n
    OBVIOUS
  <2> QED
    BY <1>1, <2>1 DEF Follows
<1> HIDE DEF g
<1> QED
  BY <1>2, <1>3 DEF Follows

\* A function is defined by such a recursion on all the naturals.
FollowsAll(f, base, step) == \A n \in Nat : Follows(f, base, step, n)

LEMMA RecursionExists ==
  ASSUME NEW S, NEW base \in S, NEW step \in [Nat \X S -> S]
  PROVE  \E f \in [Nat -> S] : FollowsAll(f, base, step)
<1> DEFINE Upto(n) == CHOOSE f \in [Nat -> S] : Follows(f, base, step, n)
           f == [n \in Nat |-> Upto(n)[n]]
<1>1. ASSUME NEW n \in Nat
      PROVE  Upto(n) \in [Nat -> S] /\ Follows(Upto(n), base, step, n)
  BY SomeFollows
<1> HIDE DEF Upto
<1>2. f \in [Nat -> S]
  BY <1>1
<1>3. f[0] = base
  BY <1>1 DEF Follows
<1>4. ASSUME NEW n \in Nat
      PROVE  f[n + 1] = step[<<n, f[n]>>]
  <2> DEFINE g == Upto(n + 1)
  <2>1. n + 1 \in Nat /\ n <= n + 1 /\ n \in 0..((n + 1) - 1)
    OBVIOUS
  <2>2. Follows(g, base, step, n + 1) /\ f[n + 1] = g[n + 1]
    BY <1>1, <2>1
  <2>3. g[n] = f[n]
    BY <1>1, <2>1, OneFollows
  <2>4. g[n + 1] = step[<<n, g[n]>>]
    BY <2>1, <2>2 DEF Follows
  <2> QED
    BY <2>2, <2>3, <2>4
<1> HIDE DEF f
<1>5. ASSUME NEW n \in Nat
      PROVE  Follows(f, base, step, n)
  BY <1>3, <1>4 DEF Follows
<1> QED
  BY <1>2, <1>5 DEF FollowsAll

=============================================================================
