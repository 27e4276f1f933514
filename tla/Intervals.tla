------------------------------ MODULE Intervals ------------------------------
(* Induction and recursion along an interval of numbers, stated with sets   *)
(* and functions, which is how the provers can use them: what the proofs    *)
(* about recursive functions and loops rest on.                             *)
EXTENDS Integers, WellFoundedInduction, TLAPS

(* A set of numbers that is not empty has a least one.                      *)
LEMMA LeastElement ==
  ASSUME NEW T, T \subseteq Nat, T # {}
  PROVE  \E n \in T : \A m \in T : n <= m
<1>1. PICK n \in T : \A m \in T : ~(<<m, n>> \in OpToRel(<, Nat))
  BY NatLessThanWellFounded, WFMin
<1>2. ASSUME NEW m \in T
      PROVE  n <= m
  <2>1. ~(m < n)
    BY <1>1, <<m, n>> \in Nat \X Nat, Zenon DEF OpToRel
  <2> QED
    BY <2>1
<1> QED
  BY <1>2

(* A set with 0 that has with each number the next has all up to N.         *)
LEMMA Induction ==
  ASSUME NEW N \in Nat, NEW T,
         0 \in T, \A n \in 0 .. N - 1 : n \in T => n + 1 \in T
  PROVE  \A n \in 0 .. N : n \in T
<1> SUFFICES ASSUME (0 .. N) \ T # {}
             PROVE  FALSE
  OBVIOUS
<1>1. PICK n \in (0 .. N) \ T : \A m \in (0 .. N) \ T : n <= m
  BY (0 .. N) \ T \subseteq Nat, LeastElement
<1>2. n # 0 /\ n - 1 \in 0 .. N - 1
  BY <1>1
<1>3. n - 1 \in T
  BY <1>1, <1>2
<1> QED
  BY <1>1, <1>2, <1>3

(* Step[n] is the n-th step of a recursion that stays in S, and f its       *)
(* result.                                                                  *)
StaysIn(S, N, Step) == \A n \in 1 .. N : \A v \in S : Step[n][v] \in S

Iterates(f, S, N, start, Step) ==
  /\ f \in [0 .. N -> S]
  /\ f[0] = start
  /\ \A n \in 1 .. N : f[n] = Step[n][f[n - 1]]

(* A function may be defined along an interval by its values at 0 and at    *)
(* the next number: what a recursive function on sequences amounts to.      *)
LEMMA Recursion ==
  ASSUME NEW S, NEW N \in Nat, NEW start \in S, NEW Step, StaysIn(S, N, Step)
  PROVE  \E f : Iterates(f, S, N, start, Step)
<1> DEFINE T == {k \in 0 .. N : \E f : Iterates(f, S, k, start, Step)}
<1>1. 0 \in T
  <2>1. Iterates([n \in 0 .. 0 |-> start], S, 0, start, Step)
    BY DEF Iterates
  <2> QED
    BY <2>1
<1>2. ASSUME NEW k \in 0 .. N - 1, k \in T
      PROVE  k + 1 \in T
  <2>1. PICK f : Iterates(f, S, k, start, Step)
    BY <1>2
  <2> DEFINE g == [n \in 0 .. k + 1 |-> IF n = k + 1 THEN Step[n][f[k]] ELSE f[n]]
  <2>2. g \in [0 .. k + 1 -> S]
    <3>1. Step[k + 1][f[k]] \in S
      BY <2>1 DEF Iterates, StaysIn
    <3> QED
      BY <2>1, <3>1 DEF Iterates
  <2>3. ASSUME NEW n \in 1 .. k + 1
        PROVE  g[n] = Step[n][g[n - 1]]
    <3>1. CASE n = k + 1
      BY <3>1
    <3>2. CASE n \in 1 .. k
      BY <2>1, <3>2 DEF Iterates
    <3> QED
      BY <3>1, <3>2
  <2>4. g[0] = start
    BY <2>1 DEF Iterates
  <2>5. Iterates(g, S, k + 1, start, Step)
    BY <2>2, <2>3, <2>4 DEF Iterates
  <2> QED
    BY <2>5
<1>3. N \in T
  <2> HIDE DEF T
  <2> QED
    BY <1>1, <1>2, N \in 0 .. N, Induction
<1> QED
  BY <1>3
=============================================================================
