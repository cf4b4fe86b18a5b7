----------------------------- MODULE Induction -----------------------------
(***************************************************************************)
(* Induction over the natural numbers with sets in place of predicates, and *)
(* the existence of the functions that the model defines by recursion on    *)
(* the positions of a sequence.                                             *)
(***************************************************************************)
EXTENDS Integers, WellFoundedInduction, TLAPS

LessThan == {p \in Nat \X Nat : p[1] < p[2]}

LEMMA LessWellFounded == IsWellFoundedOn(LessThan, Nat)
  BY NatLessThanWellFounded DEF LessThan, OpToRel

(* A set of natural numbers has a least element.                            *)
LEMMA Least ==
  ASSUME NEW T, T \subseteq Nat, T # {}
  PROVE  \E x \in T : \A y \in T : x <= y
<1>1. PICK x \in T : \A y \in T : ~ (<<y, x>> \in LessThan)
  BY LessWellFounded, WFMin
<1>2. ASSUME NEW y \in T PROVE x <= y
  <2>1. x \in Nat /\ y \in Nat /\ (y < x => <<y, x>> \in LessThan)
    BY DEF LessThan
  <2> QED
    BY <1>1, <2>1
<1> QED
  BY <1>2

LEMMA SetInduction ==
  ASSUME NEW S, 0 \in S, \A n \in Nat : n \in S => n + 1 \in S
  PROVE  Nat \subseteq S
<1> SUFFICES ASSUME Nat \ S # {} PROVE FALSE
  OBVIOUS
<1>1. PICK n \in Nat \ S : \A m \in Nat \ S : n <= m
  BY Least
<1>2. n # 0 /\ n - 1 \in Nat
  BY <1>1
<1>3. n - 1 \in S
  BY <1>1, <1>2
<1> QED
  BY <1>1, <1>2, <1>3

(* Up to N, where the step needs to be taken below N only.                  *)
LEMMA UpTo ==
  ASSUME NEW N \in Nat, NEW S, 0 \in S, \A n \in 0 .. N - 1 : n \in S => n + 1 \in S
  PROVE  0 .. N \subseteq S
<1> DEFINE T == {n \in Nat : n <= N => n \in S}
<1>1. 0 \in T
  OBVIOUS
<1>2. ASSUME NEW n \in Nat, n \in T
      PROVE  n + 1 \in T
  <2> SUFFICES ASSUME n + 1 <= N PROVE n + 1 \in S
    OBVIOUS
  <2>1. n \in 0 .. N - 1 /\ n \in S
    BY <1>2
  <2> QED
    BY <2>1
<1> HIDE DEF T
<1>3. Nat \subseteq T
  BY <1>1, <1>2, SetInduction
<1> QED
  BY <1>3 DEF T

(* f is what a recursion over 1 .. N from a base value defines: step[k]     *)
(* takes the value before position k to the one after it.                   *)
Iterates(f, T, N, base, step) ==
  /\ f \in [0 .. N -> T]
  /\ f[0] = base
  /\ \A k \in 1 .. N : f[k] = step[k][f[k - 1]]

LEMMA Iteration ==
  ASSUME NEW T, NEW N \in Nat, NEW base \in T, NEW step \in [1 .. N -> [T -> T]]
  PROVE  \E f : Iterates(f, T, N, base, step)
<1> DEFINE S == {n \in 0 .. N : \E f \in [0 .. n -> T] :
                   f[0] = base /\ \A k \in 1 .. n : f[k] = step[k][f[k - 1]]}
<1>1. 0 \in S
  <2> DEFINE f == [k \in 0 .. 0 |-> base]
  <2>1. f \in [0 .. 0 -> T] /\ f[0] = base
    OBVIOUS
  <2>2. \A k \in 1 .. 0 : f[k] = step[k][f[k - 1]]
    OBVIOUS
  <2> HIDE DEF f
  <2> QED
    BY <2>1, <2>2
<1>2. ASSUME NEW n \in 0 .. N - 1, n \in S
      PROVE  n + 1 \in S
  <2>1. PICK f \in [0 .. n -> T] : f[0] = base /\ \A k \in 1 .. n : f[k] = step[k][f[k - 1]]
    BY <1>2
  <2> DEFINE next == step[n + 1][f[n]]
             g == [k \in 0 .. n + 1 |-> IF k <= n THEN f[k] ELSE next]
  <2>2. f[n] \in T /\ n + 1 \in 1 .. N
    BY <2>1
  <2>3. next \in T
    BY <2>2
  <2>4. g \in [0 .. n + 1 -> T]
    BY <2>1, <2>3
  <2>5. g[0] = base
    BY <2>1
  <2>6. ASSUME NEW k \in 1 .. n + 1
        PROVE  g[k] = step[k][g[k - 1]]
    <3>1. CASE k <= n
      BY <2>1, <3>1
    <3>2. CASE k = n + 1
      <4>1. g[k] = next /\ k - 1 = n
        BY <2>2, <3>2
      <4>2. g[n] = f[n]
        BY <2>2
      <4> QED
        BY <3>2, <4>1, <4>2
    <3> QED
      BY <3>1, <3>2
  <2> HIDE DEF g
  <2> QED
    BY <2>2, <2>4, <2>5, <2>6
<1> HIDE DEF S
<1>3. 0 .. N \subseteq S
  BY <1>1, <1>2, UpTo
<1>4. N \in S
  BY <1>3
<1> QED
  BY <1>4 DEF S, Iterates
=============================================================================
