------------------------------- MODULE Sha1Arith -------------------------------
(***************************************************************************)
(* Facts about numbers that the proofs rest on: %, for block boundaries    *)
(* (modulo B) seen through a counter that wraps (modulo a multiple of B),  *)
(* and induction, for functions defined by recursion.                      *)
(***************************************************************************)
EXTENDS Integers, WellFoundedInduction, TLAPS

(* Division with remainder. *)
LEMMA DivMod ==
  ASSUME NEW x \in Int, NEW b \in Nat \ {0}
  PROVE  \E q \in Int, r \in 0 .. b - 1 : x = b * q + r /\ x % b = r
<1>1. x % b \in 0 .. b - 1 /\ x \div b \in Int /\ x = b * (x \div b) + (x % b)
  BY SMT
<1> QED
  BY <1>1

(* The remainder is unique. *)
LEMMA ModUnique ==
  ASSUME NEW b \in Nat \ {0}, NEW q \in Int, NEW r \in 0 .. b - 1
  PROVE  (b * q + r) % b = r
  BY SMT

(* Whole multiples of the modulus do not matter. *)
LEMMA ModAddMultiple ==
  ASSUME NEW b \in Nat \ {0}, NEW q \in Int, NEW x \in Int
  PROVE  (x + b * q) % b = x % b
<1>1. PICK p \in Int, r \in 0 .. b - 1 : x = b * p + r /\ x % b = r
  BY DivMod
<1>2. x = b * p + r
  BY <1>1
<1>3. x + b * q = b * (p + q) + r
  BY <1>2, SMT
<1>4. (b * (p + q) + r) % b = r
  BY ModUnique, p + q \in Int
<1> QED
  BY <1>1, <1>3, <1>4

(* Neither do they inside a sum. *)
LEMMA ModOfSum ==
  ASSUME NEW b \in Nat \ {0}, NEW x \in Int, NEW k \in Int
  PROVE  ((x % b) + k) % b = (x + k) % b
<1>1. PICK p \in Int, r \in 0 .. b - 1 : x = b * p + r /\ x % b = r
  BY DivMod
<1>2. x = b * p + r
  BY <1>1
<1>3. x + k = (r + k) + b * p
  BY <1>2, SMT
<1>4. ((r + k) + b * p) % b = (r + k) % b
  BY ModAddMultiple, r + k \in Int
<1> QED
  BY <1>1, <1>3, <1>4

(* Or inside a product. *)
LEMMA ModOfProduct ==
  ASSUME NEW b \in Nat \ {0}, NEW x \in Int, NEW k \in Int
  PROVE  (k * (x % b)) % b = (k * x) % b
<1>1. PICK p \in Int, r \in 0 .. b - 1 : x = b * p + r /\ x % b = r
  BY DivMod
<1>2. x = b * p + r
  BY <1>1
<1>3. k * x = k * r + b * (k * p)
  BY <1>2, SMT
<1>4. k * r \in Int /\ k * p \in Int
  BY SMT
<1>5. (k * r + b * (k * p)) % b = (k * r) % b
  BY <1>4, ModAddMultiple
<1> QED
  BY <1>1, <1>3, <1>5

(* A counter modulo m still tells the position in a block of b bytes. *)
LEMMA ModOfMod ==
  ASSUME NEW b \in Nat \ {0}, NEW m \in Nat \ {0}, m % b = 0, NEW x \in Int
  PROVE  (x % m) % b = x % b
<1>1. PICK p \in Int, r \in 0 .. m - 1 : x = m * p + r /\ x % m = r
  BY DivMod
<1>2. PICK w \in Int : m = b * w
  BY DivMod
<1>3. x = m * p + r
  BY <1>1
<1>4. x = r + b * (w * p)
  BY <1>2, <1>3, SMT
<1>5. w * p \in Int /\ r \in Int
  BY SMT
<1>6. (r + b * (w * p)) % b = r % b
  BY <1>5, ModAddMultiple
<1> QED
  BY <1>1, <1>4, <1>6

(* Past whole blocks, the position in the block is what is left. *)
LEMMA ModAfterBlocks ==
  ASSUME NEW b \in Nat \ {0}, NEW d \in Int, d % b = 0, NEW k \in 0 .. b - 1
  PROVE  (d + k) % b = k
<1>1. PICK p \in Int, r \in 0 .. b - 1 : d = b * p + r /\ d % b = r
  BY DivMod
<1>2. d = b * p
  BY <1>1, SMT
<1>3. (b * p + k) % b = k
  BY ModUnique
<1> QED
  BY <1>2, <1>3

(* One more whole block ends on a block boundary. *)
LEMMA ModNextBlock ==
  ASSUME NEW b \in Nat \ {0}, NEW d \in Int, d % b = 0
  PROVE  (d + b) % b = 0
<1>1. (d + b * 1) % b = d % b
  BY ModAddMultiple
<1>2. b * 1 = b
  BY SMT
<1> QED
  BY <1>1, <1>2

-------------------------------------------------------------------------------
(***************************************************************************)
(* Induction.                                                              *)
(***************************************************************************)
LEMMA LessIsWellFounded == IsWellFoundedOn({p \in Nat \X Nat : p[1] < p[2]}, Nat)
  BY NatLessThanWellFounded DEF OpToRel

(* A set of natural numbers has a least one. *)
LEMMA LeastNumber ==
  ASSUME NEW S, S \subseteq Nat, S # {}
  PROVE  \E n \in S : \A k \in S : n <= k
<1> DEFINE R == {p \in Nat \X Nat : p[1] < p[2]}
<1>1. IsWellFoundedOn(R, Nat)
  BY LessIsWellFounded
<1> HIDE DEF R
<1>2. PICK n \in S : \A k \in S : <<k, n>> \notin R
  BY <1>1, WFMin
<1>3. ASSUME NEW k \in S PROVE n <= k
  <2>1. <<k, n>> \notin R
    BY <1>2
  <2>2. k \in Nat /\ n \in Nat
    OBVIOUS
  <2>3. ~(k < n)
    BY <2>1, <2>2 DEF R
  <2> QED
    BY <2>2, <2>3
<1> QED
  BY <1>3

(* What holds of 0, and of the successor of each number it holds of, holds  *)
(* of all: stated of the set of numbers, so that it takes no operator.      *)
LEMMA Induction ==
  ASSUME NEW S, 0 \in S, \A n \in Nat : n \in S => n + 1 \in S
  PROVE  Nat \subseteq S
<1> SUFFICES ASSUME Nat \ S # {} PROVE FALSE
  OBVIOUS
<1>1. PICK n \in Nat \ S : \A k \in Nat \ S : n <= k
  BY LeastNumber
<1>2. n # 0 /\ n - 1 \in Nat
  OBVIOUS
<1>3. n - 1 \in S
  BY <1>1, <1>2
<1> QED
  BY <1>1, <1>2, <1>3

(* Step by step, a function can be defined on 0 .. n. *)
Successors(V, n) == [V \X (0 .. n - 1) -> V]

IsIteration(f, n, V, v, next) ==
  /\ f \in [0 .. n -> V]
  /\ f[0] = v /\ \A k \in 0 .. n - 1 : f[k + 1] = next[<<f[k], k>>]

LEMMA Recursion ==
  ASSUME NEW n \in Nat, NEW V, NEW v \in V, NEW next \in Successors(V, n)
  PROVE  \E f : IsIteration(f, n, V, v, next)
<1> USE DEF Successors
<1> DEFINE Holds(f, m) == f[0] = v /\ \A k \in 0 .. m - 1 : f[k + 1] = next[<<f[k], k>>]
           S == {m \in Nat : m <= n => \E f \in [0 .. n -> V] : Holds(f, m)}
<1>1. 0 \in S
  <2>1. Holds([k \in 0 .. n |-> v], 0)
    OBVIOUS
  <2> QED
    BY <2>1
<1>2. ASSUME NEW m \in Nat, m \in S PROVE m + 1 \in S
  <2> SUFFICES ASSUME m + 1 <= n PROVE \E f \in [0 .. n -> V] : Holds(f, m + 1)
    OBVIOUS
  <2>1. PICK f \in [0 .. n -> V] : Holds(f, m)
    BY <1>2
  <2> DEFINE g == [f EXCEPT ![m + 1] = next[<<f[m], m>>]]
  <2>2. m \in 0 .. n /\ m \in 0 .. n - 1 /\ m + 1 \in 0 .. n
    OBVIOUS
  <2>3. next[<<f[m], m>>] \in V
    BY <2>1, <2>2
  <2>4. g \in [0 .. n -> V]
    BY <2>1, <2>3
  <2>5. g[m + 1] = next[<<f[m], m>>] /\ \A k \in 0 .. m : g[k] = f[k]
    BY <2>1, <2>2
  <2>6. Holds(g, m + 1)
    <3> HIDE DEF g
    <3>1. g[0] = v /\ g[m] = f[m]
      BY <2>1, <2>5
    <3>2. ASSUME NEW k \in 0 .. m PROVE g[k + 1] = next[<<g[k], k>>]
      <4>1. CASE k = m
        BY <2>5, <3>1, <4>1
      <4>2. CASE k \in 0 .. m - 1
        BY <2>1, <2>5, <4>2
      <4> QED
        BY <4>1, <4>2
    <3> QED BY <3>1, <3>2
  <2> QED
    BY <2>4, <2>6
<1>3. n \in S
  <2> HIDE DEF S
  <2> QED BY <1>1, <1>2, Induction
<1> QED
  BY <1>3 DEF IsIteration

(* The same for the numbers up to n. *)
LEMMA IntervalInduction ==
  ASSUME NEW n \in Nat, NEW S, 0 \in S, \A k \in 0 .. n - 1 : k \in S => k + 1 \in S
  PROVE  0 .. n \subseteq S
<1> DEFINE T == {k \in Nat : k <= n => k \in S}
<1>1. 0 \in T
  OBVIOUS
<1>2. \A k \in Nat : k \in T => k + 1 \in T
  OBVIOUS
<1>3. Nat \subseteq T
  <2> HIDE DEF T
  <2> QED
    BY <1>1, <1>2, Induction
<1> QED
  BY <1>3

(* A function on all numbers, that goes step by step. *)
NatSuccessors(V) == [V \X Nat -> V]

IsNatIteration(f, V, v, next) ==
  f \in [Nat -> V] /\ f[0] = v /\ \A k \in Nat : f[k + 1] = next[<<f[k], k>>]

LEMMA NatRecursion ==
  ASSUME NEW V, NEW v \in V, NEW next \in NatSuccessors(V)
  PROVE  \E f : IsNatIteration(f, V, v, next)
<1> USE DEF NatSuccessors
<1> DEFINE nextTo(n) == [q \in V \X (0 .. n - 1) |-> next[q]]
           Upto(f, n) == IsIteration(f, n, V, v, nextTo(n))
           upto == [n \in Nat |-> CHOOSE f : Upto(f, n)]
           g == [n \in Nat |-> upto[n][n]]
<1>1. ASSUME NEW n \in Nat
      PROVE  /\ upto[n] \in [0 .. n -> V] /\ upto[n][0] = v
             /\ \A k \in 0 .. n - 1 : upto[n][k + 1] = next[<<upto[n][k], k>>]
  <2>1. nextTo(n) \in Successors(V, n)
    BY DEF Successors
  <2> HIDE DEF nextTo
  <2>2. \E f : Upto(f, n)
    BY <2>1, Recursion
  <2>3. Upto(upto[n], n)
    <3> HIDE DEF Upto
    <3> QED BY <2>2
  <2> DEFINE f == upto[n]
  <2> HIDE DEF upto
  <2>4. f \in [0 .. n -> V] /\ f[0] = v /\ \A k \in 0 .. n - 1 : f[k + 1] = nextTo(n)[<<f[k], k>>]
    BY <2>3 DEF IsIteration
  <2>5. ASSUME NEW k \in 0 .. n - 1 PROVE f[k + 1] = next[<<f[k], k>>]
    <3>1. <<f[k], k>> \in V \X (0 .. n - 1)
      BY <2>4
    <3>2. nextTo(n)[<<f[k], k>>] = next[<<f[k], k>>]
      BY <3>1 DEF nextTo
    <3> QED BY <2>4, <3>2
  <2> QED BY <2>4, <2>5
<1> HIDE DEF upto
<1>2. ASSUME NEW n \in Nat PROVE upto[n + 1][n] = upto[n][n]
  <2> DEFINE S == {k \in 0 .. n : upto[n + 1][k] = upto[n][k]}
  <2>0. n + 1 \in Nat /\ (n + 1) - 1 = n
    OBVIOUS
  <2>1. 0 \in S
    BY <1>1, <2>0
  <2>2. ASSUME NEW k \in 0 .. n - 1, k \in S PROVE k + 1 \in S
    <3>1. k \in 0 .. n /\ k \in 0 .. (n + 1) - 1 /\ k + 1 \in 0 .. n
      BY <2>0
    <3>2. upto[n + 1][k + 1] = next[<<upto[n + 1][k], k>>]
      BY <1>1, <2>0, <3>1
    <3>3. upto[n][k + 1] = next[<<upto[n][k], k>>]
      BY <1>1, <2>2
    <3> QED BY <2>2, <3>1, <3>2, <3>3
  <2>3. 0 .. n \subseteq S
    <3> HIDE DEF S
    <3> QED BY <2>1, <2>2, IntervalInduction
  <2> QED BY <2>3
<1>3. g \in [Nat -> V]
  <2>1. ASSUME NEW n \in Nat PROVE upto[n][n] \in V
    BY <1>1
  <2> QED BY <2>1
<1>4. g[0] = v
  BY <1>1
<1>5. ASSUME NEW k \in Nat PROVE g[k + 1] = next[<<g[k], k>>]
  <2>1. k \in 0 .. (k + 1) - 1 /\ k + 1 \in Nat
    OBVIOUS
  <2>2. upto[k + 1][k + 1] = next[<<upto[k + 1][k], k>>]
    BY <1>1, <2>1
  <2> QED BY <1>2, <2>1, <2>2
<1> HIDE DEF g
<1> QED BY <1>3, <1>4, <1>5 DEF IsNatIteration
===============================================================================
