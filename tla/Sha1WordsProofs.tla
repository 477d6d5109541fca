---------------------------- MODULE Sha1WordsProofs ----------------------------
(***************************************************************************)
(* Proofs about the operations on the bits of a word, for words and bytes  *)
(* of any width: what bits the shifts, the rotations and the round         *)
(* functions give, that the byte-order loops are big-endian and undo each  *)
(* other, and that the operations are as Sha1Core asks for.                *)
(***************************************************************************)
EXTENDS Sha1Words, Sha1Arith

-------------------------------------------------------------------------------
(***************************************************************************)
(* Powers of two.                                                          *)
(***************************************************************************)
LEMMA PowerSteps ==
  /\ Power \in [Nat -> Nat \ {0}] /\ Power[0] = 1
  /\ \A n \in Nat : Power[n + 1] = 2 * Power[n]
<1> DEFINE V == Nat \ {0}
           next == [q \in V \X Nat |-> 2 * q[1]]
           body(f) == [n \in Nat |-> IF n = 0 THEN 1 ELSE 2 * f[n - 1]]
           g == CHOOSE f : f = body(f)
<1>1. next \in NatSuccessors(V) /\ 1 \in V
  BY DEF NatSuccessors
<1>2. PICK f \in [Nat -> V] : f[0] = 1 /\ \A k \in Nat : f[k + 1] = next[<<f[k], k>>]
  <2> HIDE DEF next, V
  <2>1. PICK f : IsNatIteration(f, V, 1, next)
    BY <1>1, NatRecursion
  <2> QED BY <2>1 DEF IsNatIteration
<1>3. f = body(f)
  <2>1. ASSUME NEW n \in Nat, n # 0 PROVE f[n] = 2 * f[n - 1]
    <3>1. n - 1 \in Nat /\ (n - 1) + 1 = n
      BY <2>1
    <3>2. <<f[n - 1], n - 1>> \in V \X Nat
      BY <3>1
    <3> QED BY <1>2, <3>1, <3>2
  <2>2. \A n \in Nat : f[n] = IF n = 0 THEN 1 ELSE 2 * f[n - 1]
    BY <1>2, <2>1
  <2>3. f = [n \in Nat |-> f[n]]
    OBVIOUS
  <2> QED BY <2>2, <2>3
<1>4. g = body(g)
  <2> HIDE DEF body
  <2> QED BY <1>3
<1>5. Power = g
  BY DEF Power
<1> HIDE DEF g
<1>6. g[0] = 1 /\ \A n \in Nat : g[n + 1] = 2 * g[n]
  <2>1. g[0] = 1
    BY <1>4
  <2>2. ASSUME NEW n \in Nat PROVE g[n + 1] = 2 * g[n]
    <3>1. n + 1 \in Nat /\ n + 1 # 0 /\ (n + 1) - 1 = n
      OBVIOUS
    <3> QED BY <1>4, <3>1
  <2> QED BY <2>1, <2>2
<1>7. \A n \in Nat : g[n] \in V
  <2> DEFINE S == {n \in Nat : g[n] \in V}
  <2>1. 0 \in S /\ \A n \in Nat : n \in S => n + 1 \in S
    BY <1>6
  <2>2. Nat \subseteq S
    <3> HIDE DEF S
    <3> QED BY <2>1, Induction
  <2> QED BY <2>2
<1>8. g \in [Nat -> V]
  BY <1>4, <1>7
<1> QED BY <1>5, <1>6, <1>8

LEMMA PowerIsPositive ==
  ASSUME NEW n \in Nat PROVE Power[n] \in Nat \ {0}
BY PowerSteps

LEMMA PowerOfSum ==
  ASSUME NEW m \in Nat, NEW n \in Nat
  PROVE  Power[m + n] = Power[m] * Power[n]
<1> DEFINE S == {k \in Nat : Power[m + k] = Power[m] * Power[k]}
<1>1. 0 \in S
  <2>1. m + 0 = m /\ Power[m] * 1 = Power[m]
    BY PowerIsPositive
  <2> QED BY <2>1, PowerSteps
<1>2. ASSUME NEW k \in Nat, k \in S PROVE k + 1 \in S
  <2>1. m + (k + 1) = (m + k) + 1 /\ m + k \in Nat
    OBVIOUS
  <2>2. Power[m + (k + 1)] = 2 * (Power[m] * Power[k])
    BY <1>2, <2>1, PowerSteps
  <2>3. \A a, b \in Nat : 2 * (a * b) = a * (2 * b)
    OBVIOUS
  <2> QED BY <2>2, <2>3, PowerSteps, PowerIsPositive
<1>3. Nat \subseteq S
  <2> HIDE DEF S
  <2> QED BY <1>1, <1>2, Induction
<1> QED BY <1>3

LEMMA PowerGrows ==
  ASSUME NEW m \in Nat, NEW n \in Nat, m <= n PROVE Power[m] <= Power[n]
<1>1. n - m \in Nat /\ m + (n - m) = n
  OBVIOUS
<1>2. Power[n] = Power[m] * Power[n - m]
  BY <1>1, PowerOfSum
<1>3. \A a, b \in Nat \ {0} : a <= a * b
  OBVIOUS
<1> QED BY <1>1, <1>2, <1>3, PowerIsPositive

-------------------------------------------------------------------------------
(***************************************************************************)
(* Division.                                                               *)
(***************************************************************************)
LEMMA DivUnique ==
  ASSUME NEW b \in Nat \ {0}, NEW q \in Int, NEW r \in 0 .. b - 1
  PROVE  (b * q + r) \div b = q
  BY SMT

LEMMA Division ==
  ASSUME NEW v \in Nat, NEW b \in Nat \ {0}
  PROVE  /\ v \div b \in Nat /\ v % b \in 0 .. b - 1
         /\ v = b * (v \div b) + (v % b)
  BY SMT

LEMMA DivOfDiv ==
  ASSUME NEW v \in Nat, NEW a \in Nat \ {0}, NEW b \in Nat \ {0}
  PROVE  (v \div a) \div b = v \div (a * b)
<1> DEFINE q == v \div a   r == v % a   p2 == q \div b   r2 == q % b
<1>1. q \in Nat /\ r \in 0 .. a - 1 /\ v = a * q + r
  BY Division
<1>2. p2 \in Nat /\ r2 \in 0 .. b - 1 /\ q = b * p2 + r2
  BY <1>1, Division
<1> HIDE DEF q, r, p2, r2
<1>3. v = a * (b * p2 + r2) + r
  BY <1>1, <1>2
<1>4. v = (a * b) * p2 + (a * r2 + r)
  BY <1>1, <1>2, <1>3
<1>5. a * r2 + r \in 0 .. (a * b) - 1
  <2>1. r2 + 1 <= b /\ r + 1 <= a /\ r2 \in Nat /\ r \in Nat
    BY <1>1, <1>2
  <2>2. a * (r2 + 1) <= a * b
    BY <2>1
  <2>3. a * (r2 + 1) = a * r2 + a /\ a * r2 \in Nat
    BY <2>1
  <2> QED BY <2>1, <2>2, <2>3
<1>6. a * b \in Nat \ {0}
  OBVIOUS
<1>7. v \div (a * b) = p2
  BY <1>2, <1>4, <1>5, <1>6, DivUnique
<1> QED BY <1>7 DEF p2, q

LEMMA DivOfMultiple ==
  ASSUME NEW v \in Nat, NEW a \in Nat \ {0}, NEW q \in Nat
  PROVE  (a * q + v) \div a = q + (v \div a)
<1>1. v \div a \in Nat /\ v % a \in 0 .. a - 1 /\ v = a * (v \div a) + (v % a)
  BY Division
<1>2. a * q + v = a * (q + (v \div a)) + (v % a)
  BY <1>1
<1> QED BY <1>1, <1>2, DivUnique

-------------------------------------------------------------------------------
(***************************************************************************)
(* The bits of a number.                                                   *)
(***************************************************************************)
LEMMA ShiftIsNumber ==
  ASSUME NEW v \in Nat, NEW s \in Nat PROVE ShiftRight(v, s) \in Nat
BY PowerIsPositive, Division DEF ShiftRight

LEMMA BitIsBit ==
  ASSUME NEW v \in Nat, NEW k \in Nat PROVE Bit(v, k) \in {0, 1}
<1>1. ShiftRight(v, k) \in Nat
  BY ShiftIsNumber
<1>2. \A a \in Nat : a % 2 \in {0, 1}
  OBVIOUS
<1> QED BY <1>1, <1>2 DEF Bit

LEMMA ShiftAgain ==
  ASSUME NEW v \in Nat, NEW s \in Nat, NEW k \in Nat
  PROVE  ShiftRight(ShiftRight(v, s), k) = ShiftRight(v, s + k)
<1>1. Power[s] \in Nat \ {0} /\ Power[k] \in Nat \ {0}
  BY PowerIsPositive
<1>2. (v \div Power[s]) \div Power[k] = v \div (Power[s] * Power[k])
  BY <1>1, DivOfDiv
<1> QED BY <1>2, PowerOfSum DEF ShiftRight

LEMMA BitOfShift ==
  ASSUME NEW v \in Nat, NEW s \in Nat, NEW k \in Nat
  PROVE  Bit(ShiftRight(v, s), k) = Bit(v, s + k)
BY ShiftAgain DEF Bit

(* The bits below bit n are those of the remainder. *)
LEMMA LowBits ==
  ASSUME NEW v \in Nat, NEW n \in Nat, NEW k \in 0 .. n - 1
  PROVE  Bit(v % Power[n], k) = Bit(v, k)
<1> DEFINE q == v \div Power[n]   r == v % Power[n]   h == Power[n - 1 - k]
<1>1. k \in Nat /\ n - 1 - k \in Nat /\ (n - 1 - k) + 1 \in Nat /\ k + ((n - 1 - k) + 1) = n
  OBVIOUS
<1>2. q \in Nat /\ r \in Nat /\ v = Power[n] * q + r
  <2>1. Power[n] \in Nat \ {0}
    BY PowerIsPositive
  <2>2. \A a \in 0 .. Power[n] - 1 : a \in Nat
    BY <2>1
  <2> QED BY <2>1, <2>2, Division
<1>3. Power[n] = Power[k] * (2 * h) /\ h \in Nat /\ Power[k] \in Nat \ {0}
  <2>1. h \in Nat /\ Power[k] \in Nat \ {0}
    BY <1>1, PowerIsPositive
  <2>2. Power[(n - 1 - k) + 1] = 2 * h
    BY <1>1, PowerSteps
  <2>3. Power[k + ((n - 1 - k) + 1)] = Power[k] * Power[(n - 1 - k) + 1]
    BY <1>1, PowerOfSum
  <2> QED BY <1>1, <2>1, <2>2, <2>3
<1> HIDE DEF q, r, h
<1>4. v = Power[k] * (2 * (h * q)) + r
  <2>1. \A a, b, c \in Nat : (a * (2 * b)) * c = a * (2 * (b * c))
    OBVIOUS
  <2> QED BY <1>2, <1>3, <2>1
<1>5. h * q \in Nat /\ 2 * (h * q) \in Nat
  BY <1>2, <1>3
<1>6. v \div Power[k] = 2 * (h * q) + (r \div Power[k])
  <2>1. \A a \in Nat \ {0} : \A b, c \in Nat : (a * c + b) \div a = c + (b \div a)
    BY DivOfMultiple
  <2> QED BY <1>2, <1>3, <1>4, <1>5, <2>1
<1>7. r \div Power[k] \in Nat
  BY <1>2, <1>3, Division
<1>8. (v \div Power[k]) % 2 = (r \div Power[k]) % 2
  BY <1>5, <1>6, <1>7
<1> QED BY <1>8 DEF Bit, ShiftRight, r

(* There are none from bit n on. *)
LEMMA HighBits ==
  ASSUME NEW n \in Nat, NEW v \in 0 .. Power[n] - 1, NEW k \in Nat, n <= k
  PROVE  ShiftRight(v, k) = 0 /\ Bit(v, k) = 0
<1>1. Power[n] <= Power[k] /\ Power[n] \in Nat \ {0} /\ Power[k] \in Nat \ {0}
  BY PowerGrows, PowerIsPositive
<1>2. v \in 0 .. Power[k] - 1 /\ Power[k] * 0 + v = v
  BY <1>1
<1>3. v \div Power[k] = 0
  BY <1>1, <1>2, DivUnique
<1> QED BY <1>3 DEF Bit, ShiftRight

(* Numbers with the same bits are the same. *)
LEMMA BitsTell ==
  ASSUME NEW n \in Nat, NEW v \in 0 .. Power[n] - 1, NEW w \in 0 .. Power[n] - 1,
         \A k \in 0 .. n - 1 : Bit(v, k) = Bit(w, k)
  PROVE  v = w
<1> DEFINE Same(m, a, b) == \A k \in 0 .. m - 1 : Bit(a, k) = Bit(b, k)
           S == {m \in Nat : \A a, b \in 0 .. Power[m] - 1 : Same(m, a, b) => a = b}
<1>1. 0 \in S
  BY PowerSteps
<1>2. ASSUME NEW m \in Nat, m \in S PROVE m + 1 \in S
  <2> SUFFICES ASSUME NEW a \in 0 .. Power[m + 1] - 1, NEW b \in 0 .. Power[m + 1] - 1,
                      Same(m + 1, a, b)
               PROVE  a = b
    OBVIOUS
  <2>1. Power[m + 1] = 2 * Power[m] /\ Power[m] \in Nat \ {0} /\ Power[1] = 2 /\ Power[0] = 1
    BY PowerSteps, PowerIsPositive, 0 + 1 = 1
  <2>2. a \in Nat /\ b \in Nat /\ a \div 2 \in 0 .. Power[m] - 1 /\ b \div 2 \in 0 .. Power[m] - 1
    BY <2>1
  <2>3. Same(m, a \div 2, b \div 2)
    <3>1. ASSUME NEW k \in 0 .. m - 1, NEW c \in Nat PROVE Bit(c \div 2, k) = Bit(c, 1 + k)
      <4>1. ShiftRight(c, 1) = c \div 2
        BY <2>1 DEF ShiftRight
      <4>2. Bit(c \div 2, k) = Bit(ShiftRight(c, 1), k)
        BY <4>1, Zenon
      <4>3. 1 \in Nat /\ k \in Nat
        OBVIOUS
      <4> QED BY <4>2, <4>3, BitOfShift
    <3>2. \A k \in 0 .. m - 1 : 1 + k \in 0 .. (m + 1) - 1
      OBVIOUS
    <3> QED BY <2>2, <3>1, <3>2
  <2>4. a \div 2 = b \div 2
    BY <1>2, <2>2, <2>3
  <2>5. Bit(a, 0) = a % 2 /\ Bit(b, 0) = b % 2
    BY <2>1, <2>2 DEF Bit, ShiftRight
  <2>6. a % 2 = b % 2
    BY <2>5, 0 \in 0 .. (m + 1) - 1
  <2> QED BY <2>2, <2>4, <2>6
<1>3. n \in S
  <2> HIDE DEF S
  <2> QED BY <1>1, <1>2, Induction
<1> QED BY <1>3

-------------------------------------------------------------------------------
(***************************************************************************)
(* Words.                                                                  *)
(***************************************************************************)
LEMMA WordsAreNumbers ==
  /\ WordBits \in Nat \ {0} /\ WordSpan \in Nat \ {0} /\ 0 \in Word
  /\ \A v \in Word : v \in Nat
BY BitsAssumption, PowerIsPositive DEF WordSpan, Word

LEMMA SameBitsSameWord ==
  ASSUME NEW v \in Word, NEW w \in Word, \A k \in BitNumbers : Bit(v, k) = Bit(w, k)
  PROVE  v = w
BY WordsAreNumbers, BitsTell DEF Word, WordSpan, BitNumbers

LEMMA NoBitsAbove ==
  ASSUME NEW v \in Word, NEW k \in Nat, WordBits <= k
  PROVE  Bit(v, k) = 0
BY WordsAreNumbers, HighBits DEF Word, WordSpan

(* WordOf gives the word that has the bits given. *)
LEMMA WordOfBits ==
  ASSUME NEW bits \in [BitNumbers -> {0, 1}]
  PROVE  WordOf(bits) \in Word /\ \A k \in BitNumbers : Bit(WordOf(bits), k) = bits[k]
<1> DEFINE next == [q \in Nat \X (0 .. WordBits - 1) |-> q[1] + bits[q[2]] * Power[q[2]]]
           body(f) == [n \in 0 .. WordBits |->
                         IF n = 0 THEN 0 ELSE f[n - 1] + bits[n - 1] * Power[n - 1]]
           g == CHOOSE f : f = body(f)
<1>0. WordBits \in Nat \ {0} /\ BitNumbers = 0 .. WordBits - 1
  BY WordsAreNumbers DEF BitNumbers
<1>1. next \in Successors(Nat, WordBits)
  <2>1. ASSUME NEW q \in Nat \X (0 .. WordBits - 1)
        PROVE  q[1] + bits[q[2]] * Power[q[2]] \in Nat
    <3>1. q[1] \in Nat /\ bits[q[2]] \in Nat /\ q[2] \in Nat
      BY <1>0
    <3>2. Power[q[2]] \in Nat
      BY <3>1, PowerIsPositive
    <3> QED BY <3>1, <3>2
  <2> QED BY <2>1 DEF Successors
<1>2. PICK f \in [0 .. WordBits -> Nat] :
        f[0] = 0 /\ \A n \in 0 .. WordBits - 1 : f[n + 1] = next[<<f[n], n>>]
  <2> HIDE DEF next
  <2>1. PICK f : IsIteration(f, WordBits, Nat, 0, next)
    BY <1>0, <1>1, Recursion
  <2> QED BY <2>1 DEF IsIteration
<1>3. f = body(f)
  <2>1. ASSUME NEW n \in 0 .. WordBits, n # 0
        PROVE  f[n] = f[n - 1] + bits[n - 1] * Power[n - 1]
    <3>1. n - 1 \in 0 .. WordBits - 1 /\ n - 1 \in 0 .. WordBits /\ (n - 1) + 1 = n
      BY <1>0, <2>1
    <3>2. <<f[n - 1], n - 1>> \in Nat \X (0 .. WordBits - 1)
      BY <3>1
    <3>3. f[n] = next[<<f[n - 1], n - 1>>]
      BY <1>2, <3>1
    <3> QED BY <3>2, <3>3
  <2>2. \A n \in 0 .. WordBits :
          f[n] = IF n = 0 THEN 0 ELSE f[n - 1] + bits[n - 1] * Power[n - 1]
    BY <1>2, <2>1
  <2>3. f = [n \in 0 .. WordBits |-> f[n]]
    OBVIOUS
  <2> QED BY <2>2, <2>3
<1>4. g = body(g)
  <2> HIDE DEF body
  <2> QED BY <1>3
<1>5. WordOf(bits) = g[WordBits]
  BY DEF WordOf
<1> HIDE DEF g
<1>6. g[0] = 0
  BY <1>0, <1>4
<1>7. ASSUME NEW n \in BitNumbers PROVE g[n + 1] = g[n] + bits[n] * Power[n]
  <2>1. n + 1 \in 0 .. WordBits /\ n + 1 # 0 /\ (n + 1) - 1 = n
    BY <1>0
  <2> QED BY <1>4, <2>1
<1> DEFINE Low(n) == g[n] \in 0 .. Power[n] - 1 /\ \A k \in 0 .. n - 1 : Bit(g[n], k) = bits[k]
           S == {n \in 0 .. WordBits : Low(n)}
<1>8. 0 \in S
  <2>1. g[0] \in 0 .. Power[0] - 1
    BY <1>6, PowerSteps
  <2>2. ~\E k \in 0 .. 0 - 1 : TRUE
    OBVIOUS
  <2> QED BY <1>0, <2>1, <2>2
<1>9. ASSUME NEW n \in 0 .. WordBits - 1, n \in S PROVE n + 1 \in S
  <2> DEFINE v == g[n]   b == bits[n]   w == g[n + 1]   pow == Power[n]
  <2>1. n \in BitNumbers /\ n \in Nat /\ n + 1 \in 0 .. WordBits
    BY <1>0
  <2>2. pow \in Nat \ {0} /\ Power[n + 1] = 2 * pow /\ b \in {0, 1}
    BY <2>1, PowerIsPositive, PowerSteps
  <2>3. v \in 0 .. pow - 1 /\ \A k \in 0 .. n - 1 : Bit(v, k) = bits[k]
    BY <1>9
  <2>4. w = v + b * pow
    BY <1>7, <2>1
  <2> HIDE DEF v, b, w, pow
  <2>5. w = pow * b + v /\ w \in 0 .. Power[n + 1] - 1
    BY <2>2, <2>3, <2>4
  <2>6. w % pow = v /\ w \div pow = b
    BY <2>2, <2>3, <2>5, ModUnique, DivUnique
  <2>7. ASSUME NEW k \in 0 .. (n + 1) - 1 PROVE Bit(w, k) = bits[k]
    <3>1. CASE k = n
      <4>1. Bit(w, k) = b % 2
        BY <2>6, <3>1 DEF Bit, ShiftRight, pow
      <4> QED BY <2>2, <3>1, <4>1 DEF b
    <3>2. CASE k # n
      <4>1. k \in 0 .. n - 1 /\ w \in Nat
        BY <2>1, <2>2, <2>5, <3>2
      <4>2. Bit(w % Power[n], k) = Bit(w, k)
        BY <2>1, <4>1, LowBits
      <4> QED BY <2>3, <2>6, <4>1, <4>2 DEF pow
    <3> QED BY <3>1, <3>2
  <2> QED BY <2>1, <2>5, <2>7 DEF w
<1>10. WordBits \in S
  <2> HIDE DEF S
  <2>1. 0 .. WordBits \subseteq S
    BY <1>0, <1>8, <1>9, IntervalInduction
  <2> QED BY <1>0, <2>1
<1> QED BY <1>0, <1>5, <1>10 DEF Word, WordSpan

(***************************************************************************)
(* &, | and ^ go bit by bit.                                               *)
(***************************************************************************)
LEMMA AndBits ==
  ASSUME NEW v, NEW w
  PROVE  /\ BitAnd(v, w) \in Word
         /\ \A k \in BitNumbers : Bit(BitAnd(v, w), k) = IF Bit(v, k) = 1 /\ Bit(w, k) = 1 THEN 1 ELSE 0
<1> DEFINE bits == [k \in BitNumbers |-> IF Bit(v, k) = 1 /\ Bit(w, k) = 1 THEN 1 ELSE 0]
<1>1. bits \in [BitNumbers -> {0, 1}]
  OBVIOUS
<1>2. \A k \in BitNumbers : bits[k] = IF Bit(v, k) = 1 /\ Bit(w, k) = 1 THEN 1 ELSE 0
  OBVIOUS
<1>3. BitAnd(v, w) = WordOf(bits)
  BY DEF BitAnd
<1> HIDE DEF bits
<1> QED BY <1>1, <1>2, <1>3, WordOfBits

LEMMA OrBits ==
  ASSUME NEW v, NEW w
  PROVE  /\ BitOr(v, w) \in Word
         /\ \A k \in BitNumbers : Bit(BitOr(v, w), k) = IF Bit(v, k) = 1 \/ Bit(w, k) = 1 THEN 1 ELSE 0
<1> DEFINE bits == [k \in BitNumbers |-> IF Bit(v, k) = 1 \/ Bit(w, k) = 1 THEN 1 ELSE 0]
<1>1. bits \in [BitNumbers -> {0, 1}]
  OBVIOUS
<1>2. \A k \in BitNumbers : bits[k] = IF Bit(v, k) = 1 \/ Bit(w, k) = 1 THEN 1 ELSE 0
  OBVIOUS
<1>3. BitOr(v, w) = WordOf(bits)
  BY DEF BitOr
<1> HIDE DEF bits
<1> QED BY <1>1, <1>2, <1>3, WordOfBits

LEMMA XorBits ==
  ASSUME NEW v, NEW w
  PROVE  /\ BitXor(v, w) \in Word
         /\ \A k \in BitNumbers : Bit(BitXor(v, w), k) = IF Bit(v, k) = Bit(w, k) THEN 0 ELSE 1
<1> DEFINE bits == [k \in BitNumbers |-> IF Bit(v, k) = Bit(w, k) THEN 0 ELSE 1]
<1>1. bits \in [BitNumbers -> {0, 1}]
  OBVIOUS
<1>2. \A k \in BitNumbers : bits[k] = IF Bit(v, k) = Bit(w, k) THEN 0 ELSE 1
  OBVIOUS
<1>3. BitXor(v, w) = WordOf(bits)
  BY DEF BitXor
<1> HIDE DEF bits
<1> QED BY <1>1, <1>2, <1>3, WordOfBits

(***************************************************************************)
(* Shifts bring in zeros.                                                  *)
(***************************************************************************)
LEMMA ShiftRightBits ==
  ASSUME NEW v \in Word, NEW s \in Nat, NEW k \in BitNumbers
  PROVE  Bit(ShiftRight(v, s), k) = IF k + s < WordBits THEN Bit(v, k + s) ELSE 0
<1>1. v \in Nat /\ k \in Nat /\ k + s \in Nat /\ s + k = k + s /\ WordBits \in Nat
  BY WordsAreNumbers DEF BitNumbers
<1>2. Bit(ShiftRight(v, s), k) = Bit(v, k + s)
  BY <1>1, BitOfShift
<1> QED BY <1>1, <1>2, NoBitsAbove

LEMMA ShiftLeftBits ==
  ASSUME NEW v \in Nat, NEW s \in Nat
  PROVE  /\ ShiftLeft(v, s) \in Word
         /\ \A k \in BitNumbers : Bit(ShiftLeft(v, s), k) = IF k >= s THEN Bit(v, k - s) ELSE 0
<1> DEFINE w == v * Power[s]
<1>1. w \in Nat /\ Power[s] \in Nat \ {0} /\ WordBits \in Nat /\ WordSpan \in Nat \ {0}
  BY PowerIsPositive, WordsAreNumbers
<1>2. ShiftLeft(v, s) = w % WordSpan
  BY DEF ShiftLeft
<1>3. w % WordSpan \in 0 .. WordSpan - 1
  <2> HIDE DEF w
  <2> QED BY <1>1, Division
<1>4. ASSUME NEW k \in BitNumbers
      PROVE  Bit(w % WordSpan, k) = IF k >= s THEN Bit(v, k - s) ELSE 0
  <2>0. k \in Nat /\ k \in 0 .. WordBits - 1
    BY <1>1 DEF BitNumbers
  <2>1. Bit(w % WordSpan, k) = Bit(w, k)
    <3> HIDE DEF w
    <3> QED BY <1>1, <2>0, LowBits DEF WordSpan
  <2>2. CASE k >= s
    <3>1. k - s \in Nat /\ s + (k - s) = k
      BY <2>0, <2>2
    <3>2. ShiftRight(w, s) = v
      <4>1. w = Power[s] * v + 0 /\ 0 \in 0 .. Power[s] - 1 /\ v \in Int
        BY <1>1
      <4> HIDE DEF w
      <4> QED BY <1>1, <4>1, DivUnique DEF ShiftRight
    <3>3. Bit(ShiftRight(w, s), k - s) = Bit(w, k)
      <4> HIDE DEF w
      <4> QED BY <1>1, <3>1, BitOfShift
    <3> QED BY <2>1, <2>2, <3>2, <3>3
  <2>3. CASE ~(k >= s)
    <3> DEFINE h == Power[s - k - 1]
    <3>1. s - k - 1 \in Nat /\ k + ((s - k - 1) + 1) = s /\ (s - k - 1) + 1 \in Nat
      BY <2>0, <2>3
    <3>2. h \in Nat /\ Power[k] \in Nat \ {0} /\ Power[(s - k - 1) + 1] = 2 * h
      BY <2>0, <3>1, PowerIsPositive, PowerSteps
    <3>3. Power[s] = Power[k] * (2 * h)
      <4>1. Power[k + ((s - k - 1) + 1)] = Power[k] * Power[(s - k - 1) + 1]
        BY <2>0, <3>1, PowerOfSum
      <4> QED BY <3>1, <3>2, <4>1
    <3> HIDE DEF h
    <3>4. w = Power[k] * (2 * (h * v)) + 0
      <4>1. \A a, b, c \in Nat : c * (a * (2 * b)) = a * (2 * (b * c)) + 0
        OBVIOUS
      <4> QED BY <3>2, <3>3, <4>1
    <3> HIDE DEF w
    <3>5. h * v \in Nat /\ 2 * (h * v) \in Int /\ 0 \in 0 .. Power[k] - 1
      BY <3>2
    <3>6. w \div Power[k] = 2 * (h * v)
      BY <3>2, <3>4, <3>5, DivUnique
    <3>7. \A a \in Nat : (2 * a) % 2 = 0
      OBVIOUS
    <3>8. Bit(w, k) = 0
      BY <3>5, <3>6, <3>7 DEF Bit, ShiftRight
    <3> QED BY <2>1, <2>3, <3>8
  <2> QED BY <2>2, <2>3
<1> HIDE DEF w
<1> QED BY <1>2, <1>3, <1>4 DEF Word

-------------------------------------------------------------------------------
(***************************************************************************)
(* Rotations.                                                              *)
(***************************************************************************)
(* Around in less than a turn. *)
LEMMA AroundOnce ==
  ASSUME NEW n \in Int, n \in 0 .. 2 * WordBits - 1
  PROVE  n % WordBits = IF n < WordBits THEN n ELSE n - WordBits
<1>1. WordBits \in Nat \ {0}
  BY WordsAreNumbers
<1>2. CASE n < WordBits
  <2>1. n \in 0 .. WordBits - 1 /\ WordBits * 0 + n = n
    BY <1>1, <1>2
  <2> QED BY <1>1, <1>2, <2>1, ModUnique
<1>3. CASE ~(n < WordBits)
  <2>1. n - WordBits \in 0 .. WordBits - 1 /\ WordBits * 1 + (n - WordBits) = n
    BY <1>1, <1>3
  <2> QED BY <1>1, <1>3, <2>1, ModUnique
<1> QED BY <1>2, <1>3

LEMMA RotatedBits ==
  ASSUME NEW v \in Word, NEW s \in Int
  PROVE  /\ sha1_rotate_left(v, s) \in Word
         /\ \A k \in BitNumbers :
              Bit(sha1_rotate_left(v, s), (k + s) % WordBits) = Bit(v, k)
<1> DEFINE r == s % WordBits
           down == WordBits - (IF r = 0 THEN WordBits ELSE r)
           w == sha1_rotate_left(v, s)
<1>1. WordBits \in Nat \ {0} /\ r \in 0 .. WordBits - 1 /\ down \in Nat /\ v \in Nat
  <2>1. WordBits \in Nat \ {0} /\ v \in Nat
    BY WordsAreNumbers
  <2>2. r \in 0 .. WordBits - 1
    BY <2>1
  <2> QED BY <2>1, <2>2
<1>2. w = BitOr(ShiftLeft(v, r), ShiftRight(v, WordBits - (IF r = 0 THEN WordBits ELSE r)))
  BY DEF sha1_rotate_left
<1>3. w \in Word
  BY <1>2, OrBits
<1>4. \A k \in BitNumbers :
        Bit(w, k) = IF Bit(ShiftLeft(v, r), k) = 1 \/ Bit(ShiftRight(v, down), k) = 1 THEN 1 ELSE 0
  BY <1>2, OrBits
<1>5. ASSUME NEW k \in BitNumbers PROVE (k + s) % WordBits = (k + r) % WordBits
  <2>1. k \in Int
    BY DEF BitNumbers
  <2>2. (r + k) % WordBits = (s + k) % WordBits
    BY <1>1, <2>1, ModOfSum
  <2>3. r + k = k + r /\ s + k = k + s
    BY <1>1, <2>1
  <2> QED BY <2>2, <2>3
<1> HIDE DEF w, r
<1>6. ASSUME NEW k \in BitNumbers PROVE Bit(w, (k + r) % WordBits) = Bit(v, k)
  <2> DEFINE j == (k + r) % WordBits
  <2>0. k \in 0 .. WordBits - 1 /\ k \in Nat /\ k + r \in 0 .. 2 * WordBits - 1 /\ k + r \in Int
    BY <1>1 DEF BitNumbers
  <2>1. j = IF k + r < WordBits THEN k + r ELSE (k + r) - WordBits
    BY <2>0, AroundOnce
  <2> HIDE DEF j
  <2>2. j \in BitNumbers /\ Bit(v, k) \in {0, 1} /\ j \in Nat
    BY <1>1, <2>0, <2>1, BitIsBit DEF BitNumbers
  <2>3. /\ Bit(ShiftLeft(v, r), j) = IF j >= r THEN Bit(v, j - r) ELSE 0
        /\ Bit(ShiftRight(v, down), j) = IF j + down < WordBits THEN Bit(v, j + down) ELSE 0
    <3>1. r \in Nat
      BY <1>1
    <3> HIDE DEF down
    <3>2. \A k2 \in BitNumbers :
            Bit(ShiftLeft(v, r), k2) = IF k2 >= r THEN Bit(v, k2 - r) ELSE 0
      BY <1>1, <3>1, ShiftLeftBits
    <3>3. Bit(ShiftRight(v, down), j) = IF j + down < WordBits THEN Bit(v, j + down) ELSE 0
      BY <1>1, <2>2, ShiftRightBits
    <3> QED BY <2>2, <3>2, <3>3
  <2>4. CASE k + r < WordBits
    <3>1. j = k + r /\ j >= r /\ j - r = k
      BY <1>1, <2>0, <2>1, <2>4
    <3>2. r # 0 => ~(j + down < WordBits)
      BY <1>1, <2>0, <3>1
    <3>3. r = 0 => j + down = k
      BY <1>1, <2>0, <3>1
    <3> HIDE DEF down
    <3>4. Bit(ShiftLeft(v, r), j) = Bit(v, k)
      BY <2>3, <3>1
    <3>5. Bit(ShiftRight(v, down), j) \in {0, Bit(v, k)}
      BY <2>3, <3>2, <3>3
    <3> QED BY <1>4, <2>2, <3>4, <3>5 DEF j
  <2>5. CASE ~(k + r < WordBits)
    <3>1. j = (k + r) - WordBits /\ ~(j >= r) /\ r # 0 /\ j + down = k /\ k < WordBits
      BY <1>1, <2>0, <2>1, <2>5
    <3> HIDE DEF down
    <3>2. Bit(ShiftLeft(v, r), j) = 0 /\ Bit(ShiftRight(v, down), j) = Bit(v, k)
      BY <2>3, <3>1
    <3> QED BY <1>4, <2>2, <3>2 DEF j
  <2> QED BY <2>4, <2>5
<1> QED BY <1>3, <1>5, <1>6 DEF w

(* Which bit comes to a place. *)
LEMMA RotatedFrom ==
  ASSUME NEW v \in Word, NEW s \in Int, NEW k \in BitNumbers
  PROVE  /\ (k - s) % WordBits \in BitNumbers
         /\ Bit(sha1_rotate_left(v, s), k) = Bit(v, (k - s) % WordBits)
<1> DEFINE j == (k - s) % WordBits
<1>1. WordBits \in Nat \ {0} /\ k \in 0 .. WordBits - 1 /\ k - s \in Int
  BY WordsAreNumbers DEF BitNumbers
<1>2. j \in BitNumbers /\ j \in Int
  BY <1>1 DEF BitNumbers
<1>3. (j + s) % WordBits = ((k - s) + s) % WordBits
  BY <1>1, ModOfSum
<1>4. (k - s) + s = k /\ k \in 0 .. 2 * WordBits - 1 /\ k < WordBits /\ k \in Int
  BY <1>1
<1>5. k % WordBits = k
  BY <1>4, AroundOnce
<1>6. (j + s) % WordBits = k
  BY <1>3, <1>4, <1>5
<1> HIDE DEF j
<1>7. Bit(sha1_rotate_left(v, s), (j + s) % WordBits) = Bit(v, j)
  BY <1>2, RotatedBits
<1> QED BY <1>2, <1>6, <1>7 DEF j

(* A rotation by a and one by b are a rotation by the sum; by none, if    *)
(* that is a whole number of turns.                                        *)
LEMMA RotateBack ==
  ASSUME NEW v \in Word, NEW a \in Int, NEW b \in Int, (a + b) % WordBits = 0
  PROVE  sha1_rotate_left(sha1_rotate_left(v, a), b) = v
<1> DEFINE w == sha1_rotate_left(v, a)
<1>1. w \in Word /\ sha1_rotate_left(w, b) \in Word
  BY RotatedBits
<1>2. ASSUME NEW k \in BitNumbers PROVE Bit(sha1_rotate_left(w, b), k) = Bit(v, k)
  <2> DEFINE j == (k + a) % WordBits
  <2>1. WordBits \in Nat \ {0} /\ k \in 0 .. WordBits - 1 /\ k + a \in Int
    BY WordsAreNumbers DEF BitNumbers
  <2>2. j \in BitNumbers /\ j \in Int
    BY <2>1 DEF BitNumbers
  <2>3. Bit(w, j) = Bit(v, k)
    BY RotatedBits
  <2>4. (j + b) % WordBits = ((k + a) + b) % WordBits
    BY <2>1, ModOfSum
  <2>5. (((a + b) % WordBits) + k) % WordBits = ((a + b) + k) % WordBits
    BY <2>1, a + b \in Int, k \in Int, ModOfSum
  <2>6. (k + a) + b = (a + b) + k /\ 0 + k = k /\ k \in 0 .. 2 * WordBits - 1 /\ k < WordBits
    BY <2>1
  <2>7. k % WordBits = k
    BY <2>1, <2>6, AroundOnce
  <2>8. (j + b) % WordBits = k
    BY <2>4, <2>5, <2>6, <2>7
  <2> HIDE DEF j, w
  <2>9. Bit(sha1_rotate_left(w, b), (j + b) % WordBits) = Bit(w, j)
    BY <1>1, <2>2, RotatedBits
  <2> QED BY <2>3, <2>8, <2>9
<1> HIDE DEF w
<1>3. sha1_rotate_left(w, b) = v
  BY <1>1, <1>2, SameBitsSameWord
<1> QED BY <1>3 DEF w

-------------------------------------------------------------------------------
(***************************************************************************)
(* The round functions, bit by bit.                                        *)
(***************************************************************************)
LEMMA RoundFunctionBits ==
  ASSUME NEW b \in Word, NEW c \in Word, NEW d \in Word, NEW k \in BitNumbers
  PROVE  LET bk == Bit(b, k)  ck == Bit(c, k)  dk == Bit(d, k) IN
           /\ Bit(sha1_fIF(b, c, d), k)  = IF bk = 1 THEN ck ELSE dk
           /\ Bit(sha1_fXOR(b, c, d), k) = (bk + ck + dk) % 2
           /\ Bit(sha1_fMAJ(b, c, d), k) = IF bk + ck + dk >= 2 THEN 1 ELSE 0
<1> DEFINE bk == Bit(b, k)   ck == Bit(c, k)   dk == Bit(d, k)
<1>1. bk \in {0, 1} /\ ck \in {0, 1} /\ dk \in {0, 1}
  <2>1. b \in Nat /\ c \in Nat /\ d \in Nat /\ k \in Nat
    BY WordsAreNumbers DEF BitNumbers
  <2> QED BY <2>1, BitIsBit
<1>2. Bit(sha1_fIF(b, c, d), k) = IF bk = 1 THEN ck ELSE dk
  <2>1. Bit(BitXor(c, d), k) = IF ck = dk THEN 0 ELSE 1
    BY XorBits
  <2>2. Bit(BitAnd(b, BitXor(c, d)), k) = IF bk = 1 /\ Bit(BitXor(c, d), k) = 1 THEN 1 ELSE 0
    BY AndBits
  <2>3. Bit(sha1_fIF(b, c, d), k) = IF Bit(BitAnd(b, BitXor(c, d)), k) = dk THEN 0 ELSE 1
    BY XorBits DEF sha1_fIF
  <2> HIDE DEF bk, ck, dk
  <2> QED BY <1>1, <2>1, <2>2, <2>3
<1>3. Bit(sha1_fXOR(b, c, d), k) = (bk + ck + dk) % 2
  <2>1. Bit(BitXor(b, c), k) = IF bk = ck THEN 0 ELSE 1
    BY XorBits
  <2>2. Bit(sha1_fXOR(b, c, d), k) = IF Bit(BitXor(b, c), k) = dk THEN 0 ELSE 1
    BY XorBits DEF sha1_fXOR
  <2> HIDE DEF bk, ck, dk
  <2> QED BY <1>1, <2>1, <2>2
<1>4. Bit(sha1_fMAJ(b, c, d), k) = IF bk + ck + dk >= 2 THEN 1 ELSE 0
  <2>1. Bit(BitXor(b, c), k) = IF bk = ck THEN 0 ELSE 1
    BY XorBits
  <2>2. /\ Bit(BitAnd(b, c), k) = IF bk = 1 /\ ck = 1 THEN 1 ELSE 0
        /\ Bit(BitAnd(d, BitXor(b, c)), k) = IF dk = 1 /\ Bit(BitXor(b, c), k) = 1 THEN 1 ELSE 0
    BY AndBits
  <2>3. Bit(sha1_fMAJ(b, c, d), k) =
          IF Bit(BitAnd(b, c), k) = 1 \/ Bit(BitAnd(d, BitXor(b, c)), k) = 1 THEN 1 ELSE 0
    BY OrBits DEF sha1_fMAJ
  <2> HIDE DEF bk, ck, dk
  <2> QED BY <1>1, <2>1, <2>2, <2>3
<1> QED BY <1>2, <1>3, <1>4

-------------------------------------------------------------------------------
(***************************************************************************)
(* What the operations of Sha1Core are assumed to satisfy, those of        *)
(* Sha1Bits satisfy, for words of any width.                               *)
(***************************************************************************)
Core == INSTANCE Sha1Core WITH
  WordMod <- WordSpan, Xor <- BitXor, rotate_left <- sha1_rotate_left, fk <- sha1_fk, Steps <- 80

LEMMA CoreWords == Core!Word = Word
BY DEF Core!Word, Word

(* The round function plus its constant, modulo 2^32. *)
LEMMA RoundIsWord ==
  ASSUME NEW b \in Word, NEW c \in Word, NEW d \in Word, NEW t \in 0 .. 79
  PROVE  sha1_fk(b, c, d, t) \in Word
<1>1. /\ sha1_fIF(b, c, d) \in Nat /\ sha1_fXOR(b, c, d) \in Nat /\ sha1_fMAJ(b, c, d) \in Nat
      /\ WordSpan \in Nat \ {0}
  BY XorBits, OrBits, WordsAreNumbers DEF sha1_fIF, sha1_fXOR, sha1_fMAJ
<1>2. /\ RoundConstant[0] \in Nat /\ RoundConstant[1] \in Nat
      /\ RoundConstant[2] \in Nat /\ RoundConstant[3] \in Nat
  BY BitsAssumption
<1>3. t \div 20 \in 0 .. 3
  OBVIOUS
<1> DEFINE sum == CASE t \div 20 = 0 -> sha1_fIF(b, c, d) + RoundConstant[0]
                    [] t \div 20 = 1 -> sha1_fXOR(b, c, d) + RoundConstant[1]
                    [] t \div 20 = 2 -> sha1_fMAJ(b, c, d) + RoundConstant[2]
                    [] t \div 20 = 3 -> sha1_fXOR(b, c, d) + RoundConstant[3]
<1>4. sum \in Nat
  <2>1. CASE t \div 20 = 0
    BY <1>1, <1>2, <2>1
  <2>2. CASE t \div 20 = 1
    BY <1>1, <1>2, <2>2
  <2>3. CASE t \div 20 = 2
    BY <1>1, <1>2, <2>3
  <2>4. CASE t \div 20 = 3
    BY <1>1, <1>2, <2>4
  <2> QED BY <1>3, <2>1, <2>2, <2>3, <2>4
<1>5. sha1_fk(b, c, d, t) = sum % WordSpan
  BY DEF sha1_fk
<1> HIDE DEF sum
<1> QED BY <1>1, <1>4, <1>5, Division DEF Word

(***************************************************************************)
(* Words stay words: no rotation, XOR or round function with its constant  *)
(* leaves uint32_t.                                                        *)
(***************************************************************************)
THEOREM WordsStayWords == Core!WordsAreClosed
<1>1. /\ WordSpan \in Nat \ {0} /\ WordBits \in Nat \ {0} /\ 80 \in Nat \ {0} /\ 80 - 1 = 79
      /\ \A s \in 0 .. WordBits : s \in Int
  BY WordsAreNumbers
<1> QED
  BY <1>1, CoreWords, RotatedBits, XorBits, RoundIsWord DEF Core!WordsAreClosed

(***************************************************************************)
(* Rotating B left by two, as sha1_step_bw does, undoes the rotation right *)
(* by two of sha1_step, and the other way round.                           *)
(***************************************************************************)
THEOREM RotationsUndoEachOther == Core!RotationsUndo
<1>1. ASSUME NEW v \in Word PROVE Core!sha1_rotate_right(v, 2) = sha1_rotate_left(v, (-2) % WordBits)
  BY DEF Core!sha1_rotate_right
<1>2. (-2) % WordBits \in Int /\ WordBits \in Nat \ {0} /\ -2 \in Int
  BY WordsAreNumbers
<1>3. (2 + ((-2) % WordBits)) % WordBits = 0 /\ (((-2) % WordBits) + 2) % WordBits = 0
  <2>1. (((-2) % WordBits) + 2) % WordBits = (-2 + 2) % WordBits
    <3>1. \A a, b \in Int : ((a % WordBits) + b) % WordBits = (a + b) % WordBits
      BY <1>2, ModOfSum
    <3> QED BY <1>2, <3>1
  <2>2. (-2 + 2) % WordBits = 0
    BY <1>2
  <2>3. 2 + ((-2) % WordBits) = ((-2) % WordBits) + 2
    BY <1>2
  <2> QED BY <2>1, <2>2, <2>3
<1>4. ASSUME NEW v \in Word
      PROVE  /\ sha1_rotate_left(v, (-2) % WordBits) \in Word
             /\ sha1_rotate_left(sha1_rotate_left(v, (-2) % WordBits), 2) = v
             /\ sha1_rotate_left(sha1_rotate_left(v, 2), (-2) % WordBits) = v
             /\ sha1_rotate_left(v, 2) \in Word /\ sha1_rotate_left(v, 5) \in Word
  BY <1>2, <1>3, RotatedBits, RotateBack
<1> QED
  BY <1>1, <1>4, CoreWords DEF Core!RotationsUndo

(***************************************************************************)
(* XOR is commutative and associative, and a rotation goes through it: the *)
(* expansion of the difference of two blocks is that of their expansions.  *)
(***************************************************************************)
THEOREM ExpansionIsLinear == Core!XorIsLinear
<1>1. ASSUME NEW v \in Word, NEW w \in Word PROVE BitXor(v, w) = BitXor(w, v)
  <2>1. \A k \in BitNumbers : Bit(BitXor(v, w), k) = Bit(BitXor(w, v), k)
    BY XorBits
  <2> QED BY <2>1, XorBits, SameBitsSameWord
<1>2. ASSUME NEW u \in Word, NEW v \in Word, NEW w \in Word
      PROVE  BitXor(BitXor(u, v), w) = BitXor(u, BitXor(v, w))
  <2>1. ASSUME NEW k \in BitNumbers PROVE Bit(BitXor(BitXor(u, v), w), k) = Bit(BitXor(u, BitXor(v, w)), k)
    <3>1. u \in Nat /\ v \in Nat /\ w \in Nat /\ k \in Nat
      BY WordsAreNumbers DEF BitNumbers
    <3>2. Bit(u, k) \in {0, 1} /\ Bit(v, k) \in {0, 1} /\ Bit(w, k) \in {0, 1}
      BY <3>1, BitIsBit
    <3> QED BY <3>2, XorBits
  <2> QED BY <2>1, XorBits, SameBitsSameWord
<1>3. ASSUME NEW v \in Word, NEW w \in Word
      PROVE  sha1_rotate_left(BitXor(v, w), 1) = BitXor(sha1_rotate_left(v, 1), sha1_rotate_left(w, 1))
  <2>1. BitXor(v, w) \in Word
    BY XorBits
  <2>2. ASSUME NEW k \in BitNumbers
        PROVE  Bit(sha1_rotate_left(BitXor(v, w), 1), k) =
                 Bit(BitXor(sha1_rotate_left(v, 1), sha1_rotate_left(w, 1)), k)
    <3> DEFINE j == (k - 1) % WordBits
    <3>1. /\ j \in BitNumbers
          /\ Bit(sha1_rotate_left(BitXor(v, w), 1), k) = Bit(BitXor(v, w), j)
          /\ Bit(sha1_rotate_left(v, 1), k) = Bit(v, j)
          /\ Bit(sha1_rotate_left(w, 1), k) = Bit(w, j)
      BY <2>1, RotatedFrom
    <3> HIDE DEF j
    <3> QED BY <3>1, XorBits
  <2>3. sha1_rotate_left(BitXor(v, w), 1) \in Word
    BY <2>1, RotatedBits
  <2> QED BY <2>2, <2>3, XorBits, SameBitsSameWord
<1>4. \A v \in Word : sha1_rotate_left(v, 1) \in Word
  BY RotatedBits
<1> QED
  BY <1>1, <1>2, <1>3, <1>4, CoreWords DEF Core!XorIsLinear

-------------------------------------------------------------------------------
(***************************************************************************)
(* The byte-order loops.                                                   *)
(***************************************************************************)
LEMMA Sizes ==
  /\ ByteBits \in Nat \ {0} /\ Bytes \in Nat \ {0} /\ WordBits = ByteBits * Bytes
  /\ UCharMod \in Nat \ {0} /\ WordBits < UCharMod /\ WordBits \in Nat \ {0}
<1>1. /\ ByteBits \in Nat \ {0} /\ WordBits % ByteBits = 0 /\ UCharMod \in Nat
      /\ WordBits < UCharMod /\ WordBits \in Nat \ {0}
  BY BitsAssumption, BytesAssumption
<1>2. Bytes \in Nat /\ WordBits = ByteBits * Bytes + (WordBits % ByteBits)
  BY <1>1, Division DEF Bytes
<1>3. WordBits = ByteBits * Bytes
  BY <1>1, <1>2
<1>4. Bytes # 0
  BY <1>1, <1>3
<1> QED BY <1>1, <1>2, <1>3, <1>4

(* What a byte of a word, at k in the array, stands for. *)
ByteAt(w, k) == ShiftRight(w, ByteBits * (Bytes - 1 - k)) % ByteMod

(***************************************************************************)
(* The shift has come down by a byte for each byte passed; the bytes       *)
(* before `at' are stored; the bits from i on are loaded.                  *)
(***************************************************************************)
LoopTypes ==
  /\ pc \in {"store", "load", "done"}
  /\ x \in Word /\ y \in Word /\ at \in 0 .. Bytes
  /\ p \in [0 .. Bytes - 1 -> Nat]
  /\ i = WordBits - ByteBits * at

Stored ==
  \A k \in 0 .. Bytes - 1 : (pc # "store" \/ k < at) => p[k] = ByteAt(x, k)

Loaded ==
  /\ pc # "store" => \A k \in BitNumbers : Bit(y, k) = IF k >= i THEN Bit(x, k) ELSE 0
  /\ pc = "store" => y = 0
  /\ pc = "done" => at = Bytes

LoopInv == LoopTypes /\ Stored /\ Loaded

(***************************************************************************)
(* The counter, an unsigned char, does not wrap before the last byte.      *)
(***************************************************************************)
LEMMA CountsBytes ==
  ASSUME LoopTypes
  PROVE  /\ i \in 0 .. WordBits /\ (Ends <=> at = Bytes)
         /\ ~Ends => /\ Shift = i - ByteBits /\ Shift \in Nat /\ Shift < WordBits
                     /\ Shift = ByteBits * (Bytes - 1 - at) /\ at \in 0 .. Bytes - 1
                     /\ Shift = WordBits - ByteBits * (at + 1)
<1>1. /\ ByteBits \in Nat \ {0} /\ Bytes \in Nat \ {0} /\ WordBits = ByteBits * Bytes
      /\ UCharMod \in Nat \ {0} /\ WordBits < UCharMod /\ WordBits \in Nat \ {0}
  BY Sizes
<1>2. /\ at \in 0 .. Bytes /\ at \in Nat /\ Bytes - at \in Nat
      /\ i = WordBits - ByteBits * at
  BY <1>1 DEF LoopTypes
<1>3. i = ByteBits * (Bytes - at)
  <2>1. \A a, b, c \in Nat : a * (b - c) = a * b - a * c
    OBVIOUS
  <2> QED BY <1>1, <1>2, <2>1
<1>4. ByteBits * at \in Nat /\ i \in Nat /\ i <= WordBits
  <2>1. \A a, b \in Nat : a * b \in Nat
    OBVIOUS
  <2>2. ByteBits * at \in Nat /\ i \in Nat
    BY <1>1, <1>2, <1>3, <2>1
  <2> QED BY <1>1, <1>2, <2>2
<1>5. i % UCharMod = i
  <2>1. i \in 0 .. UCharMod - 1 /\ UCharMod * 0 + i = i
    BY <1>1, <1>4
  <2> QED BY <1>1, <2>1, ModUnique
<1>6. Ends <=> i = 0
  <2>1. (((i - ByteBits) % UCharMod) + ByteBits) % UCharMod = ((i - ByteBits) + ByteBits) % UCharMod
    BY <1>1, <1>4, i - ByteBits \in Int, ByteBits \in Int, ModOfSum
  <2>2. (i - ByteBits) + ByteBits = i
    BY <1>1, <1>4
  <2> QED BY <1>5, <2>1, <2>2 DEF Ends, Shift
<1>7. i = 0 <=> at = Bytes
  <2>1. \A a \in Nat \ {0} : \A b \in Nat : a * b = 0 <=> b = 0
    OBVIOUS
  <2>2. i = 0 <=> Bytes - at = 0
    BY <1>1, <1>2, <1>3, <2>1
  <2> QED BY <1>1, <1>2, <2>2
<1>8. ASSUME ~Ends
      PROVE  /\ Shift = i - ByteBits /\ Shift \in Nat /\ Shift < WordBits
             /\ Shift = ByteBits * (Bytes - 1 - at) /\ at \in 0 .. Bytes - 1
             /\ Shift = WordBits - ByteBits * (at + 1)
  <2>1. at \in 0 .. Bytes - 1 /\ Bytes - 1 - at \in Nat /\ Bytes - at = (Bytes - 1 - at) + 1
    BY <1>1, <1>2, <1>6, <1>7, <1>8
  <2>2. i = ByteBits * (Bytes - 1 - at) + ByteBits
    <3>1. \A a, b \in Nat : a * (b + 1) = a * b + a
      OBVIOUS
    <3> QED BY <1>1, <1>3, <2>1, <3>1
  <2>3. ByteBits * (Bytes - 1 - at) \in Nat
    <3>1. \A a, b \in Nat : a * b \in Nat
      OBVIOUS
    <3> QED BY <1>1, <2>1, <3>1
  <2>4. i - ByteBits = ByteBits * (Bytes - 1 - at)
    BY <1>1, <1>4, <2>2, <2>3
  <2>5. i - ByteBits \in 0 .. UCharMod - 1 /\ UCharMod * 0 + (i - ByteBits) = i - ByteBits
    BY <1>1, <1>4, <2>3, <2>4
  <2>6. Shift = i - ByteBits
    BY <1>1, <2>5, ModUnique DEF Shift
  <2>7. i - ByteBits = WordBits - ByteBits * (at + 1)
    <3>1. \A a, b \in Nat : a * (b + 1) = a * b + a
      OBVIOUS
    <3>2. ByteBits * (at + 1) = ByteBits * at + ByteBits
      BY <1>1, <1>2, <3>1
    <3> QED BY <1>1, <1>2, <1>4, <3>2
  <2> QED BY <1>1, <1>4, <2>1, <2>3, <2>4, <2>6, <2>7
<1> QED BY <1>1, <1>4, <1>6, <1>7, <1>8

LEMMA InitLoop == Init => LoopInv
<1> SUFFICES ASSUME Init PROVE LoopInv
  OBVIOUS
<1>1. /\ pc = "store" /\ x \in Word /\ y = 0 /\ at = 0 /\ i = WordBits
      /\ p \in {[k \in 0 .. Bytes - 1 |-> b] : b \in {0, ByteMod - 1}}
  BY DEF Init
<1>2. Bytes \in Nat /\ ByteBits * 0 = 0 /\ WordBits \in Nat /\ ByteMod - 1 \in Nat
  BY Sizes, PowerIsPositive DEF ByteMod
<1>3. 0 \in Word /\ p \in [0 .. Bytes - 1 -> Nat]
  BY <1>1, <1>2, WordsAreNumbers
<1>4. LoopTypes
  BY <1>1, <1>2, <1>3 DEF LoopTypes
<1>5. Stored /\ Loaded
  BY <1>1, <1>2 DEF Stored, Loaded
<1> QED BY <1>4, <1>5 DEF LoopInv

LEMMA StoreByteKeepsLoop ==
  ASSUME LoopInv, store_byte PROVE LoopInv'
<1>1. /\ pc = "store" /\ ~Ends /\ pc' = "store" /\ x' = x /\ y' = y
      /\ p' = [p EXCEPT ![at] = StoredByte] /\ at' = at + 1 /\ i' = Shift
  BY DEF store_byte
<1>2. /\ x \in Word /\ y \in Word /\ p \in [0 .. Bytes - 1 -> Nat] /\ y = 0
      /\ \A k \in 0 .. Bytes - 1 : k < at => p[k] = ByteAt(x, k)
  BY <1>1 DEF LoopInv, LoopTypes, Stored, Loaded
<1>3. /\ at \in 0 .. Bytes - 1 /\ Shift = ByteBits * (Bytes - 1 - at) /\ Shift \in Nat
      /\ Shift = WordBits - ByteBits * (at + 1) /\ Bytes \in Nat
  BY <1>1, CountsBytes, Sizes DEF LoopInv
<1>4. StoredByte = ByteAt(x, at) /\ StoredByte \in Nat
  <2>1. ShiftRight(x, Shift) \in Nat /\ ByteMod \in Nat \ {0}
    BY <1>2, <1>3, Sizes, WordsAreNumbers, ShiftIsNumber, PowerIsPositive DEF ByteMod
  <2>2. StoredByte = ByteAt(x, at)
    BY <1>3 DEF StoredByte, ByteAt
  <2>3. \A a \in Nat : a % ByteMod \in Nat
    BY <2>1
  <2> QED BY <2>1, <2>2, <2>3 DEF StoredByte
<1>5. LoopTypes'
  BY <1>1, <1>2, <1>3, <1>4 DEF LoopTypes
<1>6. Stored'
  <2>1. ASSUME NEW k \in 0 .. Bytes - 1, k < at' PROVE p'[k] = ByteAt(x, k)
    <3>1. CASE k = at
      BY <1>1, <1>2, <1>3, <1>4, <3>1
    <3>2. CASE k # at
      BY <1>1, <1>2, <1>3, <2>1, <3>2
    <3> QED BY <3>1, <3>2
  <2> QED BY <1>1, <2>1 DEF Stored, ByteAt
<1>7. Loaded'
  BY <1>1, <1>2 DEF Loaded
<1> QED BY <1>5, <1>6, <1>7 DEF LoopInv

LEMMA StoreEndKeepsLoop ==
  ASSUME LoopInv, store_end PROVE LoopInv'
<1>1. /\ pc = "store" /\ Ends /\ pc' = "load" /\ at' = 0 /\ i' = WordBits
      /\ UNCHANGED <<x, y, p>>
  BY DEF store_end
<1>2. /\ x \in Word /\ y = 0 /\ p \in [0 .. Bytes - 1 -> Nat]
      /\ \A k \in 0 .. Bytes - 1 : k < at => p[k] = ByteAt(x, k)
  BY <1>1 DEF LoopInv, LoopTypes, Stored, Loaded
<1>3. at = Bytes /\ Bytes \in Nat /\ WordBits \in Nat /\ ByteBits * 0 = 0
  BY <1>1, CountsBytes, Sizes DEF LoopInv
<1>4. LoopTypes'
  BY <1>1, <1>2, <1>3, WordsAreNumbers DEF LoopTypes
<1>5. Stored'
  BY <1>1, <1>2, <1>3 DEF Stored, ByteAt
<1>6. Loaded'
  <2>1. ASSUME NEW k \in BitNumbers PROVE Bit(0, k) = 0 /\ ~(k >= WordBits)
    <3>1. k \in Nat /\ k < WordBits /\ Power[k] \in Nat \ {0} /\ 0 \in 0 .. Power[k] - 1
      BY <1>3, PowerIsPositive DEF BitNumbers
    <3>2. Power[k] * 0 + 0 = 0 /\ 0 \in Int
      BY <3>1
    <3>3. 0 \div Power[k] = 0
      BY <3>1, <3>2, DivUnique
    <3> QED BY <1>3, <3>1, <3>3 DEF Bit, ShiftRight
  <2> QED BY <1>1, <1>2, <2>1 DEF Loaded
<1> QED BY <1>4, <1>5, <1>6 DEF LoopInv

LEMMA LoadByteKeepsLoop ==
  ASSUME LoopInv, load_byte PROVE LoopInv'
<1>1. /\ pc = "load" /\ ~Ends /\ pc' = "load" /\ x' = x /\ p' = p
      /\ y' = BitOr(y, ShiftLeft(p[at], Shift)) /\ at' = at + 1 /\ i' = Shift
  BY DEF load_byte
<1>2. /\ x \in Word /\ y \in Word /\ p \in [0 .. Bytes - 1 -> Nat]
      /\ \A k \in 0 .. Bytes - 1 : p[k] = ByteAt(x, k)
      /\ \A k \in BitNumbers : Bit(y, k) = IF k >= i THEN Bit(x, k) ELSE 0
  BY <1>1 DEF LoopInv, LoopTypes, Stored, Loaded
<1>3. /\ at \in 0 .. Bytes - 1 /\ Shift = ByteBits * (Bytes - 1 - at) /\ Shift \in Nat
      /\ Shift = WordBits - ByteBits * (at + 1) /\ Bytes \in Nat /\ i = Shift + ByteBits
      /\ ByteBits \in Nat \ {0} /\ WordBits \in Nat \ {0}
  <2>1. /\ at \in 0 .. Bytes - 1 /\ Shift = ByteBits * (Bytes - 1 - at) /\ Shift \in Nat
        /\ Shift = WordBits - ByteBits * (at + 1) /\ Shift = i - ByteBits /\ i \in 0 .. WordBits
    BY <1>1, CountsBytes DEF LoopInv
  <2> QED BY <2>1, Sizes
<1>4. p[at] = ShiftRight(x, Shift) % Power[ByteBits] /\ p[at] \in Nat
  BY <1>2, <1>3 DEF ByteAt, ByteMod
<1>5. y' \in Word
  BY <1>1, OrBits
<1>6. LoopTypes'
  BY <1>1, <1>2, <1>3, <1>5 DEF LoopTypes
<1>7. ASSUME NEW k \in BitNumbers PROVE Bit(y', k) = IF k >= Shift THEN Bit(x, k) ELSE 0
  <2> DEFINE b == ShiftLeft(p[at], Shift)
  <2>0. k \in Nat /\ k < WordBits /\ x \in Nat /\ Bit(x, k) \in {0, 1}
    BY <1>2, <1>3, WordsAreNumbers, BitIsBit DEF BitNumbers
  <2>1. Bit(y', k) = IF Bit(y, k) = 1 \/ Bit(b, k) = 1 THEN 1 ELSE 0
    BY <1>1, OrBits
  <2>2. Bit(b, k) = IF k >= Shift THEN Bit(p[at], k - Shift) ELSE 0
    BY <1>3, <1>4, ShiftLeftBits
  <2> HIDE DEF b
  <2>3. CASE k >= i
    <3>1. k >= Shift /\ k - Shift \in Nat /\ ByteBits <= k - Shift
      BY <1>3, <2>0, <2>3
    <3>2. ShiftRight(x, Shift) \in Nat /\ Power[ByteBits] \in Nat \ {0}
      BY <1>3, <2>0, ShiftIsNumber, PowerIsPositive
    <3>3. p[at] \in 0 .. Power[ByteBits] - 1
      BY <1>4, <3>2, Division
    <3>4. Bit(p[at], k - Shift) = 0
      BY <1>3, <3>1, <3>3, HighBits
    <3> QED BY <1>2, <2>0, <2>1, <2>2, <2>3, <3>1, <3>4
  <2>4. CASE ~(k >= i) /\ k >= Shift
    <3>1. k - Shift \in 0 .. ByteBits - 1 /\ k - Shift \in Nat /\ Shift + (k - Shift) = k
      BY <1>3, <2>0, <2>4
    <3>2. ShiftRight(x, Shift) \in Nat
      BY <1>3, <2>0, ShiftIsNumber
    <3>3. Bit(p[at], k - Shift) = Bit(ShiftRight(x, Shift), k - Shift)
      BY <1>3, <1>4, <3>1, <3>2, LowBits
    <3>4. Bit(ShiftRight(x, Shift), k - Shift) = Bit(x, k)
      <4>1. \A s, j \in Nat : Bit(ShiftRight(x, s), j) = Bit(x, s + j)
        BY <2>0, BitOfShift
      <4>2. Bit(ShiftRight(x, Shift), k - Shift) = Bit(x, Shift + (k - Shift))
        BY <1>3, <3>1, <4>1
      <4> QED BY <3>1, <4>2
    <3> QED BY <1>2, <2>0, <2>1, <2>2, <2>4, <3>3, <3>4
  <2>5. CASE ~(k >= Shift)
    <3>1. ~(k >= i)
      BY <1>3, <2>0, <2>5
    <3> QED BY <1>2, <2>1, <2>2, <2>5, <3>1
  <2> QED BY <2>3, <2>4, <2>5
<1>8. Stored'
  BY <1>1, <1>2 DEF Stored, ByteAt
<1>9. Loaded'
  BY <1>1, <1>7 DEF Loaded
<1> QED BY <1>6, <1>8, <1>9 DEF LoopInv

LEMMA LoadEndKeepsLoop ==
  ASSUME LoopInv, load_end PROVE LoopInv'
<1>1. pc = "load" /\ Ends /\ pc' = "done" /\ UNCHANGED <<x, y, p, at, i>>
  BY DEF load_end
<1>2. at = Bytes
  BY <1>1, CountsBytes DEF LoopInv
<1>3. LoopTypes'
  BY <1>1 DEF LoopInv, LoopTypes
<1>4. Stored'
  BY <1>1 DEF LoopInv, Stored, ByteAt
<1>5. Loaded'
  BY <1>1, <1>2 DEF LoopInv, Loaded
<1> QED BY <1>3, <1>4, <1>5 DEF LoopInv

(***************************************************************************)
(* The loops of the byte-order conversions keep LoopInv.                   *)
(***************************************************************************)
THEOREM LoopInvariant == Spec => []LoopInv
<1>1. ASSUME LoopInv, Next PROVE LoopInv'
  BY <1>1, StoreByteKeepsLoop, StoreEndKeepsLoop, LoadByteKeepsLoop, LoadEndKeepsLoop DEF Next
<1>2. ASSUME LoopInv, UNCHANGED vars PROVE LoopInv'
  BY <1>2 DEF vars, LoopInv, LoopTypes, Stored, Loaded, ByteAt
<1> QED BY <1>1, <1>2, InitLoop, PTL DEF Spec

(***************************************************************************)
(* sha1_load8_beu32 and its like touch each byte once and none beyond, and *)
(* shift by less than a word.                                              *)
(***************************************************************************)
THEOREM ByteLoopsStayInBounds == Spec => []LoopsStayInBounds
<1>1. LoopInv => LoopsStayInBounds
  BY CountsBytes DEF LoopInv, LoopTypes, LoopsStayInBounds
<1> QED BY <1>1, LoopInvariant, PTL

(***************************************************************************)
(* Words are stored big-endian, and loading them gives them back.          *)
(***************************************************************************)
THEOREM WordsAreStoredBigEndian == Spec => []BytesAreBigEndian
<1>1. ASSUME LoopInv PROVE BytesAreBigEndian
  <2>1. pc \in {"load", "done"} =>
          \A k \in 0 .. Bytes - 1 : p[k] = (x \div Power[ByteBits * (Bytes - 1 - k)]) % ByteMod
    BY <1>1 DEF LoopInv, Stored, ByteAt, ShiftRight
  <2>2. ASSUME pc = "done" PROVE y = x
    <3>1. i = 0 /\ x \in Word /\ y \in Word
      BY <1>1, <2>2, Sizes DEF LoopInv, LoopTypes, Loaded
    <3>2. ASSUME NEW k \in BitNumbers PROVE Bit(y, k) = Bit(x, k)
      <4>1. k >= i
        BY <3>1 DEF BitNumbers
      <4> QED BY <1>1, <2>2, <4>1 DEF LoopInv, Loaded
    <3> QED BY <3>1, <3>2, SameBitsSameWord
  <2> QED BY <2>1, <2>2 DEF BytesAreBigEndian
<1> QED BY <1>1, LoopInvariant, PTL

(***************************************************************************)
(* The rotations of lib/bits.h move every bit round by the count, whatever *)
(* the count, and undo each other.                                         *)
(***************************************************************************)
THEOREM RotationsAreRotations == Spec => []RotationsMoveEveryBit
<1>1. ASSUME LoopInv PROVE RotationsMoveEveryBit
  <2>1. x \in Word /\ WordBits \in Nat \ {0} /\ BitNumbers = 0 .. WordBits - 1
    BY <1>1, WordsAreNumbers DEF LoopInv, LoopTypes, BitNumbers
  <2>2. ASSUME NEW s \in 0 .. 2 * WordBits
        PROVE  sha1_rotate_right(sha1_rotate_left(x, s), s) = x
    <3>1. s \in Int /\ s % WordBits \in Int /\ -(s % WordBits) \in Int
      BY <2>1
    <3>2. (s + (-(s % WordBits))) % WordBits = 0
      <4>1. ((s % WordBits) + (-(s % WordBits))) % WordBits = (s + (-(s % WordBits))) % WordBits
        BY <2>1, <3>1, ModOfSum
      <4>2. (s % WordBits) + (-(s % WordBits)) = 0 /\ 0 % WordBits = 0
        BY <2>1, <3>1
      <4> QED BY <4>1, <4>2
    <3> QED BY <2>1, <3>1, <3>2, RotateBack DEF sha1_rotate_right
  <2>3. ASSUME NEW s \in 0 .. 2 * WordBits, NEW k \in 0 .. WordBits - 1
        PROVE  Bit(sha1_rotate_left(x, s), (k + s) % WordBits) = Bit(x, k)
    BY <2>1, s \in Int, RotatedBits
  <2> QED BY <2>2, <2>3 DEF RotationsMoveEveryBit
<1> QED BY <1>1, LoopInvariant, PTL

(***************************************************************************)
(* The abbreviated sha1_fIF and sha1_fMAJ choose and take the majority.    *)
(***************************************************************************)
THEOREM RoundFunctionsAreRight == Spec => []RoundFunctionsAreSha1s
<1>1. ASSUME LoopInv PROVE RoundFunctionsAreSha1s
  <2>1. x \in Word /\ BitNumbers = 0 .. WordBits - 1
    BY <1>1 DEF LoopInv, LoopTypes, BitNumbers
  <2> QED BY <2>1, RoundFunctionBits DEF RoundFunctionsAreSha1s
<1> QED BY <1>1, LoopInvariant, PTL
===============================================================================
