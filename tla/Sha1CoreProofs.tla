----------------------------- MODULE Sha1CoreProofs ----------------------------
(***************************************************************************)
(* Lemmas about the steps of the compressor, for words of any width and    *)
(* whatever the round functions are.                                       *)
(***************************************************************************)
EXTENDS Sha1Core, Sha1Arith

(* What is assumed of the operations on words. *)
USE DEF WordsAreClosed, RotationsUndo, XorIsLinear

(***************************************************************************)
(* Words are numbers, and the operations on bits make words.               *)
(***************************************************************************)
LEMMA WordsAreNumbers ==
  \A x \in Word : x \in Int
BY WordAssumption DEF Word

LEMMA RoundIsNumber ==
  ASSUME NEW b \in Word, NEW c \in Word, NEW d \in Word, NEW t \in 0 .. Steps - 1
  PROVE  fk(b, c, d, t) \in Int
BY WordAssumption, WordsAreNumbers

(***************************************************************************)
(* Sums and differences wrap around to words (uint32_t).                   *)
(***************************************************************************)
LEMMA AddIsWord ==
  ASSUME NEW x \in Int, NEW y \in Int PROVE Add(x, y) \in Word
BY WordAssumption DEF Add, Word

LEMMA SubIsWord ==
  ASSUME NEW x \in Int, NEW y \in Int PROVE Sub(x, y) \in Word
BY WordAssumption DEF Sub, Word

(***************************************************************************)
(* A sum undoes a difference, and a difference a sum.                      *)
(***************************************************************************)
LEMMA AddUndoesSub ==
  ASSUME NEW x \in Word, NEW y \in Int PROVE Add(Sub(x, y), y) = x
<1>1. x \in Int /\ x \in 0 .. WordMod - 1 /\ WordMod \in Nat \ {0}
  BY WordAssumption DEF Word
<1>2. (((x - y) % WordMod) + y) % WordMod = ((x - y) + y) % WordMod
  BY <1>1, x - y \in Int, ModOfSum
<1>3. (x - y) + y = x /\ x % WordMod = x
  BY <1>1
<1> QED BY <1>2, <1>3 DEF Add, Sub

LEMMA SubUndoesAdd ==
  ASSUME NEW x \in Word, NEW y \in Int PROVE Sub(Add(x, y), y) = x
<1>1. x \in Int /\ x \in 0 .. WordMod - 1 /\ WordMod \in Nat \ {0}
  BY WordAssumption DEF Word
<1>2. (((x + y) % WordMod) + (-y)) % WordMod = ((x + y) + (-y)) % WordMod
  BY <1>1, x + y \in Int, -y \in Int, ModOfSum
<1>3. (x + y) + (-y) = x /\ x % WordMod = x
  BY <1>1
<1>4. ((x + y) % WordMod) - y = ((x + y) % WordMod) + (-y)
  BY <1>1
<1> QED BY <1>2, <1>3, <1>4 DEF Add, Sub

(***************************************************************************)
(* A step of the compressor, in either direction, leads from a state to a  *)
(* state.                                                                  *)
(***************************************************************************)
LEMMA StepIsState ==
  ASSUME NEW s \in State, NEW m \in Word, NEW t \in 0 .. Steps - 1
  PROVE  sha1_step(s, m, t) \in State
<1>1. /\ s.A \in Word /\ s.B \in Word /\ s.C \in Word /\ s.D \in Word /\ s.E \in Word
      /\ m \in Int
  BY WordsAreNumbers DEF State
<1>2. rotate_left(s.A, 5) \in Int /\ fk(s.B, s.C, s.D, t) \in Int
  BY <1>1, RoundIsNumber, RotateAssumption, WordsAreNumbers
<1>3. Add(s.E, rotate_left(s.A, 5)) \in Int
  BY <1>1, <1>2, AddIsWord, WordsAreNumbers
<1>4. Add(Add(s.E, rotate_left(s.A, 5)), fk(s.B, s.C, s.D, t)) \in Int
  BY <1>2, <1>3, AddIsWord, WordsAreNumbers
<1>5. Add(Add(Add(s.E, rotate_left(s.A, 5)), fk(s.B, s.C, s.D, t)), m) \in Word
  BY <1>1, <1>4, AddIsWord
<1>6. sha1_rotate_right(s.B, 2) \in Word
  BY <1>1, RotateAssumption
<1> QED BY <1>1, <1>5, <1>6 DEF sha1_step, State

LEMMA StepBackIsState ==
  ASSUME NEW s \in State, NEW m \in Word, NEW t \in 0 .. Steps - 1
  PROVE  sha1_step_bw(s, m, t) \in State
<1> DEFINE b == rotate_left(s.C, 2)
           a == Sub(s.A, m)
           f == fk(b, s.D, s.E, t)
           r == rotate_left(s.B, 5)
<1>1. /\ s.A \in Word /\ s.B \in Word /\ s.C \in Word /\ s.D \in Word /\ s.E \in Word
      /\ m \in Int /\ s.A \in Int
  BY WordsAreNumbers DEF State
<1>2. b \in Word /\ r \in Int
  BY <1>1, RotateAssumption, WordsAreNumbers
<1>3. f \in Int
  BY <1>1, <1>2, RoundIsNumber
<1>4. a \in Int
  BY <1>1, SubIsWord, WordsAreNumbers
<1>5. Sub(a, f) \in Int
  BY <1>3, <1>4, SubIsWord, WordsAreNumbers
<1>6. Sub(Sub(a, f), r) \in Word
  BY <1>2, <1>5, SubIsWord
<1> QED BY <1>1, <1>2, <1>6 DEF sha1_step_bw, State

(***************************************************************************)
(* Each direction undoes the other.                                        *)
(***************************************************************************)
LEMMA StepUndoesStepBack ==
  ASSUME NEW s \in State, NEW m \in Word, NEW t \in 0 .. Steps - 1
  PROVE  sha1_step(sha1_step_bw(s, m, t), m, t) = s
<1> DEFINE b == rotate_left(s.C, 2)
           a == Sub(s.A, m)
           f == fk(b, s.D, s.E, t)
           r == rotate_left(s.B, 5)
           e == Sub(Sub(a, f), r)
           p == [A |-> s.B, B |-> b, C |-> s.D, D |-> s.E, E |-> e]
<1>1. /\ s.A \in Word /\ s.B \in Word /\ s.C \in Word /\ s.D \in Word /\ s.E \in Word
      /\ m \in Int /\ s.A \in Int
  BY WordsAreNumbers DEF State
<1>2. b \in Word /\ r \in Int
  BY <1>1, RotateAssumption, WordsAreNumbers
<1>3. f \in Int
  BY <1>1, <1>2, RoundIsNumber
<1>4. a \in Word /\ a \in Int
  BY <1>1, SubIsWord, WordsAreNumbers
<1>5. Sub(a, f) \in Word
  BY <1>3, <1>4, SubIsWord, WordsAreNumbers
<1>6. Add(e, r) = Sub(a, f)
  BY <1>2, <1>5, AddUndoesSub
<1>7. Add(Sub(a, f), f) = a
  BY <1>3, <1>4, AddUndoesSub
<1>8. Add(a, m) = s.A
  BY <1>1, AddUndoesSub
<1>9. sha1_rotate_right(b, 2) = s.C
  BY <1>1, RotateAssumption
<1>10. sha1_step_bw(s, m, t) = p
  BY DEF sha1_step_bw
<1>11. sha1_step(p, m, t) =
         [A |-> Add(Add(Add(e, r), f), m), B |-> s.B, C |-> sha1_rotate_right(b, 2),
          D |-> s.D, E |-> s.E]
  BY DEF sha1_step
<1>12. sha1_step(p, m, t) = [A |-> s.A, B |-> s.B, C |-> s.C, D |-> s.D, E |-> s.E]
  <2> HIDE DEF e, r, f, a, b, p
  <2> QED BY <1>6, <1>7, <1>8, <1>9, <1>11
<1>13. s = [A |-> s.A, B |-> s.B, C |-> s.C, D |-> s.D, E |-> s.E]
  BY DEF State
<1> QED BY <1>10, <1>12, <1>13

LEMMA StepBackUndoesStep ==
  ASSUME NEW s \in State, NEW m \in Word, NEW t \in 0 .. Steps - 1
  PROVE  sha1_step_bw(sha1_step(s, m, t), m, t) = s
<1> DEFINE r == rotate_left(s.A, 5)
           f == fk(s.B, s.C, s.D, t)
           q == Add(Add(Add(s.E, r), f), m)
           c == sha1_rotate_right(s.B, 2)
           p == [A |-> q, B |-> s.A, C |-> c, D |-> s.C, E |-> s.D]
<1>1. /\ s.A \in Word /\ s.B \in Word /\ s.C \in Word /\ s.D \in Word /\ s.E \in Word
      /\ m \in Int /\ s.E \in Int
  BY WordsAreNumbers DEF State
<1>2. r \in Int /\ f \in Int
  BY <1>1, RoundIsNumber, RotateAssumption, WordsAreNumbers
<1>3. Add(s.E, r) \in Word /\ Add(s.E, r) \in Int
  BY <1>1, <1>2, AddIsWord, WordsAreNumbers
<1>4. Add(Add(s.E, r), f) \in Word
  BY <1>2, <1>3, AddIsWord
<1>5. Sub(q, m) = Add(Add(s.E, r), f)
  BY <1>1, <1>4, SubUndoesAdd
<1>6. Sub(Add(Add(s.E, r), f), f) = Add(s.E, r)
  BY <1>2, <1>3, SubUndoesAdd
<1>7. Sub(Add(s.E, r), r) = s.E
  BY <1>1, <1>2, SubUndoesAdd
<1>8. rotate_left(c, 2) = s.B
  BY <1>1, RotateAssumption
<1>9. sha1_step(s, m, t) = p
  BY DEF sha1_step
<1>10. sha1_step_bw(p, m, t) =
         [A |-> s.A, B |-> rotate_left(c, 2), C |-> s.C, D |-> s.D,
          E |-> Sub(Sub(Sub(q, m), fk(rotate_left(c, 2), s.C, s.D, t)), r)]
  BY DEF sha1_step_bw
<1>11. sha1_step_bw(p, m, t) = [A |-> s.A, B |-> s.B, C |-> s.C, D |-> s.D, E |-> s.E]
  <2>1. fk(rotate_left(c, 2), s.C, s.D, t) = f
    BY <1>8
  <2> HIDE DEF r, f, q, c, p
  <2> QED BY <1>5, <1>6, <1>7, <1>8, <1>10, <2>1
<1>12. s = [A |-> s.A, B |-> s.B, C |-> s.C, D |-> s.D, E |-> s.E]
  BY DEF State
<1> QED BY <1>9, <1>11, <1>12

(***************************************************************************)
(* Adding the chaining value at the end gives one.                         *)
(***************************************************************************)
LEMMA FeedForwardIsState ==
  ASSUME NEW c \in State, NEW s \in State PROVE FeedForward(c, s) \in State
<1>1. \A x, y \in Word : Add(x, y) \in Word
  BY AddIsWord DEF Word
<1> QED BY <1>1 DEF FeedForward, State

(***************************************************************************)
(* And it does not matter which is added to which.                         *)
(***************************************************************************)
LEMMA AddCommutes ==
  ASSUME NEW c \in State, NEW s \in State PROVE FeedForward(c, s) = FeedForward(s, c)
<1>1. \A x, y \in Word : Add(x, y) = Add(y, x)
  BY WordsAreNumbers DEF Add
<1> QED BY <1>1 DEF FeedForward, State

(***************************************************************************)
(* Sums can be regrouped, so what is added to a step's word is as good as  *)
(* added to the fifth word of the state.                                   *)
(***************************************************************************)
LEMMA AddAssociates ==
  ASSUME NEW x \in Int, NEW y \in Int, NEW z \in Int
  PROVE  Add(Add(x, y), z) = Add(x, Add(y, z))
<1>1. WordMod \in Nat \ {0}
  BY WordAssumption
<1>2. (((x + y) % WordMod) + z) % WordMod = ((x + y) + z) % WordMod
  BY <1>1, x + y \in Int, ModOfSum
<1>3. (((y + z) % WordMod) + x) % WordMod = ((y + z) + x) % WordMod
  BY <1>1, y + z \in Int, ModOfSum
<1>4. ((y + z) % WordMod) + x = x + ((y + z) % WordMod)
  BY <1>1
<1>5. (y + z) + x = (x + y) + z
  OBVIOUS
<1> QED BY <1>2, <1>3, <1>4, <1>5 DEF Add

LEMMA AddSwaps ==
  ASSUME NEW x \in Int, NEW y \in Int PROVE Add(x, y) = Add(y, x)
BY DEF Add

LEMMA EnteredLate ==
  ASSUME NEW e \in Word, NEW r \in Int, NEW f \in Int, NEW m \in Word
  PROVE  Add(Add(Add(0, r), f), Add(m, e)) = Add(Add(Add(e, r), f), m)
<1>1. e \in Int /\ m \in Int /\ \A x, y \in Int : Add(x, y) \in Int
  BY WordsAreNumbers, AddIsWord
<1>2. Add(Add(Add(0, r), f), Add(m, e)) = Add(Add(0, r), Add(f, Add(m, e)))
  BY <1>1, AddAssociates
<1>3. Add(Add(0, r), Add(f, Add(m, e))) = Add(0, Add(r, Add(f, Add(m, e))))
  BY <1>1, AddAssociates
<1>4. Add(r, Add(f, Add(m, e))) = Add(Add(r, f), Add(m, e))
  BY <1>1, AddAssociates
<1>5. Add(Add(r, f), Add(m, e)) = Add(Add(Add(r, f), m), e)
  BY <1>1, AddAssociates
<1>6. Add(Add(Add(r, f), m), e) = Add(e, Add(Add(r, f), m))
  BY <1>1, AddSwaps
<1>7. Add(e, Add(Add(r, f), m)) = Add(Add(e, Add(r, f)), m)
  BY <1>1, AddAssociates
<1>8. Add(e, Add(r, f)) = Add(Add(e, r), f)
  BY <1>1, AddAssociates
<1>9. ASSUME NEW w \in Word PROVE Add(0, w) = w
  BY <1>9, WordAssumption DEF Add, Word
<1>10. Add(Add(Add(e, r), f), m) \in Word
  BY <1>1, AddIsWord
<1> QED
  BY <1>2, <1>3, <1>4, <1>5, <1>6, <1>7, <1>8, <1>9, <1>10

-------------------------------------------------------------------------------
(***************************************************************************)
(* StatesFrom is what its recursion says: a state for every step.          *)
(***************************************************************************)
LEMMA StatesFromStepByStep ==
  ASSUME NEW s \in State, NEW W \in Expanded
  PROVE  /\ StatesFrom(s, W) \in [0 .. Steps -> State]
         /\ StatesFrom(s, W)[0] = s
         /\ \A t \in 0 .. Steps - 1 :
              StatesFrom(s, W)[t + 1] = sha1_step(StatesFrom(s, W)[t], W[t], t)
<1> DEFINE next == [p \in State \X (0 .. Steps - 1) |-> sha1_step(p[1], W[p[2]], p[2])]
           body(f) == [t \in 0 .. Steps |-> IF t = 0 THEN s ELSE sha1_step(f[t - 1], W[t - 1], t - 1)]
           states == CHOOSE f : f = body(f)
<1>0. Steps \in Nat \ {0}
  BY WordAssumption
<1>1. next \in [State \X (0 .. Steps - 1) -> State]
  <2>1. ASSUME NEW p \in State \X (0 .. Steps - 1)
        PROVE  sha1_step(p[1], W[p[2]], p[2]) \in State
    <3>1. p[1] \in State /\ p[2] \in 0 .. Steps - 1
      OBVIOUS
    <3>2. W[p[2]] \in Word
      BY <3>1 DEF Expanded
    <3> QED
      BY <3>1, <3>2, StepIsState
  <2> QED
    BY <2>1
<1>2. PICK f \in [0 .. Steps -> State] :
        f[0] = s /\ \A t \in 0 .. Steps - 1 : f[t + 1] = next[<<f[t], t>>]
  <2>1. Steps \in Nat /\ next \in Successors(State, Steps)
    BY <1>0, <1>1 DEF Successors
  <2> HIDE DEF next
  <2>2. PICK f : IsIteration(f, Steps, State, s, next)
    BY <2>1, Recursion
  <2> QED
    BY <2>2 DEF IsIteration
<1>3. f = body(f)
  <2>1. ASSUME NEW t \in 0 .. Steps, t # 0 PROVE f[t] = sha1_step(f[t - 1], W[t - 1], t - 1)
    <3>1. t - 1 \in 0 .. Steps - 1 /\ t - 1 \in 0 .. Steps /\ (t - 1) + 1 = t
      BY <1>0, <2>1
    <3>2. <<f[t - 1], t - 1>> \in State \X (0 .. Steps - 1)
      BY <3>1
    <3>3. f[t] = next[<<f[t - 1], t - 1>>]
      BY <1>2, <3>1
    <3> QED
      BY <3>2, <3>3
  <2> HIDE DEF next
  <2> QED
    BY <1>2, <2>1
<1>4. states = body(states)
  <2> HIDE DEF body
  <2> QED
    BY <1>3
<1>5. StatesFrom(s, W) = states
  BY DEF StatesFrom
<1> HIDE DEF states
<1> DEFINE g == StatesFrom(s, W)
<1>6. g = body(g)
  BY <1>4, <1>5
<1> HIDE DEF g
<1>7. g[0] = s
  BY <1>0, <1>6
<1>8. ASSUME NEW t \in 0 .. Steps - 1 PROVE g[t + 1] = sha1_step(g[t], W[t], t)
  <2>1. t + 1 \in 0 .. Steps /\ t + 1 # 0 /\ (t + 1) - 1 = t
    BY <1>0, <1>8
  <2> QED
    BY <1>6, <2>1
<1>9. \A t \in 0 .. Steps : g[t] \in State
  <2> DEFINE S == {t \in 0 .. Steps : g[t] \in State}
  <2>1. 0 \in S
    BY <1>0, <1>7
  <2>2. ASSUME NEW t \in 0 .. Steps - 1, t \in S PROVE t + 1 \in S
    <3>1. W[t] \in Word
      BY <2>2 DEF Expanded
    <3>2. g[t + 1] \in State
      BY <1>8, <2>2, <3>1, StepIsState
    <3> QED
      BY <1>0, <3>2
  <2>3. 0 .. Steps \subseteq S
    <3> HIDE DEF S
    <3> QED
      BY <1>0, <2>1, <2>2, IntervalInduction
  <2> QED
    BY <2>3
<1>10. g \in [0 .. Steps -> State]
  BY <1>6, <1>9
<1> QED
  BY <1>7, <1>8, <1>10 DEF g

(***************************************************************************)
(* Nothing else goes from s step by step: so the states that code has      *)
(* stepped through are those that SHA-1 defines.                           *)
(***************************************************************************)
LEMMA StatesFromAreUnique ==
  ASSUME NEW s \in State, NEW W \in Expanded, NEW n \in 0 .. Steps, NEW f,
         f[0] = s, \A t \in 0 .. n - 1 : f[t + 1] = sha1_step(f[t], W[t], t)
  PROVE  \A t \in 0 .. n : f[t] = StatesFrom(s, W)[t]
<1> DEFINE g == StatesFrom(s, W)
           S == {t \in 0 .. n : f[t] = g[t]}
<1>0. n \in Nat /\ Steps \in Nat /\ n <= Steps
  BY WordAssumption
<1>1. g[0] = s /\ \A t \in 0 .. Steps - 1 : g[t + 1] = sha1_step(g[t], W[t], t)
  BY StatesFromStepByStep
<1> HIDE DEF g
<1>2. 0 \in S
  BY <1>0, <1>1
<1>3. ASSUME NEW t \in 0 .. n - 1, t \in S PROVE t + 1 \in S
  <2>1. t \in 0 .. Steps - 1 /\ t + 1 \in 0 .. n
    BY <1>0
  <2>2. f[t] = g[t]
    BY <1>3
  <2>3. f[t + 1] = g[t + 1]
    BY <1>1, <2>1, <2>2
  <2> QED
    BY <2>1, <2>3
<1>4. 0 .. n \subseteq S
  <2> HIDE DEF S
  <2> QED
    BY <1>0, <1>2, <1>3, IntervalInduction
<1> QED
  BY <1>4 DEF g
===============================================================================
