----------------------------- MODULE AddBlockProofs ----------------------------
(***************************************************************************)
(* Proofs about AddBlock: all versions compute SHA-1's compression         *)
(* function and save the same states, for any table of needed states of    *)
(* the kind parse_bitrel makes, any number of steps in whole groups of     *)
(* four, words of any width and any round functions.                       *)
(***************************************************************************)
EXTENDS AddBlock, Sha1CoreProofs, SequenceTheorems

(* What is assumed of the operations on words. *)
USE DEF WordsAreClosed, RotationsUndo, XorIsLinear

LEMMA Numbers ==
  /\ Steps \in Nat /\ Steps >= 16 /\ Steps % 4 = 0 /\ n_needed_states \in Nat
  /\ WordMod \in Nat \ {0} /\ 0 \in Word /\ WordMod - 1 \in Word
BY WordAssumption, InputAssumption, NeedAssumption DEF Word

(* A run over the words written so far, and that many words are right. *)
RunInv ==
  /\ Len(run) = i + 1
  /\ \A t \in 0 .. i - 1 :
       /\ W[t] \in Word /\ W[t] = WordOf(t)
       /\ run[t + 2] = sha1_step(run[t + 1], W[t], t)

(* Which state each version is in, and the chaining value. *)
StateInv ==
  /\ pc \in {"plain", "portable"} => state = run[i + 1]
  /\ pc \in {"plain", "portable", "x86v2sha"} => cv = run[1]
  /\ pc \in {"hashed", "done"} => i = Steps /\ cv = FeedForward(run[1], run[Steps + 1])

(* The version for the SHA extensions is between two groups, and holds the *)
(* sixteen words that the next one depends on, and the state it starts from. *)
WordsBefore(k) ==
  IF i \in Loaded THEN <<m[4 * k], m[4 * k + 1], m[4 * k + 2], m[4 * k + 3]>>
  ELSE <<W[i - 16 + 4 * k], W[i - 15 + 4 * k], W[i - 14 + 4 * k], W[i - 13 + 4 * k]>>

GroupInv ==
  pc = "x86v2sha" =>
    /\ i % 4 = 0
    /\ Current = run[i + 1]
    /\ \A k \in 0 .. 3 : Wrn16_n1[k] = WordsBefore(k)

(* The slots handed out are those of the states passed. *)
SlotInv ==
  pc = "portable" =>
    /\ \A t \in 0 .. i - 1 : need_state[t] < saved
    /\ \A slot \in 0 .. saved - 1 : \E t \in 0 .. i - 1 : need_state[t] = slot

SavedUpTo(n) ==
  \A t \in 0 .. n : need_state[t] # -1 => states[need_state[t]] = run[t + 1]

SavedInv ==
  /\ pc \in {"portable", "x86v2sha"} => SavedUpTo(i - 1)
  /\ pc = "done" => SavedUpTo(Steps)

IInv == TypeOK /\ RunInv /\ StateInv /\ GroupInv /\ SlotInv /\ SavedInv

-------------------------------------------------------------------------------
(* Expansion: the words a group needs, in whichever order they are XORed. *)
LEMMA XorRegroups ==
  ASSUME NEW a \in Word, NEW b \in Word, NEW c \in Word, NEW d \in Word
  PROVE  Xor(Xor(Xor(a, b), c), d) = Xor(Xor(d, c), Xor(b, a))
<1>1. \A x, y \in Word : Xor(x, y) \in Word /\ Xor(x, y) = Xor(y, x)
  BY WordAssumption, XorAssumption
<1>2. Xor(Xor(Xor(a, b), c), d) = Xor(d, Xor(c, Xor(b, a)))
  BY <1>1
<1>3. Xor(Xor(d, c), Xor(b, a)) = Xor(d, Xor(c, Xor(b, a)))
  BY <1>1, XorAssumption
<1> QED
  BY <1>2, <1>3

LEMMA ExpandIsWord ==
  ASSUME NEW w, NEW t \in 16 .. Steps,
         w[t - 3] \in Word, w[t - 8] \in Word, w[t - 14] \in Word, w[t - 16] \in Word
  PROVE  sha1_expand_one(w, t) \in Word
<1>1. \A x, y \in Word : Xor(x, y) \in Word
  BY WordAssumption
<1>2. \A x \in Word : rotate_left(x, 1) \in Word
  BY XorAssumption
<1> QED
  BY <1>1, <1>2 DEF sha1_expand_one

LEMMA WordOfIsWord ==
  ASSUME TypeOK, RunInv, i < Steps
  PROVE  WordOf(i) \in Word
<1>1. CASE i \in Loaded
  BY <1>1 DEF TypeOK, WordOf
<1>2. CASE i \notin Loaded
  <2>1. i \in 16 .. Steps
    BY <1>2, Numbers DEF TypeOK, Loaded
  <2>2. \A t \in 0 .. i - 1 : W[t] \in Word
    BY DEF RunInv
  <2>3. i - 3 \in 0 .. i - 1 /\ i - 8 \in 0 .. i - 1 /\ i - 14 \in 0 .. i - 1 /\ i - 16 \in 0 .. i - 1
    BY <2>1
  <2>4. sha1_expand_one(W, i) \in Word
    BY <2>1, <2>2, <2>3, ExpandIsWord
  <2> QED
    BY <1>2, <2>4 DEF WordOf
<1> QED
  BY <1>1, <1>2

(* A word is expanded from those before it only. *)
LEMMA WordOfLooksBack ==
  ASSUME m' = m, NEW t \in Nat, \A u \in 0 .. t - 1 : W'[u] = W[u]
  PROVE  WordOf(t)' = WordOf(t)
<1>1. CASE t \in Loaded
  BY <1>1 DEF WordOf
<1>2. CASE t \notin Loaded
  <2>1. t >= 16
    BY <1>2 DEF Loaded
  <2>2. t - 3 \in 0 .. t - 1 /\ t - 8 \in 0 .. t - 1 /\ t - 14 \in 0 .. t - 1 /\ t - 16 \in 0 .. t - 1
    BY <2>1
  <2> QED
    BY <1>2, <2>2 DEF WordOf, sha1_expand_one
<1> QED
  BY <1>1, <1>2

(* A run grows at its end. *)
LEMMA RunGrows ==
  ASSUME NEW r \in Seq(State), NEW t \in 0 .. Steps - 1, Len(r) = t + 1, W'[t] \in Word
  PROVE  /\ After(r, t) \in Seq(State) /\ Len(After(r, t)) = t + 2
         /\ After(r, t)[t + 2] = sha1_step(r[t + 1], W'[t], t)
         /\ \A k \in 0 .. t : After(r, t)[k + 1] = r[k + 1]
         /\ sha1_step(r[t + 1], W'[t], t) \in State
<1> DEFINE s == sha1_step(r[t + 1], W'[t], t)
<1>1. r[t + 1] \in State
  BY Numbers
<1>2. s \in State
  BY <1>1, StepIsState
<1>3. After(r, t) = Append(r, s)
  BY DEF After
<1> HIDE DEF s
<1>4. /\ Append(r, s) \in Seq(State) /\ Len(Append(r, s)) = Len(r) + 1
      /\ Append(r, s)[Len(r) + 1] = s
      /\ \A k \in 1 .. Len(r) : Append(r, s)[k] = r[k]
  BY <1>2, AppendProperties
<1>5. \A k \in 0 .. t : k + 1 \in 1 .. Len(r)
  OBVIOUS
<1>6. Len(r) + 1 = t + 2
  OBVIOUS
<1> QED
  BY <1>2, <1>3, <1>4, <1>5, <1>6 DEF s

(* Saving a state fills its own slot and no other. *)
LEMMA SavingOne ==
  ASSUME NEW slots \in [Slots -> State \cup {Unwritten}], NEW s \in State, NEW t \in 0 .. Steps
  PROVE  /\ Saved(slots, s, t) \in [Slots -> State \cup {Unwritten}]
         /\ need_state[t] # -1 => Saved(slots, s, t)[need_state[t]] = s
         /\ \A u \in 0 .. Steps : u # t /\ need_state[u] # -1 =>
              Saved(slots, s, t)[need_state[u]] = slots[need_state[u]]
<1>1. need_state \in [0 .. Steps -> {-1} \cup Slots]
  BY NeedAssumption
<1>2. \A u \in 0 .. Steps : need_state[u] # -1 => need_state[u] \in Slots
  BY <1>1
<1>3. ASSUME NEW u \in 0 .. Steps, u # t, need_state[u] # -1 PROVE need_state[u] # need_state[t]
  <2>1. CASE need_state[t] = -1
    BY <1>3, <2>1
  <2>2. CASE need_state[t] # -1 /\ u < t
    <3>1. need_state[u] < need_state[t]
      BY <1>3, <2>2, NeedAssumption
    <3>2. need_state[u] \in Int /\ need_state[t] \in Int
      BY <1>2, <1>3, <2>2 DEF Slots
    <3> QED
      BY <3>1, <3>2
  <2>3. CASE need_state[t] # -1 /\ t < u
    <3>1. need_state[t] < need_state[u]
      BY <1>3, <2>3, NeedAssumption
    <3>2. need_state[u] \in Int /\ need_state[t] \in Int
      BY <1>2, <1>3, <2>3 DEF Slots
    <3> QED
      BY <3>1, <3>2
  <2> QED
    BY <1>3, <2>1, <2>2, <2>3, Numbers
<1> QED
  BY <1>2, <1>3 DEF Saved

-------------------------------------------------------------------------------
(* The initial states. *)
LEMMA InitEstablishesInv ==
  ASSUME Init PROVE IInv
<1>1. PICK input \in Inputs : cv = input[1] /\ m = input[2]
  BY DEF Init
<1>2. cv \in State /\ m \in [Loaded -> Word]
  BY <1>1, InputAssumption
<1>3. PICK garbage \in {0, WordMod - 1} :
        /\ old_abcd = <<rotate_left(cv.E, 2), garbage, garbage, garbage>>
        /\ Wn1_p2 = [j \in 0 .. 3 |-> garbage]
  BY DEF Init
<1>4. garbage \in Word
  BY Numbers
<1>5. /\ cv.A \in Word /\ cv.B \in Word /\ cv.C \in Word /\ cv.D \in Word /\ cv.E \in Word
      /\ cv = [A |-> cv.A, B |-> cv.B, C |-> cv.C, D |-> cv.D, E |-> cv.E]
  BY <1>2 DEF State
<1>6. cur_abcd = <<cv.A, cv.B, cv.C, cv.D>> /\ i = 0 /\ run = <<cv>> /\ state = cv /\ saved = 0
  BY DEF Init
<1>7. ASSUME NEW k \in 0 .. 3
      PROVE  /\ Wrn16_n1[k] = <<m[4 * k], m[4 * k + 1], m[4 * k + 2], m[4 * k + 3]>>
             /\ Wrn16_n1[k] \in Vector
  <2>1. 4 * k \in Loaded /\ 4 * k + 1 \in Loaded /\ 4 * k + 2 \in Loaded /\ 4 * k + 3 \in Loaded
    BY DEF Loaded
  <2> QED
    BY <1>2, <2>1 DEF Init, Vector
<1>8. TypeOK
  <2>1. Wrn16_n1 \in [0 .. 3 -> Vector]
    BY <1>7 DEF Init
  <2>2. Wn1_p2 \in [0 .. 3 -> Word]
    BY <1>3, <1>4
  <2>3. cur_abcd \in Vector /\ old_abcd \in Vector
    BY <1>3, <1>4, <1>5, <1>6, RotateAssumption DEF Vector
  <2>4. run \in Seq(State) /\ state \in State /\ saved \in Nat /\ i \in 0 .. Steps
    BY <1>2, <1>6, Numbers
  <2>5. /\ W \in [0 .. Steps - 1 -> Word \cup {Unwritten}]
        /\ states \in [Slots -> State \cup {Unwritten}]
        /\ pc \in {"plain", "hashed", "portable", "x86v2sha", "done"}
    BY DEF Init, pick_add_block_expanding_saving
  <2> QED
    BY <1>2, <2>1, <2>2, <2>3, <2>4, <2>5 DEF TypeOK
<1>9. RunInv
  BY <1>6 DEF RunInv
<1>10. StateInv
  BY <1>6 DEF StateInv, Init, pick_add_block_expanding_saving
<1>11. GroupInv
  <2>1. Current = cv
    <3>1. sha1_rotate_right(old_abcd[1], 2) = cv.E
      BY <1>3, <1>5, RotateAssumption
    <3>2. cur_abcd[1] = cv.A /\ cur_abcd[2] = cv.B /\ cur_abcd[3] = cv.C /\ cur_abcd[4] = cv.D
      BY <1>6
    <3> QED
      BY <1>5, <3>1, <3>2 DEF Current
  <2>2. \A k \in 0 .. 3 : Wrn16_n1[k] = WordsBefore(k)
    BY <1>6, <1>7 DEF WordsBefore, Loaded
  <2> QED
    BY <1>6, <2>1, <2>2 DEF GroupInv
<1>12. SlotInv /\ SavedInv
  BY <1>6 DEF SlotInv, SavedInv, SavedUpTo, Init, pick_add_block_expanding_saving
<1> QED
  BY <1>8, <1>9, <1>10, <1>11, <1>12 DEF IInv

-------------------------------------------------------------------------------
(* The versions that make one step at a time. *)
LEMMA OneStep ==
  ASSUME IInv, pc \in {"plain", "portable"}, i < Steps,
         W' = [W EXCEPT ![i] = WordOf(i)], state' = sha1_step(state, W'[i], i),
         i' = i + 1, run' = After(run, i), m' = m, pc' = pc, cv' = cv
  PROVE  /\ RunInv' /\ StateInv'
         /\ W' \in [0 .. Steps - 1 -> Word \cup {Unwritten}]
         /\ run' \in Seq(State) /\ state' \in State /\ i' \in 0 .. Steps
         /\ \A t \in 0 .. i : run'[t + 1] = run[t + 1]
<1> USE DEF IInv
<1>1. i \in 0 .. Steps - 1 /\ i + 1 \in 0 .. Steps
  BY Numbers DEF TypeOK
<1>2. WordOf(i) \in Word
  BY WordOfIsWord
<1>3. /\ W' \in [0 .. Steps - 1 -> Word \cup {Unwritten}]
      /\ W'[i] = WordOf(i) /\ \A t \in 0 .. i - 1 : W'[t] = W[t]
  BY <1>1, <1>2, Numbers DEF TypeOK
<1>4. W'[i] \in Word
  BY <1>2, <1>3
<1>5. run \in Seq(State) /\ Len(run) = i + 1
  BY DEF TypeOK, RunInv
<1>6. /\ run' \in Seq(State) /\ Len(run') = i + 2
      /\ run'[i + 2] = sha1_step(run[i + 1], W'[i], i)
      /\ \A t \in 0 .. i : run'[t + 1] = run[t + 1]
      /\ sha1_step(run[i + 1], W'[i], i) \in State
  BY <1>1, <1>4, <1>5, RunGrows
<1>7. state' = run'[i + 2] /\ state' \in State
  BY <1>6 DEF StateInv
<1>8. \A t \in 0 .. i : WordOf(t)' = WordOf(t)
  <2>1. ASSUME NEW t \in 0 .. i PROVE WordOf(t)' = WordOf(t)
    <3>1. t \in Nat /\ \A u \in 0 .. t - 1 : W'[u] = W[u]
      BY <1>1, <1>3
    <3> QED
      BY <3>1, WordOfLooksBack
  <2> QED
    BY <2>1
<1>9. RunInv'
  <2>1. ASSUME NEW t \in 0 .. i
        PROVE  /\ W'[t] \in Word /\ W'[t] = WordOf(t)'
               /\ run'[t + 2] = sha1_step(run'[t + 1], W'[t], t)
    <3>1. CASE t = i
      <4>1. run'[i + 1] = run[i + 1]
        BY <1>1, <1>6
      <4>2. WordOf(t)' = WordOf(t) /\ WordOf(t) = WordOf(i)
        BY <1>8, <3>1
      <4>3. W'[t] = WordOf(i) /\ W'[t] \in Word
        BY <1>3, <1>4, <3>1
      <4>4. run'[t + 2] = sha1_step(run'[t + 1], W'[t], t)
        BY <1>6, <3>1, <4>1
      <4> QED
        BY <4>2, <4>3, <4>4
    <3>2. CASE t \in 0 .. i - 1
      <4>1. t + 1 \in 0 .. i /\ (t + 1) + 1 = t + 2
        BY <1>1, <3>2
      <4>2. run'[t + 2] = run[t + 2] /\ run'[t + 1] = run[t + 1]
        BY <1>6, <4>1
      <4>3. W[t] \in Word /\ W[t] = WordOf(t) /\ run[t + 2] = sha1_step(run[t + 1], W[t], t)
        BY <3>2 DEF RunInv
      <4> QED
        BY <1>3, <1>8, <3>2, <4>2, <4>3
    <3> QED
      BY <1>1, <3>1, <3>2
  <2>2. i' - 1 = i /\ i' + 1 = i + 2
    BY <1>1
  <2> QED
    BY <1>6, <2>1, <2>2 DEF RunInv
<1>10. StateInv'
  <2>1. cv' = run'[1]
    <3>1. 0 \in 0 .. i /\ 0 + 1 = 1
      BY <1>1
    <3>2. run'[1] = run[1]
      BY <1>6, <3>1
    <3> QED
      BY <3>2 DEF StateInv
  <2>2. i' + 1 = i + 2
    BY <1>1
  <2> QED
    BY <1>7, <2>1, <2>2 DEF StateInv
<1> QED
  BY <1>1, <1>3, <1>6, <1>7, <1>9, <1>10

LEMMA RunStands ==
  ASSUME RunInv, UNCHANGED <<m, W, i, run>> PROVE RunInv'
BY DEF RunInv, WordOf, sha1_expand_one

LEMMA PlainKeepsInv ==
  ASSUME IInv, plain_step \/ plain_end PROVE IInv'
<1>1. CASE plain_step
  <2>1. /\ W' = [W EXCEPT ![i] = WordOf(i)] /\ state' = sha1_step(state, W'[i], i)
        /\ i' = i + 1 /\ run' = After(run, i) /\ m' = m /\ pc' = pc /\ cv' = cv
        /\ pc = "plain" /\ i < Steps
        /\ UNCHANGED <<states, saved, Wrn16_n1, cur_abcd, old_abcd, Wn1_p2>>
    BY <1>1 DEF plain_step, x86
  <2>2. /\ RunInv' /\ StateInv'
        /\ W' \in [0 .. Steps - 1 -> Word \cup {Unwritten}]
        /\ run' \in Seq(State) /\ state' \in State /\ i' \in 0 .. Steps
    BY <2>1, OneStep
  <2>3. TypeOK'
    BY <2>1, <2>2 DEF IInv, TypeOK
  <2>4. GroupInv' /\ SlotInv' /\ SavedInv'
    BY <2>1 DEF GroupInv, SlotInv, SavedInv
  <2> QED
    BY <2>2, <2>3, <2>4 DEF IInv
<1>2. CASE plain_end
  <2>1. /\ cv' = FeedForward(cv, state) /\ pc' = "hashed" /\ pc = "plain" /\ i >= Steps
        /\ UNCHANGED <<m, W, states, i, state, saved, run>>
        /\ UNCHANGED <<Wrn16_n1, cur_abcd, old_abcd, Wn1_p2>>
    BY <1>2 DEF plain_end, x86
  <2>2. RunInv'
    BY <2>1, RunStands DEF IInv
  <2>3. i = Steps
    BY <2>1, Numbers DEF IInv, TypeOK
  <2>4. cv \in State /\ state \in State /\ cv' \in State
    BY <2>1, FeedForwardIsState DEF IInv, TypeOK
  <2>5. TypeOK'
    BY <2>1, <2>4 DEF IInv, TypeOK
  <2>6. StateInv'
    BY <2>1, <2>3 DEF IInv, StateInv
  <2>7. GroupInv' /\ SlotInv' /\ SavedInv'
    BY <2>1 DEF GroupInv, SlotInv, SavedInv
  <2> QED
    BY <2>2, <2>5, <2>6, <2>7 DEF IInv
<1> QED
  BY <1>1, <1>2

-------------------------------------------------------------------------------
(* The portable version is never asked for a slot out of turn. *)
LEMMA SlotsComeInTurn ==
  ASSUME TypeOK, SlotInv, pc = "portable" PROVE SlotIsNext
<1> DEFINE q == need_state[i]
<1> SUFFICES ASSUME q # -1 PROVE q = saved
  BY DEF SlotIsNext
<1>1. /\ i \in 0 .. Steps /\ saved \in Nat
      /\ \A t \in 0 .. Steps : need_state[t] \in {-1} \cup Slots
      /\ \A t \in 0 .. i - 1 : t \in 0 .. Steps /\ t < i
  BY Numbers, NeedAssumption DEF TypeOK
<1>2. q \in Slots /\ q \in Nat /\ q < n_needed_states
  BY <1>1, Numbers DEF Slots
<1>3. ~(q < saved)
  <2> SUFFICES ASSUME q < saved PROVE FALSE
    OBVIOUS
  <2>1. q \in 0 .. saved - 1
    BY <1>1, <1>2
  <2>2. PICK t \in 0 .. i - 1 : need_state[t] = q
    BY <2>1 DEF SlotInv
  <2>3. t \in 0 .. Steps /\ t < i /\ need_state[t] # -1
    BY <1>1, <1>2, <2>2
  <2>4. need_state[t] < need_state[i]
    BY <1>1, <2>3, NeedAssumption
  <2> QED
    BY <1>2, <2>2, <2>4
<1>4. ~(saved < q)
  <2> SUFFICES ASSUME saved < q PROVE FALSE
    OBVIOUS
  <2>1. saved \in Slots
    BY <1>1, <1>2, Numbers DEF Slots
  <2>2. PICK t \in 0 .. Steps : need_state[t] = saved
    BY <2>1, NeedAssumption
  <2>3. need_state[t] # -1
    BY <1>1, <2>2
  <2>4. CASE t < i
    <3>1. t \in 0 .. i - 1
      BY <1>1, <2>4
    <3>2. need_state[t] < saved
      BY <3>1 DEF SlotInv
    <3> QED
      BY <1>1, <2>2, <3>2
  <2>5. CASE i < t
    <3>1. need_state[i] < need_state[t]
      BY <1>1, <2>3, <2>5, NeedAssumption
    <3> QED
      BY <1>1, <1>2, <2>2, <3>1
  <2>6. t # i
    BY <1>1, <1>2, <2>2
  <2> QED
    BY <1>1, <2>4, <2>5, <2>6
<1> QED
  BY <1>1, <1>2, <1>3, <1>4

LEMMA PortableKeepsInv ==
  ASSUME IInv, portable_step \/ portable_end PROVE IInv'
<1> USE DEF IInv
<1>1. /\ i \in 0 .. Steps /\ saved \in Nat /\ state \in State /\ cv \in State
      /\ states \in [Slots -> State \cup {Unwritten}]
  BY DEF TypeOK
<1>2. pc = "portable" /\ SlotIsNext /\ states' = Saved(states, state, i) /\ state = run[i + 1]
  BY DEF portable_step, portable_end, StateInv
<1>3. /\ states' \in [Slots -> State \cup {Unwritten}]
      /\ need_state[i] # -1 => states'[need_state[i]] = run[i + 1]
      /\ \A u \in 0 .. Steps : u # i /\ need_state[u] # -1 =>
           states'[need_state[u]] = states[need_state[u]]
  BY <1>1, <1>2, SavingOne
<1>4. \A t \in 0 .. i : need_state[t] # -1 => states'[need_state[t]] = run[t + 1]
  <2>1. ASSUME NEW t \in 0 .. i, need_state[t] # -1 PROVE states'[need_state[t]] = run[t + 1]
    <3>1. CASE t = i
      BY <1>3, <2>1, <3>1
    <3>2. CASE t \in 0 .. i - 1
      <4>1. states[need_state[t]] = run[t + 1]
        BY <1>2, <2>1, <3>2 DEF SavedInv, SavedUpTo
      <4>2. t \in 0 .. Steps /\ t # i
        BY <1>1, <3>2, Numbers
      <4> QED
        BY <1>3, <2>1, <4>1, <4>2
    <3> QED
      BY <1>1, <3>1, <3>2
  <2> QED
    BY <2>1
<1>5. CASE portable_step
  <2>1. /\ W' = [W EXCEPT ![i] = WordOf(i)] /\ state' = sha1_step(state, W'[i], i)
        /\ i' = i + 1 /\ run' = After(run, i) /\ m' = m /\ pc' = pc /\ cv' = cv
        /\ i < Steps /\ saved' = NextSlot
        /\ UNCHANGED <<Wrn16_n1, cur_abcd, old_abcd, Wn1_p2>>
    BY <1>5 DEF portable_step, x86
  <2>2. /\ RunInv' /\ StateInv'
        /\ W' \in [0 .. Steps - 1 -> Word \cup {Unwritten}]
        /\ run' \in Seq(State) /\ state' \in State /\ i' \in 0 .. Steps
        /\ \A t \in 0 .. i : run'[t + 1] = run[t + 1]
    BY <1>2, <2>1, OneStep
  <2>3. saved' \in Nat
    BY <1>1, <2>1 DEF NextSlot
  <2>4. TypeOK'
    BY <1>3, <2>1, <2>2, <2>3 DEF TypeOK
  <2>5. i' - 1 = i
    BY <1>1, <2>1
  <2>6. SavedInv'
    BY <1>2, <1>4, <2>1, <2>2, <2>5 DEF SavedInv, SavedUpTo
  <2>7. SlotInv'
    <3>1. \A t \in 0 .. i : need_state[t] \in Int
      BY <1>1, Numbers, NeedAssumption DEF Slots
    <3>2. \A t \in 0 .. i - 1 : t \in 0 .. i
      BY <1>1
    <3>3. CASE need_state[i] = -1
      <4>1. saved' = saved
        BY <2>1, <3>3 DEF NextSlot
      <4>2. \A t \in 0 .. i : t \in 0 .. i - 1 \/ need_state[t] = -1
        BY <1>1, <3>3
      <4>3. \A t \in 0 .. i : need_state[t] < saved'
        BY <1>1, <1>2, <4>1, <4>2 DEF SlotInv
      <4>4. \A slot \in 0 .. saved' - 1 : \E t \in 0 .. i : need_state[t] = slot
        BY <1>2, <3>2, <4>1 DEF SlotInv
      <4> QED
        BY <2>5, <4>3, <4>4 DEF SlotInv
    <3>4. CASE need_state[i] # -1
      <4>1. saved' = saved + 1 /\ need_state[i] = saved
        BY <1>2, <2>1, <3>4 DEF NextSlot, SlotIsNext
      <4>2. \A t \in 0 .. i : t \in 0 .. i - 1 \/ need_state[t] = saved
        BY <1>1, <4>1
      <4>3. \A t \in 0 .. i : need_state[t] < saved'
        <5>1. ASSUME NEW t \in 0 .. i PROVE need_state[t] < saved'
          <6>1. CASE t \in 0 .. i - 1
            <7>1. need_state[t] < saved
              BY <1>2, <6>1 DEF SlotInv
            <7> QED
              BY <1>1, <3>1, <4>1, <7>1
          <6>2. CASE need_state[t] = saved
            BY <1>1, <4>1, <6>2
          <6> QED
            BY <4>2, <6>1, <6>2
        <5> QED
          BY <5>1
      <4>4. ASSUME NEW slot \in 0 .. saved' - 1 PROVE \E t \in 0 .. i : need_state[t] = slot
        <5>1. CASE slot = saved
          <6>1. i \in 0 .. i
            BY <1>1
          <6> QED
            BY <4>1, <5>1, <6>1
        <5>2. CASE slot \in 0 .. saved - 1
          <6>1. PICK t \in 0 .. i - 1 : need_state[t] = slot
            BY <1>2, <5>2 DEF SlotInv
          <6> QED
            BY <3>2, <6>1
        <5> QED
          BY <1>1, <4>1, <5>1, <5>2
      <4> QED
        BY <2>5, <4>3, <4>4 DEF SlotInv
    <3> QED
      BY <3>3, <3>4
  <2>8. GroupInv'
    BY <1>2, <2>1 DEF GroupInv
  <2> QED
    BY <2>2, <2>4, <2>6, <2>7, <2>8
<1>6. CASE portable_end
  <2>1. /\ cv' = FeedForward(cv, state) /\ pc' = "done" /\ i >= Steps /\ saved' = NextSlot
        /\ UNCHANGED <<m, W, i, state, run>>
        /\ UNCHANGED <<Wrn16_n1, cur_abcd, old_abcd, Wn1_p2>>
    BY <1>6 DEF portable_end, x86
  <2>2. RunInv'
    BY <2>1, RunStands
  <2>3. i = Steps
    BY <1>1, <2>1, Numbers
  <2>4. cv' \in State
    BY <1>1, <2>1, FeedForwardIsState
  <2>5. saved' \in Nat
    BY <1>1, <2>1 DEF NextSlot
  <2>6. TypeOK'
    BY <1>3, <2>1, <2>4, <2>5 DEF TypeOK
  <2>7. StateInv'
    BY <1>2, <2>1, <2>3 DEF StateInv
  <2>8. SavedInv'
    BY <1>4, <2>1, <2>3 DEF SavedInv, SavedUpTo
  <2>9. GroupInv' /\ SlotInv'
    BY <2>1 DEF GroupInv, SlotInv
  <2> QED
    BY <2>2, <2>6, <2>7, <2>8, <2>9
<1> QED
  BY <1>5, <1>6

-------------------------------------------------------------------------------
(* Four steps at once are four steps: they have one round's function, and  *)
(* E may be added to the first word instead.                               *)
LEMMA OneRoundPerGroup ==
  ASSUME NEW s \in State, NEW w \in Word, NEW t \in 0 .. Steps - 4, t % 4 = 0, NEW k \in 0 .. 3
  PROVE  sha1_step(s, w, t) = sha1_step(s, w, t + k)
<1>1. t \in 0 .. Steps - 1 /\ t + k \in 0 .. Steps - 1 /\ 4 * (t \div 4) = t
  BY Numbers
<1>2. 4 * ((t + k) \div 4) = t
  BY <1>1
<1>3. s.B \in Word /\ s.C \in Word /\ s.D \in Word
  BY DEF State
<1>4. fk(s.B, s.C, s.D, t + k) = fk(s.B, s.C, s.D, 4 * ((t + k) \div 4))
  BY <1>1, <1>3, RoundAssumption
<1>5. fk(s.B, s.C, s.D, t + k) = fk(s.B, s.C, s.D, t)
  BY <1>2, <1>4
<1> QED
  BY <1>5 DEF sha1_step

LEMMA FourSteps ==
  ASSUME NEW s \in State, NEW old, old[1] \in Word, s.E = sha1_rotate_right(old[1], 2),
         NEW w \in Vector, NEW t \in 0 .. Steps - 4, t % 4 = 0,
         NEW s1, s1 = sha1_step(s, w[1], t), NEW s2, s2 = sha1_step(s1, w[2], t + 1),
         NEW s3, s3 = sha1_step(s2, w[3], t + 2), NEW s4, s4 = sha1_step(s3, w[4], t + 3)
  PROVE  /\ sha1rnds4(<<s.A, s.B, s.C, s.D>>, sha1nexte(old, w), t) = <<s4.A, s4.B, s4.C, s4.D>>
         /\ s4.E = sha1_rotate_right(s.A, 2)
         /\ s4 \in State
<1> DEFINE x == sha1nexte(old, w)
           p0 == [A |-> s.A, B |-> s.B, C |-> s.C, D |-> s.D, E |-> 0]
<1>1. /\ w[1] \in Word /\ w[2] \in Word /\ w[3] \in Word /\ w[4] \in Word
      /\ t \in 0 .. Steps - 1 /\ t + 1 \in 0 .. Steps - 1 /\ t + 2 \in 0 .. Steps - 1
      /\ t + 3 \in 0 .. Steps - 1
  BY Numbers DEF Vector
<1>2. /\ x[1] = Add(w[1], s.E) /\ x[2] = w[2] /\ x[3] = w[3] /\ x[4] = w[4]
  BY DEF sha1nexte, Vector
<1>3. /\ s.A \in Word /\ s.B \in Word /\ s.C \in Word /\ s.D \in Word /\ s.E \in Word
  BY DEF State
<1>4. s1 \in State /\ s2 \in State /\ s3 \in State /\ s4 \in State
  <2>1. s1 \in State
    BY <1>1, StepIsState
  <2>2. s2 \in State
    BY <1>1, <2>1, StepIsState
  <2>3. s3 \in State
    BY <1>1, <2>2, StepIsState
  <2>4. s4 \in State
    BY <1>1, <2>3, StepIsState
  <2> QED
    BY <2>1, <2>2, <2>3, <2>4
<1>5. sha1_step(p0, x[1], t) = s1
  <2>1. rotate_left(s.A, 5) \in Int /\ fk(s.B, s.C, s.D, t) \in Int
    BY <1>1, <1>3, RoundIsNumber, RotateAssumption, WordsAreNumbers
  <2>2. Add(Add(Add(0, rotate_left(s.A, 5)), fk(s.B, s.C, s.D, t)), Add(w[1], s.E))
          = Add(Add(Add(s.E, rotate_left(s.A, 5)), fk(s.B, s.C, s.D, t)), w[1])
    BY <1>1, <1>3, <2>1, EnteredLate
  <2> QED
    BY <1>2, <2>2 DEF sha1_step
<1>6. t + 0 = t /\ 1 \in 0 .. 3 /\ 2 \in 0 .. 3 /\ 3 \in 0 .. 3
  OBVIOUS
<1>7. sha1_step(s1, x[2], t) = s2
  <2>1. sha1_step(s1, w[2], t) = sha1_step(s1, w[2], t + 1)
    BY <1>1, <1>4, <1>6, OneRoundPerGroup
  <2> QED
    BY <1>2, <2>1
<1>8. sha1_step(s2, x[3], t) = s3
  BY <1>1, <1>2, <1>4, <1>6, OneRoundPerGroup
<1>9. sha1_step(s3, x[4], t) = s4
  BY <1>1, <1>2, <1>4, <1>6, OneRoundPerGroup
<1>10. sha1rnds4(<<s.A, s.B, s.C, s.D>>, x, t) = <<s4.A, s4.B, s4.C, s4.D>>
  <2> HIDE DEF x
  <2>1. sha1rnds4(<<s.A, s.B, s.C, s.D>>, x, t) =
          LET q == sha1_step(sha1_step(sha1_step(sha1_step(p0, x[1], t), x[2], t), x[3], t), x[4], t)
          IN  <<q.A, q.B, q.C, q.D>>
    BY DEF sha1rnds4
  <2> QED
    BY <1>5, <1>7, <1>8, <1>9, <2>1
<1>11. s4.E = sha1_rotate_right(s.A, 2)
  <2>1. s4.E = s3.D /\ s3.D = s2.C /\ s2.C = sha1_rotate_right(s1.B, 2) /\ s1.B = s.A
    BY DEF sha1_step
  <2> QED
    BY <2>1
<1> QED
  BY <1>4, <1>10, <1>11

-------------------------------------------------------------------------------
(* The version for the SHA extensions: the words of a group. *)
Written ==
  [t \in DOMAIN W |-> IF t \in i .. i + 3 THEN Wrp0_p3[t - i + 1] ELSE W[t]]

LEMMA GroupIsInside ==
  ASSUME TypeOK, i % 4 = 0, i < Steps
  PROVE  /\ i \in 0 .. Steps - 4 /\ i \in Nat /\ i + 4 \in 0 .. Steps /\ (i + 4) % 4 = 0
         /\ i \in Loaded => i + 3 \in Loaded /\ i \div 4 \in 0 .. 3 /\ 4 * (i \div 4) = i
         /\ i \notin Loaded => i >= 16
<1>1. Steps \in Nat /\ Steps % 4 = 0 /\ i \in Nat
  BY Numbers DEF TypeOK
<1>2. i = 4 * (i \div 4) /\ Steps = 4 * (Steps \div 4)
  BY <1>1
<1>3. i \div 4 < Steps \div 4
  BY <1>1, <1>2
<1>4. i + 4 <= Steps
  BY <1>1, <1>2, <1>3
<1>5. (i + 4) % 4 = 0
  BY <1>1
<1>6. i \in Loaded => i \div 4 \in 0 .. 3 /\ i + 3 \in Loaded
  BY <1>1, <1>2 DEF Loaded
<1> QED
  BY <1>1, <1>2, <1>4, <1>5, <1>6 DEF Loaded

LEMMA GroupIsExpanded ==
  ASSUME IInv, pc = "x86v2sha", i < Steps, i \notin Loaded
  PROVE  /\ Wrp0_p3 \in Vector
         /\ Wrp0_p3[1] = rotate_left(Xor(Xor(W[i - 3], W[i - 8]), Xor(W[i - 14], W[i - 16])), 1)
         /\ Wrp0_p3[2] = rotate_left(Xor(Xor(W[i - 2], W[i - 7]), Xor(W[i - 13], W[i - 15])), 1)
         /\ Wrp0_p3[3] = rotate_left(Xor(Xor(W[i - 1], W[i - 6]), Xor(W[i - 12], W[i - 14])), 1)
         /\ Wrp0_p3[4] = rotate_left(Xor(Xor(Wrp0_p3[1], W[i - 5]), Xor(W[i - 11], W[i - 13])), 1)
<1> USE DEF IInv
<1>1. /\ i >= 16 /\ i \in Nat /\ \A t \in 0 .. i - 1 : W[t] \in Word
  BY GroupIsInside DEF GroupInv, RunInv
<1>2. \A k \in 1 .. 16 : W[i - k] \in Word
  <2>1. \A k \in 1 .. 16 : i - k \in 0 .. i - 1
    BY <1>1
  <2> QED
    BY <1>1, <2>1
<1>3. \A k \in 0 .. 3 :
        Wrn16_n1[k] = <<W[i - 16 + 4 * k], W[i - 15 + 4 * k], W[i - 14 + 4 * k], W[i - 13 + 4 * k]>>
  BY DEF GroupInv, WordsBefore
<1>4. /\ Wrn16_n1[0] = <<W[i - 16], W[i - 15], W[i - 14], W[i - 13]>>
      /\ Wrn16_n1[1] = <<W[i - 12], W[i - 11], W[i - 10], W[i - 9]>>
      /\ Wrn16_n1[2] = <<W[i - 8], W[i - 7], W[i - 6], W[i - 5]>>
      /\ Wrn16_n1[3] = <<W[i - 4], W[i - 3], W[i - 2], W[i - 1]>>
  BY <1>1, <1>3
<1> DEFINE x == xor_v4u32(sha1msg1(Wrn16_n1[0], Wrn16_n1[1]), Wrn16_n1[2])
<1>5. x = <<Xor(Xor(W[i - 16], W[i - 14]), W[i - 8]), Xor(Xor(W[i - 15], W[i - 13]), W[i - 7]),
            Xor(Xor(W[i - 14], W[i - 12]), W[i - 6]), Xor(Xor(W[i - 13], W[i - 11]), W[i - 5])>>
  BY <1>4 DEF xor_v4u32, sha1msg1
<1>6. Wrp0_p3 = sha1msg2(x, Wrn16_n1[3])
  BY DEF Wrp0_p3
<1> HIDE DEF x
<1> DEFINE w1 == rotate_left(Xor(Xor(Xor(W[i - 16], W[i - 14]), W[i - 8]), W[i - 3]), 1)
           w2 == rotate_left(Xor(Xor(Xor(W[i - 15], W[i - 13]), W[i - 7]), W[i - 2]), 1)
           w3 == rotate_left(Xor(Xor(Xor(W[i - 14], W[i - 12]), W[i - 6]), W[i - 1]), 1)
           w4 == rotate_left(Xor(Xor(Xor(W[i - 13], W[i - 11]), W[i - 5]), w1), 1)
<1>7. Wrp0_p3 = <<w1, w2, w3, w4>>
  BY <1>4, <1>5, <1>6 DEF sha1msg2
<1>8. w1 = rotate_left(Xor(Xor(W[i - 3], W[i - 8]), Xor(W[i - 14], W[i - 16])), 1)
  <2>1. W[i - 16] \in Word /\ W[i - 14] \in Word /\ W[i - 8] \in Word /\ W[i - 3] \in Word
    BY <1>2
  <2>2. Xor(Xor(Xor(W[i - 16], W[i - 14]), W[i - 8]), W[i - 3])
          = Xor(Xor(W[i - 3], W[i - 8]), Xor(W[i - 14], W[i - 16]))
    BY <2>1, XorRegroups
  <2> QED
    BY <2>2
<1>9. w2 = rotate_left(Xor(Xor(W[i - 2], W[i - 7]), Xor(W[i - 13], W[i - 15])), 1)
  <2>1. W[i - 15] \in Word /\ W[i - 13] \in Word /\ W[i - 7] \in Word /\ W[i - 2] \in Word
    BY <1>2
  <2>2. Xor(Xor(Xor(W[i - 15], W[i - 13]), W[i - 7]), W[i - 2])
          = Xor(Xor(W[i - 2], W[i - 7]), Xor(W[i - 13], W[i - 15]))
    BY <2>1, XorRegroups
  <2> QED
    BY <2>2
<1>10. w3 = rotate_left(Xor(Xor(W[i - 1], W[i - 6]), Xor(W[i - 12], W[i - 14])), 1)
  <2>1. W[i - 14] \in Word /\ W[i - 12] \in Word /\ W[i - 6] \in Word /\ W[i - 1] \in Word
    BY <1>2
  <2>2. Xor(Xor(Xor(W[i - 14], W[i - 12]), W[i - 6]), W[i - 1])
          = Xor(Xor(W[i - 1], W[i - 6]), Xor(W[i - 12], W[i - 14]))
    BY <2>1, XorRegroups
  <2> QED
    BY <2>2
<1>11. \A a, b, c, d \in Word : rotate_left(Xor(Xor(Xor(a, b), c), d), 1) \in Word
  <2>1. \A y, z \in Word : Xor(y, z) \in Word
    BY WordAssumption
  <2>2. \A y \in Word : rotate_left(y, 1) \in Word
    BY XorAssumption
  <2> QED
    BY <2>1, <2>2
<1>12. w1 \in Word /\ w2 \in Word /\ w3 \in Word
  BY <1>2, <1>11
<1> HIDE DEF w1, w2, w3
<1>13. w4 \in Word /\ w4 = rotate_left(Xor(Xor(w1, W[i - 5]), Xor(W[i - 11], W[i - 13])), 1)
  <2>1. W[i - 13] \in Word /\ W[i - 11] \in Word /\ W[i - 5] \in Word
    BY <1>2
  <2>2. Xor(Xor(Xor(W[i - 13], W[i - 11]), W[i - 5]), w1)
          = Xor(Xor(w1, W[i - 5]), Xor(W[i - 11], W[i - 13]))
    BY <1>12, <2>1, XorRegroups
  <2> QED
    BY <1>11, <1>12, <2>1, <2>2
<1> HIDE DEF w4
<1>14. Wrp0_p3 \in Vector
  BY <1>7, <1>12, <1>13 DEF Vector
<1>15. Wrp0_p3[1] = w1 /\ Wrp0_p3[2] = w2 /\ Wrp0_p3[3] = w3 /\ Wrp0_p3[4] = w4
  BY <1>7
<1> QED
  BY <1>8, <1>9, <1>10, <1>13, <1>14, <1>15

LEMMA GroupIsWritten ==
  ASSUME IInv, pc = "x86v2sha", i < Steps, W' = Written, m' = m
  PROVE  /\ Wrp0_p3 \in Vector
         /\ W' \in [0 .. Steps - 1 -> Word \cup {Unwritten}]
         /\ \A t \in 0 .. i - 1 : W'[t] = W[t]
         /\ W'[i] = Wrp0_p3[1] /\ W'[i + 1] = Wrp0_p3[2]
         /\ W'[i + 2] = Wrp0_p3[3] /\ W'[i + 3] = Wrp0_p3[4]
         /\ \A t \in 0 .. i + 3 : W'[t] \in Word /\ W'[t] = WordOf(t)'
<1> USE DEF IInv
<1>1. /\ i \in 0 .. Steps - 4 /\ i \in Nat
      /\ i \in Loaded => i + 3 \in Loaded /\ i \div 4 \in 0 .. 3 /\ 4 * (i \div 4) = i
      /\ i \notin Loaded => i >= 16
  BY GroupIsInside DEF GroupInv
<1>2. ASSUME i \in Loaded PROVE Wrp0_p3 \in Vector
  <2>1. Wrp0_p3 = <<m[i], m[i + 1], m[i + 2], m[i + 3]>>
    BY <1>1, <1>2 DEF Wrp0_p3, GroupInv, WordsBefore
  <2>2. i + 1 \in Loaded /\ i + 2 \in Loaded /\ i + 3 \in Loaded
    BY <1>1, <1>2 DEF Loaded
  <2> QED
    BY <1>2, <2>1, <2>2 DEF TypeOK, Vector
<1>3. Wrp0_p3 \in Vector
  BY <1>2, GroupIsExpanded
<1>4. /\ Wrp0_p3[1] \in Word /\ Wrp0_p3[2] \in Word /\ Wrp0_p3[3] \in Word /\ Wrp0_p3[4] \in Word
  BY <1>3 DEF Vector
<1>5. /\ DOMAIN W = 0 .. Steps - 1 /\ \A t \in 0 .. Steps - 1 : W[t] \in Word \cup {Unwritten}
      /\ W' = [t \in 0 .. Steps - 1 |-> IF t \in i .. i + 3 THEN Wrp0_p3[t - i + 1] ELSE W[t]]
  BY DEF TypeOK, Written
<1>6. /\ W'[i] = Wrp0_p3[1] /\ W'[i + 1] = Wrp0_p3[2]
      /\ W'[i + 2] = Wrp0_p3[3] /\ W'[i + 3] = Wrp0_p3[4]
  <2>1. /\ i - i + 1 = 1 /\ (i + 1) - i + 1 = 2 /\ (i + 2) - i + 1 = 3 /\ (i + 3) - i + 1 = 4
        /\ i \in i .. i + 3 /\ i + 1 \in i .. i + 3 /\ i + 2 \in i .. i + 3 /\ i + 3 \in i .. i + 3
        /\ \A t \in i .. i + 3 : t \in 0 .. Steps - 1
    BY <1>1, Numbers
  <2>2. \A t \in i .. i + 3 : W'[t] = Wrp0_p3[t - i + 1]
    BY <1>5, <2>1
  <2> HIDE DEF Written
  <2> QED
    BY <2>1, <2>2
<1>7. \A t \in 0 .. i - 1 : W'[t] = W[t]
  <2>1. \A t \in 0 .. i - 1 : t \in 0 .. Steps - 1 /\ t \notin i .. i + 3
    BY <1>1, Numbers
  <2> QED
    BY <1>5, <2>1
<1>8. W' \in [0 .. Steps - 1 -> Word \cup {Unwritten}]
  <2>1. ASSUME NEW t \in 0 .. Steps - 1
        PROVE  (IF t \in i .. i + 3 THEN Wrp0_p3[t - i + 1] ELSE W[t]) \in Word \cup {Unwritten}
    <3>1. CASE t \in i .. i + 3
      <4>1. t = i \/ t = i + 1 \/ t = i + 2 \/ t = i + 3
        BY <1>1, <3>1
      <4>2. t - i + 1 = 1 \/ t - i + 1 = 2 \/ t - i + 1 = 3 \/ t - i + 1 = 4
        BY <1>1, <4>1
      <4> QED
        BY <1>4, <3>1, <4>2
    <3>2. CASE t \notin i .. i + 3
      BY <1>5, <3>2
    <3> QED
      BY <3>1, <3>2
  <2> QED
    BY <1>5, <2>1
<1>9. \A t \in 0 .. i - 1 : W[t] \in Word /\ W[t] = WordOf(t)
  BY DEF RunInv
<1>10. ASSUME NEW t \in i .. i + 3 PROVE W'[t] = WordOf(t)'
  <2>1. t = i \/ t = i + 1 \/ t = i + 2 \/ t = i + 3
    BY <1>1
  <2>2. CASE i \in Loaded
    <3>1. Wrp0_p3 = <<m[i], m[i + 1], m[i + 2], m[i + 3]>>
      BY <1>1, <2>2 DEF Wrp0_p3, GroupInv, WordsBefore
    <3>2. W'[t] = m[t]
      BY <1>6, <2>1, <3>1
    <3>3. t \in Loaded
      BY <1>1, <2>2 DEF Loaded
    <3> QED
      BY <3>2, <3>3 DEF WordOf
  <2>3. CASE i \notin Loaded
    <3>1. i >= 16 /\ t \notin Loaded
      BY <1>1, <2>3 DEF Loaded
    <3>2. WordOf(t)' = rotate_left(Xor(Xor(W'[t - 3], W'[t - 8]), Xor(W'[t - 14], W'[t - 16])), 1)
      BY <3>1 DEF WordOf, sha1_expand_one
    <3>3. \A k \in 1 .. 16 : W'[i - k] = W[i - k]
      <4>1. \A k \in 1 .. 16 : i - k \in 0 .. i - 1
        BY <1>1, <3>1
      <4> QED
        BY <1>7, <4>1
    <3>4. /\ Wrp0_p3[1] = rotate_left(Xor(Xor(W[i - 3], W[i - 8]), Xor(W[i - 14], W[i - 16])), 1)
          /\ Wrp0_p3[2] = rotate_left(Xor(Xor(W[i - 2], W[i - 7]), Xor(W[i - 13], W[i - 15])), 1)
          /\ Wrp0_p3[3] = rotate_left(Xor(Xor(W[i - 1], W[i - 6]), Xor(W[i - 12], W[i - 14])), 1)
          /\ Wrp0_p3[4] = rotate_left(Xor(Xor(Wrp0_p3[1], W[i - 5]), Xor(W[i - 11], W[i - 13])), 1)
      BY <2>3, GroupIsExpanded
    <3>5. CASE t = i
      <4>1. W'[t - 3] = W[i - 3] /\ W'[t - 8] = W[i - 8] /\ W'[t - 14] = W[i - 14] /\ W'[t - 16] = W[i - 16]
        BY <3>3, <3>5
      <4> QED
        BY <1>6, <3>2, <3>4, <3>5, <4>1
    <3>6. CASE t = i + 1
      <4>1. t - 3 = i - 2 /\ t - 8 = i - 7 /\ t - 14 = i - 13 /\ t - 16 = i - 15
        BY <1>1, <3>6
      <4>2. W'[t - 3] = W[i - 2] /\ W'[t - 8] = W[i - 7] /\ W'[t - 14] = W[i - 13] /\ W'[t - 16] = W[i - 15]
        BY <3>3, <4>1
      <4> QED
        BY <1>6, <3>2, <3>4, <3>6, <4>2
    <3>7. CASE t = i + 2
      <4>1. t - 3 = i - 1 /\ t - 8 = i - 6 /\ t - 14 = i - 12 /\ t - 16 = i - 14
        BY <1>1, <3>7
      <4>2. W'[t - 3] = W[i - 1] /\ W'[t - 8] = W[i - 6] /\ W'[t - 14] = W[i - 12] /\ W'[t - 16] = W[i - 14]
        BY <3>3, <4>1
      <4> QED
        BY <1>6, <3>2, <3>4, <3>7, <4>2
    <3>8. CASE t = i + 3
      <4>1. t - 3 = i /\ t - 8 = i - 5 /\ t - 14 = i - 11 /\ t - 16 = i - 13
        BY <1>1, <3>8
      <4>2. W'[t - 3] = Wrp0_p3[1] /\ W'[t - 8] = W[i - 5] /\ W'[t - 14] = W[i - 11] /\ W'[t - 16] = W[i - 13]
        BY <1>6, <3>3, <4>1
      <4> QED
        BY <1>6, <3>2, <3>4, <3>8, <4>2
    <3> QED
      BY <2>1, <3>5, <3>6, <3>7, <3>8
  <2> QED
    BY <2>2, <2>3
<1>11. ASSUME NEW t \in 0 .. i + 3 PROVE W'[t] \in Word /\ W'[t] = WordOf(t)'
  <2>1. CASE t \in i .. i + 3
    <3>1. t = i \/ t = i + 1 \/ t = i + 2 \/ t = i + 3
      BY <1>1, <2>1
    <3> QED
      BY <1>4, <1>6, <1>10, <2>1, <3>1
  <2>2. CASE t \in 0 .. i - 1
    <3>1. t \in Nat /\ \A u \in 0 .. t - 1 : W'[u] = W[u]
      BY <1>1, <1>7, <2>2
    <3>2. WordOf(t)' = WordOf(t)
      BY <3>1, WordOfLooksBack
    <3> QED
      BY <1>7, <1>9, <2>2, <3>2
  <2> QED
    BY <1>1, <2>1, <2>2
<1> QED
  BY <1>3, <1>6, <1>7, <1>8, <1>11

(* A group is four steps of the compressor, and saves the states of three. *)
LEMMA GroupKeepsInv ==
  ASSUME IInv, x86v2sha_steps PROVE IInv'
<1> USE DEF IInv
<1>1. /\ pc = "x86v2sha" /\ i < Steps /\ W' = Written /\ Wn1_p2' = Assigned
      /\ old_abcd' = cur_abcd
      /\ cur_abcd' = sha1rnds4(cur_abcd, sha1nexte(old_abcd, Wrp0_p3), i)
      /\ states' = SavedForth(SavedBack(states)) /\ i' = i + 4
      /\ run' = After(After(After(After(run, i), i + 1), i + 2), i + 3)
      /\ cv' = cv /\ m' = m /\ pc' = pc /\ state' = state /\ saved' = saved
  BY DEF x86v2sha_steps, Written
<1>2. /\ i \in 0 .. Steps - 4 /\ i \in Nat /\ i % 4 = 0
      /\ i + 4 \in 0 .. Steps /\ (i + 4) % 4 = 0
  BY <1>1, GroupIsInside DEF GroupInv
<1>3. /\ Wrp0_p3 \in Vector
      /\ W' \in [0 .. Steps - 1 -> Word \cup {Unwritten}]
      /\ \A t \in 0 .. i - 1 : W'[t] = W[t]
      /\ W'[i] = Wrp0_p3[1] /\ W'[i + 1] = Wrp0_p3[2]
      /\ W'[i + 2] = Wrp0_p3[3] /\ W'[i + 3] = Wrp0_p3[4]
      /\ \A t \in 0 .. i + 3 : W'[t] \in Word /\ W'[t] = WordOf(t)'
  BY <1>1, GroupIsWritten
<1>4. /\ W'[i] \in Word /\ W'[i + 1] \in Word /\ W'[i + 2] \in Word /\ W'[i + 3] \in Word
  BY <1>2, <1>3
<1>5. Current = run[i + 1] /\ run \in Seq(State) /\ Len(run) = i + 1 /\ run[i + 1] \in State
  BY <1>1, <1>2 DEF TypeOK, RunInv, GroupInv
<1> DEFINE r1 == After(run, i)
           r2 == After(r1, i + 1)
           r3 == After(r2, i + 2)
           r4 == After(r3, i + 3)
           s0 == run[i + 1]
           s1 == sha1_step(s0, W'[i], i)
           s2 == sha1_step(s1, W'[i + 1], i + 1)
           s3 == sha1_step(s2, W'[i + 2], i + 2)
           s4 == sha1_step(s3, W'[i + 3], i + 3)
<1>6. /\ run' \in Seq(State) /\ Len(run') = i + 5
      /\ \A k \in 0 .. i : run'[k + 1] = run[k + 1]
      /\ run'[i + 2] = s1 /\ run'[i + 3] = s2 /\ run'[i + 4] = s3 /\ run'[i + 5] = s4
      /\ s1 \in State /\ s2 \in State
  <2>1. /\ i \in 0 .. Steps - 1 /\ i + 1 \in 0 .. Steps - 1 /\ i + 2 \in 0 .. Steps - 1
        /\ i + 3 \in 0 .. Steps - 1
    BY <1>2, Numbers
  <2>2. /\ r1 \in Seq(State) /\ Len(r1) = i + 2 /\ r1[i + 2] = s1
        /\ \A k \in 0 .. i : r1[k + 1] = run[k + 1]
        /\ s1 \in State
    BY <1>4, <1>5, <2>1, RunGrows
  <2> HIDE DEF r1
  <2>3. /\ (i + 1) + 1 = i + 2 /\ (i + 1) + 2 = i + 3 /\ (i + 2) + 1 = i + 3
        /\ (i + 2) + 2 = i + 4 /\ (i + 3) + 1 = i + 4 /\ (i + 3) + 2 = i + 5
    BY <1>2
  <2>4. /\ r2 \in Seq(State) /\ Len(r2) = (i + 1) + 2
        /\ r2[(i + 1) + 2] = sha1_step(r1[(i + 1) + 1], W'[i + 1], i + 1)
        /\ \A k \in 0 .. i + 1 : r2[k + 1] = r1[k + 1]
        /\ sha1_step(r1[(i + 1) + 1], W'[i + 1], i + 1) \in State
    BY <1>4, <2>1, <2>2, <2>3, RunGrows
  <2>5. Len(r2) = i + 3 /\ r2[i + 3] = s2 /\ s2 \in State
    BY <2>2, <2>3, <2>4
  <2> HIDE DEF r2
  <2>6. /\ r3 \in Seq(State) /\ Len(r3) = (i + 2) + 2
        /\ r3[(i + 2) + 2] = sha1_step(r2[(i + 2) + 1], W'[i + 2], i + 2)
        /\ \A k \in 0 .. i + 2 : r3[k + 1] = r2[k + 1]
    BY <1>4, <2>1, <2>3, <2>4, <2>5, RunGrows
  <2>7. Len(r3) = i + 4 /\ r3[i + 4] = s3
    BY <2>3, <2>5, <2>6
  <2> HIDE DEF r3
  <2>8. /\ r4 \in Seq(State) /\ Len(r4) = (i + 3) + 2
        /\ r4[(i + 3) + 2] = sha1_step(r3[(i + 3) + 1], W'[i + 3], i + 3)
        /\ \A k \in 0 .. i + 3 : r4[k + 1] = r3[k + 1]
    <3>1. /\ r3 \in Seq(State) /\ Len(r3) = (i + 3) + 1
          /\ W'[i + 3] \in Word /\ i + 3 \in 0 .. Steps - 1
      BY <1>4, <2>1, <2>3, <2>6, <2>7
    <3> QED
      BY <3>1, RunGrows
  <2>9. Len(r4) = i + 5 /\ r4[i + 5] = s4
    BY <2>3, <2>7, <2>8
  <2>10. run' = r4
    BY <1>1 DEF r1, r2, r3
  <2> HIDE DEF r4, s1, s2, s3, s4
  <2>11. /\ \A k \in 0 .. i : k \in 0 .. i + 1 /\ k \in 0 .. i + 2 /\ k \in 0 .. i + 3
         /\ i + 1 \in 0 .. i + 1 /\ i + 1 \in 0 .. i + 2 /\ i + 1 \in 0 .. i + 3
         /\ i + 2 \in 0 .. i + 2 /\ i + 2 \in 0 .. i + 3 /\ i + 3 \in 0 .. i + 3
    BY <1>2
  <2>12. \A k \in 0 .. i : r4[k + 1] = run[k + 1]
    BY <2>2, <2>4, <2>6, <2>8, <2>11
  <2>13. r4[i + 2] = s1
    BY <2>2, <2>3, <2>4, <2>6, <2>8, <2>11
  <2>14. r4[i + 3] = s2
    BY <2>3, <2>5, <2>6, <2>8, <2>11
  <2>15. r4[i + 4] = s3
    BY <2>3, <2>7, <2>8, <2>11
  <2> QED
    BY <2>2, <2>5, <2>8, <2>9, <2>10, <2>12, <2>13, <2>14, <2>15
<1> HIDE DEF r1, r2, r3, r4
<1>7. RunInv'
  <2>1. ASSUME NEW t \in 0 .. i + 3
        PROVE  run'[t + 2] = sha1_step(run'[t + 1], W'[t], t)
    <3>1. run'[i + 1] = s0
      BY <1>2, <1>6
    <3>2. CASE t \in 0 .. i - 1
      <4>1. t + 1 \in 0 .. i /\ t \in 0 .. i /\ (t + 1) + 1 = t + 2
        BY <1>2, <3>2
      <4>2. run'[t + 2] = run[t + 2] /\ run'[t + 1] = run[t + 1]
        BY <1>6, <4>1
      <4> QED
        BY <1>3, <3>2, <4>2 DEF RunInv
    <3>3. CASE t = i
      BY <1>6, <3>1, <3>3
    <3>4. CASE t = i + 1
      <4>1. t + 1 = i + 2 /\ t + 2 = i + 3
        BY <1>2, <3>4
      <4> QED
        BY <1>6, <3>4, <4>1
    <3>5. CASE t = i + 2
      <4>1. t + 1 = i + 3 /\ t + 2 = i + 4
        BY <1>2, <3>5
      <4> QED
        BY <1>6, <3>5, <4>1
    <3>6. CASE t = i + 3
      <4>1. t + 1 = i + 4 /\ t + 2 = i + 5
        BY <1>2, <3>6
      <4> QED
        BY <1>6, <3>6, <4>1
    <3> QED
      BY <1>2, <3>2, <3>3, <3>4, <3>5, <3>6
  <2>2. i' - 1 = i + 3 /\ i' + 1 = i + 5
    BY <1>1, <1>2
  <2> QED
    BY <1>3, <1>6, <2>1, <2>2 DEF RunInv
<1>8. /\ cur_abcd' = <<s4.A, s4.B, s4.C, s4.D>>
      /\ s4.E = sha1_rotate_right(cur_abcd[1], 2) /\ s4 \in State
  <2>1. /\ s0.A = cur_abcd[1] /\ s0.B = cur_abcd[2] /\ s0.C = cur_abcd[3] /\ s0.D = cur_abcd[4]
        /\ s0.E = sha1_rotate_right(old_abcd[1], 2)
    BY <1>5 DEF Current
  <2>2. cur_abcd = <<s0.A, s0.B, s0.C, s0.D>> /\ old_abcd[1] \in Word
    BY <2>1 DEF TypeOK, Vector
  <2>3. /\ s1 = sha1_step(s0, Wrp0_p3[1], i) /\ s2 = sha1_step(s1, Wrp0_p3[2], i + 1)
        /\ s3 = sha1_step(s2, Wrp0_p3[3], i + 2) /\ s4 = sha1_step(s3, Wrp0_p3[4], i + 3)
    BY <1>3
  <2>4. s0 \in State
    BY <1>5
  <2> HIDE DEF s0, s1, s2, s3, s4
  <2>5. /\ sha1rnds4(<<s0.A, s0.B, s0.C, s0.D>>, sha1nexte(old_abcd, Wrp0_p3), i)
              = <<s4.A, s4.B, s4.C, s4.D>>
        /\ s4.E = sha1_rotate_right(s0.A, 2)
        /\ s4 \in State
    BY <1>2, <1>3, <2>1, <2>2, <2>3, <2>4, FourSteps
  <2> QED
    BY <1>1, <2>1, <2>2, <2>5
<1>9. Current' = run'[i' + 1]
  <2>1. i' + 1 = i + 5
    BY <1>1, <1>2
  <2>2. s4 = [A |-> s4.A, B |-> s4.B, C |-> s4.C, D |-> s4.D, E |-> s4.E]
    <3> HIDE DEF s4
    <3> QED
      BY <1>8 DEF State
  <2>3. /\ cur_abcd'[1] = s4.A /\ cur_abcd'[2] = s4.B /\ cur_abcd'[3] = s4.C /\ cur_abcd'[4] = s4.D
        /\ sha1_rotate_right(old_abcd'[1], 2) = s4.E
    <3> HIDE DEF s4
    <3> QED
      BY <1>1, <1>8
  <2>4. Current' = s4
    <3> HIDE DEF s4
    <3> QED
      BY <2>2, <2>3 DEF Current
  <2> QED
    BY <1>6, <2>1, <2>4
<1>10. ASSUME NEW k \in 0 .. 3 PROVE Wrn16_n1'[k] = WordsBefore(k)'
  <2>1. /\ 4 * k \in 0 .. 12 /\ 4 * k \in Loaded /\ 4 * k + 1 \in Loaded /\ 4 * k + 2 \in Loaded
        /\ 4 * k + 3 \in Loaded
    BY DEF Loaded
  <2>2. CASE i \in Loaded
    <3>1. Wrn16_n1'[k] = <<m[4 * k], m[4 * k + 1], m[4 * k + 2], m[4 * k + 3]>>
      BY <1>1, <2>2 DEF x86v2sha_steps, GroupInv, WordsBefore
    <3>2. CASE i' \in Loaded
      BY <1>1, <3>1, <3>2 DEF WordsBefore
    <3>3. CASE i' \notin Loaded
      <4>1. i' = 16 /\ i + 3 = 15
        BY <1>1, <1>2, <2>2, <3>3 DEF Loaded
      <4>2. \A t \in Loaded : W'[t] = m[t]
        <5>1. ASSUME NEW t \in Loaded PROVE W'[t] = m[t]
          <6>1. t \in 0 .. i + 3
            BY <4>1 DEF Loaded
          <6>2. W'[t] = WordOf(t)'
            BY <1>3, <6>1
          <6> QED
            BY <1>1, <6>2 DEF WordOf
        <5> QED
          BY <5>1
      <4>3. /\ i' - 16 + 4 * k = 4 * k /\ i' - 15 + 4 * k = 4 * k + 1
            /\ i' - 14 + 4 * k = 4 * k + 2 /\ i' - 13 + 4 * k = 4 * k + 3
        BY <2>1, <4>1
      <4>4. WordsBefore(k)' = <<W'[4 * k], W'[4 * k + 1], W'[4 * k + 2], W'[4 * k + 3]>>
        BY <3>3, <4>3 DEF WordsBefore
      <4> QED
        BY <2>1, <3>1, <4>2, <4>4
    <3> QED
      BY <3>2, <3>3
  <2>3. CASE i \notin Loaded
    <3>1. i >= 16 /\ i' \notin Loaded
      BY <1>1, <1>2, <2>3 DEF Loaded
    <3>2. WordsBefore(k)' = <<W'[i' - 16 + 4 * k], W'[i' - 15 + 4 * k],
                              W'[i' - 14 + 4 * k], W'[i' - 13 + 4 * k]>>
      BY <3>1 DEF WordsBefore
    <3>3. Wrn16_n1' = [l \in 0 .. 3 |-> IF l = 3 THEN Wrp0_p3 ELSE Wrn16_n1[l + 1]]
      BY <2>3 DEF x86v2sha_steps
    <3>4. CASE k = 3
      <4>1. /\ i' - 16 + 4 * k = i /\ i' - 15 + 4 * k = i + 1
            /\ i' - 14 + 4 * k = i + 2 /\ i' - 13 + 4 * k = i + 3
        BY <1>1, <1>2, <3>4
      <4>2. WordsBefore(k)' = <<Wrp0_p3[1], Wrp0_p3[2], Wrp0_p3[3], Wrp0_p3[4]>>
        BY <1>3, <3>2, <4>1
      <4>3. Wrp0_p3 = <<Wrp0_p3[1], Wrp0_p3[2], Wrp0_p3[3], Wrp0_p3[4]>>
        BY <1>3 DEF Vector
      <4> QED
        BY <3>3, <3>4, <4>2, <4>3
    <3>5. CASE k \in 0 .. 2
      <4>1. k + 1 \in 0 .. 3
        BY <3>5
      <4>2. Wrn16_n1'[k] = <<W[i - 16 + 4 * (k + 1)], W[i - 15 + 4 * (k + 1)],
                             W[i - 14 + 4 * (k + 1)], W[i - 13 + 4 * (k + 1)]>>
        BY <1>1, <2>3, <3>3, <3>5, <4>1 DEF GroupInv, WordsBefore
      <4>3. /\ i' - 16 + 4 * k = i - 16 + 4 * (k + 1) /\ i' - 15 + 4 * k = i - 15 + 4 * (k + 1)
            /\ i' - 14 + 4 * k = i - 14 + 4 * (k + 1) /\ i' - 13 + 4 * k = i - 13 + 4 * (k + 1)
        BY <1>1, <1>2
      <4>4. /\ i - 16 + 4 * (k + 1) \in 0 .. i - 1 /\ i - 15 + 4 * (k + 1) \in 0 .. i - 1
            /\ i - 14 + 4 * (k + 1) \in 0 .. i - 1 /\ i - 13 + 4 * (k + 1) \in 0 .. i - 1
        BY <1>2, <3>1, <3>5
      <4> QED
        BY <1>3, <3>2, <4>2, <4>3, <4>4
    <3> QED
      BY <3>4, <3>5
  <2> QED
    BY <2>2, <2>3
<1>11. GroupInv'
  <2>1. i' % 4 = 0
    BY <1>1, <1>2
  <2> QED
    BY <1>9, <1>10, <2>1 DEF GroupInv
<1>12. StateInv'
  <2>1. 0 \in 0 .. i /\ 0 + 1 = 1
    BY <1>2
  <2>2. run'[1] = run[1]
    BY <1>6, <2>1
  <2> QED
    BY <1>1, <2>2 DEF StateInv
<1>13. SlotInv'
  BY <1>1 DEF SlotInv
<1>14. /\ states' \in [Slots -> State \cup {Unwritten}]
       /\ \A t \in 0 .. i + 3 : need_state[t] # -1 => states'[need_state[t]] = run'[t + 1]
  <2>1. /\ i \in 0 .. Steps /\ i + 1 \in 0 .. Steps /\ i + 2 \in 0 .. Steps /\ i + 3 \in 0 .. Steps
        /\ \A t \in 0 .. i - 1 : t \in 0 .. Steps
    BY <1>2, Numbers
  <2>2. need_state[i + 3] = -1
    <3>1. (i + 3) % 4 = 3
      BY <1>2
    <3> QED
      BY <2>1, <3>1, NeedsNoThird
  <2>3. i > 0 => need_state[i - 1] = -1
    <3> SUFFICES ASSUME i > 0 PROVE need_state[i - 1] = -1
      OBVIOUS
    <3>1. i - 1 \in 0 .. Steps /\ (i - 1) % 4 = 3
      BY <1>2, <2>1
    <3> QED
      BY <3>1, NeedsNoThird
  <2> DEFINE at0 == Saved(states, s0, i)
             at1 == Saved(at0, s1, i + 1)
             at2 == Saved(at1, s2, i + 2)
  <2>4. SavedBack(states) = at0
    BY <1>5, <2>3 DEF SavedBack, Saved
  <2>5. Forth(1) = s1 /\ Forth(2) = s2
    <3>1. Wn1_p2'[1] = Wrp0_p3[1] /\ Wn1_p2'[2] = Wrp0_p3[2]
      BY <1>1 DEF Assigned
    <3>2. Wn1_p2'[1] = W'[i] /\ Wn1_p2'[2] = W'[i + 1]
      BY <1>3, <3>1
    <3> QED
      BY <1>5, <3>2 DEF Forth
  <2>6. states' = at2
    BY <1>1, <2>4, <2>5 DEF SavedForth
  <2>7. /\ at0 \in [Slots -> State \cup {Unwritten}]
        /\ need_state[i] # -1 => at0[need_state[i]] = s0
        /\ \A u \in 0 .. Steps : u # i /\ need_state[u] # -1 => at0[need_state[u]] = states[need_state[u]]
    BY <1>5, <2>1, SavingOne DEF TypeOK
  <2> HIDE DEF at0
  <2>8. /\ at1 \in [Slots -> State \cup {Unwritten}]
        /\ need_state[i + 1] # -1 => at1[need_state[i + 1]] = s1
        /\ \A u \in 0 .. Steps : u # i + 1 /\ need_state[u] # -1 => at1[need_state[u]] = at0[need_state[u]]
    BY <1>6, <2>1, <2>7, SavingOne
  <2> HIDE DEF at1
  <2>9. /\ at2 \in [Slots -> State \cup {Unwritten}]
        /\ need_state[i + 2] # -1 => at2[need_state[i + 2]] = s2
        /\ \A u \in 0 .. Steps : u # i + 2 /\ need_state[u] # -1 => at2[need_state[u]] = at1[need_state[u]]
    BY <1>6, <2>1, <2>8, SavingOne
  <2> HIDE DEF at2, s1, s2, s3, s4
  <2>10. ASSUME NEW t \in 0 .. i + 3, need_state[t] # -1
         PROVE  states'[need_state[t]] = run'[t + 1]
    <3>1. t \in 0 .. i - 1 \/ t = i \/ t = i + 1 \/ t = i + 2
      BY <1>2, <2>2, <2>10
    <3>2. t \in 0 .. Steps
      BY <2>1, <3>1
    <3>3. CASE t \in 0 .. i - 1
      <4>1. t # i /\ t # i + 1 /\ t # i + 2 /\ t \in 0 .. i
        BY <1>2, <3>3
      <4>2. at2[need_state[t]] = states[need_state[t]]
        BY <2>7, <2>8, <2>9, <2>10, <3>2, <4>1
      <4>3. states[need_state[t]] = run[t + 1]
        BY <1>1, <2>10, <3>3 DEF SavedInv, SavedUpTo
      <4> QED
        BY <1>6, <2>6, <4>1, <4>2, <4>3
    <3>4. CASE t = i
      <4>1. t # i + 1 /\ t # i + 2 /\ t \in 0 .. i
        BY <1>2, <3>4
      <4>2. at2[need_state[t]] = s0
        BY <2>7, <2>8, <2>9, <2>10, <3>2, <3>4, <4>1
      <4>3. run'[t + 1] = s0
        BY <1>6, <3>4, <4>1
      <4> QED
        BY <2>6, <4>2, <4>3
    <3>5. CASE t = i + 1
      <4>1. t # i + 2 /\ t + 1 = i + 2
        BY <1>2, <3>5
      <4> QED
        BY <1>6, <2>6, <2>8, <2>9, <2>10, <3>2, <3>5, <4>1
    <3>6. CASE t = i + 2
      <4>1. t + 1 = i + 3
        BY <1>2, <3>6
      <4> QED
        BY <1>6, <2>6, <2>9, <2>10, <3>6, <4>1
    <3> QED
      BY <3>1, <3>3, <3>4, <3>5, <3>6
  <2> QED
    BY <2>6, <2>9, <2>10
<1>15. SavedInv'
  <2>1. i' - 1 = i + 3
    BY <1>1, <1>2
  <2> QED
    BY <1>1, <1>14, <2>1 DEF SavedInv, SavedUpTo
<1>16. TypeOK'
  <2>1. Wrn16_n1' \in [0 .. 3 -> Vector]
    <3>1. CASE i \in Loaded
      BY <3>1 DEF x86v2sha_steps, TypeOK
    <3>2. CASE i \notin Loaded
      <4>1. Wrn16_n1' = [l \in 0 .. 3 |-> IF l = 3 THEN Wrp0_p3 ELSE Wrn16_n1[l + 1]]
        BY <3>2 DEF x86v2sha_steps
      <4>2. \A l \in 0 .. 3 : l # 3 => l + 1 \in 0 .. 3
        OBVIOUS
      <4> QED
        BY <1>3, <4>1, <4>2 DEF TypeOK
    <3> QED
      BY <3>1, <3>2
  <2>2. Wn1_p2' \in [0 .. 3 -> Word]
    <3>1. Wn1_p2' = [j \in 0 .. 3 |-> IF j = 0 THEN Wn1_p2[0] ELSE Wrp0_p3[j]]
      BY <1>1 DEF Assigned
    <3>2. ASSUME NEW j \in 0 .. 3
          PROVE  (IF j = 0 THEN Wn1_p2[0] ELSE Wrp0_p3[j]) \in Word
      <4>1. j = 0 \/ j = 1 \/ j = 2 \/ j = 3
        OBVIOUS
      <4> QED
        BY <1>3, <4>1 DEF TypeOK, Vector
    <3> QED
      BY <3>1, <3>2
  <2>3. cur_abcd' \in Vector /\ old_abcd' \in Vector
    <3> HIDE DEF s4
    <3>1. s4.A \in Word /\ s4.B \in Word /\ s4.C \in Word /\ s4.D \in Word
      BY <1>8 DEF State
    <3> QED
      BY <1>1, <1>8, <3>1 DEF Vector, TypeOK
  <2>4. i' \in 0 .. Steps
    BY <1>1, <1>2
  <2> HIDE DEF s0, s1, s2, s3, s4
  <2> QED
    BY <1>1, <1>3, <1>6, <1>14, <2>1, <2>2, <2>3, <2>4 DEF TypeOK
<1> QED
  BY <1>7, <1>11, <1>12, <1>13, <1>15, <1>16

LEMMA GroupEndKeepsInv ==
  ASSUME IInv, x86v2sha_end PROVE IInv'
<1> USE DEF IInv
<1>1. /\ pc = "x86v2sha" /\ i >= Steps /\ states' = SavedBack(states)
      /\ cv' = FeedForward(cv, Current) /\ pc' = "done"
      /\ UNCHANGED <<m, W, i, state, saved, Wrn16_n1, cur_abcd, old_abcd, Wn1_p2, run>>
  BY DEF x86v2sha_end
<1>2. i = Steps /\ i \in 0 .. Steps /\ i > 0 /\ i - 1 \in 0 .. Steps /\ (i - 1) % 4 = 3
  <2>1. i = Steps /\ Steps \in Nat /\ Steps >= 16 /\ Steps % 4 = 0
    BY <1>1, Numbers DEF TypeOK
  <2>2. (Steps - 1) % 4 = 3
    BY <2>1
  <2> QED
    BY <2>1, <2>2
<1>3. RunInv'
  BY <1>1, RunStands
<1>4. Current = run[i + 1] /\ run[i + 1] \in State /\ cv = run[1]
  BY <1>1, <1>2 DEF TypeOK, RunInv, GroupInv, StateInv
<1>5. cv' \in State
  BY <1>1, <1>4, FeedForwardIsState DEF TypeOK
<1>6. states' = Saved(states, run[i + 1], i)
  <2>1. need_state[i - 1] = -1
    BY <1>2, NeedsNoThird
  <2> QED
    BY <1>1, <1>4, <2>1 DEF SavedBack, Saved
<1>7. /\ states' \in [Slots -> State \cup {Unwritten}]
      /\ need_state[i] # -1 => states'[need_state[i]] = run[i + 1]
      /\ \A u \in 0 .. Steps : u # i /\ need_state[u] # -1 =>
           states'[need_state[u]] = states[need_state[u]]
  <2>1. states \in [Slots -> State \cup {Unwritten}]
    BY DEF TypeOK
  <2>2. /\ Saved(states, run[i + 1], i) \in [Slots -> State \cup {Unwritten}]
        /\ need_state[i] # -1 => Saved(states, run[i + 1], i)[need_state[i]] = run[i + 1]
        /\ \A u \in 0 .. Steps : u # i /\ need_state[u] # -1 =>
             Saved(states, run[i + 1], i)[need_state[u]] = states[need_state[u]]
    BY <1>2, <1>4, <2>1, SavingOne
  <2> QED
    BY <1>6, <2>2
<1>8. ASSUME NEW t \in 0 .. Steps, need_state[t] # -1 PROVE states'[need_state[t]] = run[t + 1]
  <2>1. CASE t = i
    BY <1>7, <1>8, <2>1
  <2>2. CASE t \in 0 .. i - 1
    <3>1. states[need_state[t]] = run[t + 1]
      BY <1>1, <1>8, <2>2 DEF SavedInv, SavedUpTo
    <3>2. t # i
      BY <1>2, <2>2
    <3> QED
      BY <1>7, <1>8, <3>1, <3>2
  <2> QED
    BY <1>2, <2>1, <2>2
<1>9. SavedInv'
  BY <1>1, <1>8 DEF SavedInv, SavedUpTo
<1>10. StateInv'
  BY <1>1, <1>2, <1>4 DEF StateInv
<1>11. GroupInv' /\ SlotInv'
  BY <1>1 DEF GroupInv, SlotInv
<1>12. TypeOK'
  BY <1>1, <1>5, <1>7 DEF TypeOK
<1> QED
  BY <1>3, <1>9, <1>10, <1>11, <1>12

-------------------------------------------------------------------------------
LEMMA NextKeepsInv == IInv /\ [Next]_vars => IInv'
<1> SUFFICES ASSUME IInv, [Next]_vars PROVE IInv'
  OBVIOUS
<1>1. CASE plain_step \/ plain_end
  BY <1>1, PlainKeepsInv
<1>2. CASE portable_step \/ portable_end
  BY <1>2, PortableKeepsInv
<1>3. CASE x86v2sha_steps
  BY <1>3, GroupKeepsInv
<1>4. CASE x86v2sha_end
  BY <1>4, GroupEndKeepsInv
<1>5. CASE UNCHANGED vars
  BY <1>5 DEF vars, x86, IInv, TypeOK, RunInv, WordOf, StateInv, GroupInv, WordsBefore, Current,
              SlotInv, SavedInv, SavedUpTo
<1> QED
  BY <1>1, <1>2, <1>3, <1>4, <1>5 DEF Next

LEMMA InvHolds == Spec => []IInv
<1>1. Init => IInv
  BY InitEstablishesInv
<1> QED
  BY <1>1, NextKeepsInv, PTL DEF Spec

-------------------------------------------------------------------------------
(***************************************************************************)
(* Every variable keeps its type, in all three versions: the sums wrap, a  *)
(* vector always holds four words, and no slot is written past the array.  *)
(***************************************************************************)
THEOREM AddBlockTypes == Spec => []TypeOK
<1>1. IInv => TypeOK
  BY DEF IInv
<1> QED
  BY <1>1, InvHolds, PTL

(***************************************************************************)
(* All versions of sha1_add_block_expanding_saving, and the reference,     *)
(* expand the block and add to the chaining value what SHA-1 says.         *)
(***************************************************************************)
THEOREM AddBlockComputesSha1 == Spec => []OutputIsSha1
<1>1. ASSUME IInv, pc \in {"done", "hashed"}
      PROVE  /\ \A t \in Loaded : W[t] = m[t]
             /\ IsExpansion(W)
             /\ cv = FeedForward(run[1], run[Steps + 1])
  <2>1. i = Steps /\ cv = FeedForward(run[1], run[Steps + 1])
    BY <1>1 DEF IInv, StateInv
  <2>2. \A t \in 0 .. Steps - 1 : W[t] = WordOf(t)
    BY <1>1, <2>1 DEF IInv, RunInv
  <2>3. /\ \A t \in Loaded : t \in 0 .. Steps - 1
        /\ \A t \in 16 .. Steps - 1 : t \in 0 .. Steps - 1 /\ t \notin Loaded
    BY Numbers DEF Loaded
  <2> QED
    BY <2>1, <2>2, <2>3 DEF WordOf, IsExpansion
<1>2. IInv => OutputIsSha1
  BY <1>1 DEF OutputIsSha1
<1> QED
  BY <1>2, InvHolds, PTL

(***************************************************************************)
(* And that is the function of the chaining value and the block that       *)
(* recompression computes backwards and forwards: the states that were     *)
(* stepped through, or worked out in groups of four, are the ones that its *)
(* recursion defines.                                                      *)
(***************************************************************************)
OutputIsCompression ==
  pc \in {"done", "hashed"} => W \in Expanded /\ cv = sha1_add_block(run[1], W)

THEOREM AddBlockIsCompression == Spec => []OutputIsCompression
<1>1. ASSUME IInv, pc \in {"done", "hashed"}
      PROVE  W \in Expanded /\ cv = sha1_add_block(run[1], W)
  <2>1. i = Steps /\ cv = FeedForward(run[1], run[Steps + 1])
    BY <1>1 DEF IInv, StateInv
  <2>2. \A t \in 0 .. Steps - 1 : W[t] \in Word /\ run[t + 2] = sha1_step(run[t + 1], W[t], t)
    BY <1>1, <2>1 DEF IInv, RunInv
  <2>3. W \in Expanded
    BY <1>1, <2>2 DEF Expanded, IInv, TypeOK
  <2>4. run[1] \in State
    BY <1>1, <2>1, Numbers DEF IInv, TypeOK, RunInv
  <2> DEFINE f == [t \in 0 .. Steps |-> run[t + 1]]
  <2>5. f[0] = run[1] /\ f[Steps] = run[Steps + 1]
    BY Numbers
  <2>6. ASSUME NEW t \in 0 .. Steps - 1 PROVE f[t + 1] = sha1_step(f[t], W[t], t)
    <3>1. t \in 0 .. Steps /\ t + 1 \in 0 .. Steps /\ (t + 1) + 1 = t + 2
      BY Numbers
    <3> QED
      BY <2>2, <3>1
  <2>7. Steps \in 0 .. Steps
    BY Numbers
  <2> HIDE DEF f
  <2>8. \A t \in 0 .. Steps : f[t] = StatesFrom(run[1], W)[t]
    BY <2>3, <2>4, <2>5, <2>6, <2>7, StatesFromAreUnique
  <2> QED
    BY <2>1, <2>3, <2>5, <2>7, <2>8 DEF sha1_add_block
<1>2. IInv => OutputIsCompression
  BY <1>1 DEF OutputIsCompression
<1> QED
  BY <1>2, InvHolds, PTL

(***************************************************************************)
(* Both saving versions leave every needed state in its slot, the one that *)
(* takes four steps at once those it only works out in between too.        *)
(***************************************************************************)
THEOREM AddBlockSavesStates == Spec => []NeededStatesAreSaved
<1>1. IInv => NeededStatesAreSaved
  BY DEF IInv, SavedInv, SavedUpTo, NeededStatesAreSaved
<1> QED
  BY <1>1, InvHolds, PTL

(***************************************************************************)
(* The portable version's unreachable() is not reached.                    *)
(***************************************************************************)
THEOREM AddBlockMeetsSlotsInTurn == Spec => []UnreachableIsNotReached
<1>1. IInv => UnreachableIsNotReached
  BY SlotsComeInTurn DEF IInv, UnreachableIsNotReached
<1> QED
  BY <1>1, InvHolds, PTL
===============================================================================
