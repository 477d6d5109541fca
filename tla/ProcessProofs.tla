----------------------------- MODULE ProcessProofs -----------------------------
(***************************************************************************)
(* Proofs about the block processor, for words of any width, any number of *)
(* steps, any round functions and any table of vectors.                    *)
(***************************************************************************)
EXTENDS SafeProcess, Sha1CoreProofs, SequenceTheorems

(* What is assumed of the operations on words. *)
USE DEF WordsAreClosed, RotationsUndo, XorIsLinear

-------------------------------------------------------------------------------
(* Lemmas. *)

(***************************************************************************)
(* The twin block is a block, and another one.                             *)
(***************************************************************************)
LEMMA TwinBlockIsAnother ==
  ASSUME block_W \in Expanded, NEW d \in DV
  PROVE  TwinBlock(d) \in Expanded /\ TwinBlock(d) # block_W
<1>1. message_mask[d] \in Expanded
  BY VectorAssumption
<1>2. \A w \in 0 .. Steps - 1 : block_W[w] \in Word /\ message_mask[d][w] \in Word
  BY <1>1 DEF Expanded
<1>3. \A w \in 0 .. Steps - 1 : Xor(block_W[w], message_mask[d][w]) \in Word
  BY <1>2, WordAssumption
<1>4. TwinBlock(d) \in Expanded
  BY <1>3 DEF TwinBlock, Expanded
<1>5. PICK w \in 0 .. Steps - 1 : \A x \in Word : Xor(x, message_mask[d][w]) # x
  BY VectorAssumption
<1>6. Xor(block_W[w], message_mask[d][w]) # block_W[w]
  BY <1>2, <1>5
<1>7. TwinBlock(d)[w] = Xor(block_W[w], message_mask[d][w])
  BY DEF TwinBlock
<1> QED BY <1>4, <1>6, <1>7

(***************************************************************************)
(* Adding a difference that is an expansion to an expansion gives an       *)
(* expansion: the expansion is linear.                                     *)
(***************************************************************************)
LEMMA XorOfSums ==
  ASSUME NEW a \in Word, NEW b \in Word, NEW p \in Word, NEW q \in Word
  PROVE  Xor(Xor(a, p), Xor(b, q)) = Xor(Xor(a, b), Xor(p, q))
<1>1. \A x, y \in Word : Xor(x, y) \in Word /\ Xor(x, y) = Xor(y, x)
  BY WordAssumption, XorAssumption
<1>2. \A x, y, z \in Word : Xor(Xor(x, y), z) = Xor(x, Xor(y, z))
  BY XorAssumption
<1>3. Xor(Xor(a, p), Xor(b, q)) = Xor(a, Xor(p, Xor(b, q)))
  BY <1>1, <1>2
<1>4. Xor(p, Xor(b, q)) = Xor(Xor(p, b), q) /\ Xor(p, b) = Xor(b, p)
  BY <1>1, <1>2
<1>5. Xor(Xor(b, p), q) = Xor(b, Xor(p, q))
  BY <1>2
<1>6. Xor(a, Xor(b, Xor(p, q))) = Xor(Xor(a, b), Xor(p, q))
  BY <1>1, <1>2
<1> QED BY <1>3, <1>4, <1>5, <1>6

LEMMA TwinBlockIsExpansion ==
  ASSUME block_W \in Expanded, IsExpansion(block_W), NEW d \in DV
  PROVE  IsExpansion(TwinBlock(d))
<1> DEFINE m == message_mask[d]
           T == TwinBlock(d)
<1>1. m \in Expanded /\ IsExpansion(m) /\ Steps \in Nat
  BY VectorAssumption, WordAssumption
<1>2. \A w \in 0 .. Steps - 1 :
        block_W[w] \in Word /\ m[w] \in Word /\ T[w] = Xor(block_W[w], m[w])
  BY <1>1 DEF Expanded, TwinBlock
<1> SUFFICES ASSUME NEW w \in 16 .. Steps - 1 PROVE T[w] = sha1_expand_one(T, w)
  BY DEF IsExpansion
<1> DEFINE a1 == block_W[w - 3]   b1 == m[w - 3]
           a2 == block_W[w - 8]   b2 == m[w - 8]
           a3 == block_W[w - 14]  b3 == m[w - 14]
           a4 == block_W[w - 16]  b4 == m[w - 16]
<1>3. /\ w \in 0 .. Steps - 1 /\ w - 3 \in 0 .. Steps - 1 /\ w - 8 \in 0 .. Steps - 1
      /\ w - 14 \in 0 .. Steps - 1 /\ w - 16 \in 0 .. Steps - 1
  BY <1>1
<1>4. /\ a1 \in Word /\ a2 \in Word /\ a3 \in Word /\ a4 \in Word
      /\ b1 \in Word /\ b2 \in Word /\ b3 \in Word /\ b4 \in Word
      /\ T[w - 3] = Xor(a1, b1) /\ T[w - 8] = Xor(a2, b2)
      /\ T[w - 14] = Xor(a3, b3) /\ T[w - 16] = Xor(a4, b4)
  <2> HIDE DEF T, m
  <2> QED BY <1>2, <1>3
<1>5. /\ T[w] = Xor(block_W[w], m[w])
      /\ block_W[w] = rotate_left(Xor(Xor(a1, a2), Xor(a3, a4)), 1)
      /\ m[w] = rotate_left(Xor(Xor(b1, b2), Xor(b3, b4)), 1)
  <2>1. T[w] = Xor(block_W[w], m[w])
    BY <1>2, <1>3
  <2>2. block_W[w] = sha1_expand_one(block_W, w)
    BY DEF IsExpansion
  <2>3. m[w] = sha1_expand_one(m, w)
    BY <1>1 DEF IsExpansion
  <2> QED BY <2>1, <2>2, <2>3 DEF sha1_expand_one
<1>6. sha1_expand_one(T, w) =
        rotate_left(Xor(Xor(Xor(a1, b1), Xor(a2, b2)), Xor(Xor(a3, b3), Xor(a4, b4))), 1)
  BY <1>4 DEF sha1_expand_one
<1> HIDE DEF a1, a2, a3, a4, b1, b2, b3, b4, T, m
<1>7. \A x, y \in Word : Xor(x, y) \in Word
  BY WordAssumption
<1>8. /\ Xor(Xor(a1, b1), Xor(a2, b2)) = Xor(Xor(a1, a2), Xor(b1, b2))
      /\ Xor(Xor(a3, b3), Xor(a4, b4)) = Xor(Xor(a3, a4), Xor(b3, b4))
  BY <1>4, XorOfSums
<1> DEFINE a == Xor(a1, a2)  b == Xor(b1, b2)  c == Xor(a3, a4)  e == Xor(b3, b4)
<1>9. a \in Word /\ b \in Word /\ c \in Word /\ e \in Word
  BY <1>4, <1>7
<1>10. sha1_expand_one(T, w) = rotate_left(Xor(Xor(a, b), Xor(c, e)), 1)
  BY <1>6, <1>8
<1>11. T[w] = Xor(rotate_left(Xor(a, c), 1), rotate_left(Xor(b, e), 1))
  BY <1>5
<1> HIDE DEF a, b, c, e
<1>12. Xor(Xor(a, b), Xor(c, e)) = Xor(Xor(a, c), Xor(b, e))
  BY <1>9, XorOfSums
<1>13. Xor(a, c) \in Word /\ Xor(b, e) \in Word
  BY <1>7, <1>9
<1>14. rotate_left(Xor(Xor(a, c), Xor(b, e)), 1) =
         Xor(rotate_left(Xor(a, c), 1), rotate_left(Xor(b, e), 1))
  BY <1>13, XorAssumption
<1> QED BY <1>10, <1>11, <1>12, <1>14

(***************************************************************************)
(* Saving a state leaves the slots of the others alone.                    *)
(***************************************************************************)
LEMMA SavedSlots ==
  ASSUME block_state \in [Slots -> State], NEW s \in State, NEW q \in 0 .. Steps
  PROVE  /\ Saved(s, q) \in [Slots -> State]
         /\ need_state[q] # -1 => Saved(s, q)[need_state[q]] = s
         /\ \A p \in 0 .. Steps : p # q /\ need_state[p] # -1 =>
              Saved(s, q)[need_state[p]] = block_state[need_state[p]]
<1>1. need_state \in [0 .. Steps -> {-1} \cup Slots]
  BY VectorAssumption
<1>2. \A p \in 0 .. Steps : need_state[p] # -1 => need_state[p] \in Slots
  BY <1>1
<1>3. \A p \in 0 .. Steps : p # q /\ need_state[p] # -1 => need_state[p] # need_state[q]
  BY VectorAssumption
<1> QED BY <1>2, <1>3 DEF Saved

(***************************************************************************)
(* One more step, at either end, of what has been stepped through.         *)
(***************************************************************************)
LEMMA SteppedForth ==
  ASSUME NEW r \in [0 .. Steps -> State], NEW W \in Expanded,
         NEW p \in Nat, NEW q \in 0 .. Steps - 1, p <= q,
         Stepped(r, W, p, q)
  PROVE  LET s == [r EXCEPT ![q + 1] = sha1_step(r[q], W[q], q)] IN
           /\ s \in [0 .. Steps -> State]
           /\ Stepped(s, W, p, q + 1)
           /\ \A k \in 0 .. Steps : k # q + 1 => s[k] = r[k]
<1> DEFINE x == sha1_step(r[q], W[q], q)
           s == [r EXCEPT ![q + 1] = x]
<1>1. Steps \in Nat
  BY WordAssumption
<1>2. x \in State
  <2>1. r[q] \in State /\ W[q] \in Word
    BY <1>1 DEF Expanded
  <2> QED BY <2>1, StepIsState
<1>3. s \in [0 .. Steps -> State] /\ \A k \in 0 .. Steps : k # q + 1 => s[k] = r[k]
  BY <1>2
<1>4. s[q + 1] = x /\ s[q] = r[q]
  BY <1>1
<1>5. ASSUME NEW k \in p .. q PROVE s[k + 1] = sha1_step(s[k], W[k], k)
  <2>1. CASE k = q
    BY <1>4, <2>1
  <2>2. CASE k # q
    <3>1. k \in p .. q - 1 /\ k + 1 # q + 1 /\ k # q + 1 /\ k \in 0 .. Steps /\ k + 1 \in 0 .. Steps
      BY <1>1, <2>2
    <3>2. s[k + 1] = r[k + 1] /\ s[k] = r[k]
      BY <1>3, <3>1
    <3> QED BY <3>1, <3>2 DEF Stepped
  <2> QED BY <2>1, <2>2
<1>6. Stepped(s, W, p, q + 1)
  BY <1>5 DEF Stepped
<1> QED BY <1>3, <1>6

LEMMA SteppedBack ==
  ASSUME NEW r \in [0 .. Steps -> State], NEW W \in Expanded,
         NEW q \in 0 .. Steps, NEW p \in 1 .. q,
         Stepped(r, W, p, q)
  PROVE  LET s == [r EXCEPT ![p - 1] = sha1_step_bw(r[p], W[p - 1], p - 1)] IN
           /\ s \in [0 .. Steps -> State]
           /\ Stepped(s, W, p - 1, q)
           /\ \A k \in 0 .. Steps : k # p - 1 => s[k] = r[k]
<1> DEFINE x == sha1_step_bw(r[p], W[p - 1], p - 1)
           s == [r EXCEPT ![p - 1] = x]
<1>1. Steps \in Nat
  BY WordAssumption
<1>2. r[p] \in State /\ W[p - 1] \in Word /\ p - 1 \in 0 .. Steps - 1
  BY <1>1 DEF Expanded
<1>3. x \in State
  BY <1>2, StepBackIsState
<1>4. s \in [0 .. Steps -> State] /\ \A k \in 0 .. Steps : k # p - 1 => s[k] = r[k]
  BY <1>3
<1>5. s[p - 1] = x /\ s[p] = r[p]
  BY <1>1, <1>2
<1>6. sha1_step(x, W[p - 1], p - 1) = r[p]
  BY <1>2, StepUndoesStepBack
<1>7. ASSUME NEW k \in p - 1 .. q - 1 PROVE s[k + 1] = sha1_step(s[k], W[k], k)
  <2>1. CASE k = p - 1
    <3>1. k + 1 = p BY <2>1
    <3> QED BY <1>5, <1>6, <2>1, <3>1
  <2>2. CASE k # p - 1
    <3>1. k \in p .. q - 1 /\ k + 1 # p - 1 /\ k \in 0 .. Steps /\ k + 1 \in 0 .. Steps
      BY <1>1, <2>2
    <3>2. s[k + 1] = r[k + 1] /\ s[k] = r[k]
      BY <1>4, <2>2, <3>1
    <3> QED BY <3>1, <3>2 DEF Stepped
  <2> QED BY <2>1, <2>2
<1>8. Stepped(s, W, p - 1, q)
  BY <1>7 DEF Stepped
<1> QED BY <1>4, <1>8

-------------------------------------------------------------------------------
(* The inductive invariant. *)

LEMMA InitInv == Init => SearchInv
<1> SUFFICES ASSUME Init PROVE SearchInv
  OBVIOUS
<1>1. cv \in State /\ Steps \in Nat \ {0} /\ WordMod \in Nat \ {0}
  BY ClientAssumption, WordAssumption DEF Init
<1>2. block_W \in Expanded
  BY <1>1 DEF Init, Expanded, Word
<1>4. /\ do_safe_hash \in BOOLEAN /\ detect_coll \in BOOLEAN
      /\ ubc_check \in BOOLEAN /\ reduced_round_coll \in BOOLEAN
      /\ collision \in BOOLEAN
  BY ClientAssumption DEF Init
<1>5. /\ reports = <<>> /\ Len(reports) = 0 /\ reports \in Seq(Report)
      /\ calls \in Seq(Call) /\ given \in Seq(Blocks)
  BY DEF Init
<1>6. TypeOK
  <2>1. NDV \in Nat /\ 0 \in 0 .. NDV /\ 0 \in 0 .. Steps
    BY <1>1, VectorAssumption
  <2>2. /\ block_in \in State /\ state \in State /\ twin_in \in State
        /\ twin_out \in State /\ twin_W \in Expanded
        /\ block_state \in [Slots -> State]
        /\ run \in [0 .. Steps -> State] /\ twin \in [0 .. Steps -> State]
    BY <1>1, <1>2 DEF Init
  <2>3. /\ pc = "idle" /\ t = 0 /\ again = 0 /\ dvs = {} /\ i = 0
        /\ found_collision = FALSE
    BY DEF Init
  <2>4. found_collision \in BOOLEAN /\ (pc # "idle" => block_W \in Blocks)
    BY <2>3
  <2>5. /\ pc \in {"idle", "compress", "search", "back", "forth", "compare", "handler", "rehash"}
        /\ t \in 0 .. Steps /\ again \in 0 .. 2 /\ (pc = "rehash" => again # 0)
        /\ dvs \subseteq DV /\ i \in 0 .. NDV
    BY <2>1, <2>3
  <2> QED BY <1>1, <1>2, <1>4, <1>5, <2>2, <2>4, <2>5, Zenon DEF TypeOK
<1>7. ReportsAreCollisions
  BY <1>5 DEF ReportsAreCollisions
<1> QED BY <1>6, <1>7 DEF Init, SearchInv, SavedStatesAreThisBlocks, RecompressionIsCompression

(***************************************************************************)
(* What is reported stays a collision while nothing is added.              *)
(***************************************************************************)
LEMMA ReportsUnchanged ==
  ASSUME ReportsAreCollisions, UNCHANGED reports
  PROVE  ReportsAreCollisions'
BY DEF ReportsAreCollisions

LEMMA ProcessKeepsInv ==
  ASSUME SearchInv, NEW b \in Blocks, process(b) PROVE SearchInv'
<1>1. b \in Expanded /\ Steps \in Nat \ {0}
  BY ClientAssumption, WordAssumption
<1>2. TypeOK'
  BY <1>1 DEF SearchInv, TypeOK, process, found, settings, twins, search
<1>3. SavedStatesAreThisBlocks'
  BY <1>1 DEF SearchInv, TypeOK, process, SavedStatesAreThisBlocks, Stepped
<1>4. RecompressionIsCompression'
  BY DEF process, RecompressionIsCompression
<1>5. ReportsAreCollisions'
  BY ReportsUnchanged DEF SearchInv, process, found, settings
<1> QED BY <1>2, <1>3, <1>4, <1>5 DEF SearchInv

LEMMA CompressStepKeepsInv ==
  ASSUME SearchInv, compress_step PROVE SearchInv'
<1> USE DEF SearchInv
<1>1. /\ Steps \in Nat \ {0} /\ t \in 0 .. Steps - 1 /\ t + 1 \in 0 .. Steps
      /\ run \in [0 .. Steps -> State] /\ block_W \in Expanded
      /\ state \in State /\ block_state \in [Slots -> State]
  BY WordAssumption DEF TypeOK, compress_step
<1>2. /\ cv = block_in /\ run[0] = block_in /\ state = run[t]
      /\ Stepped(run, block_W, 0, t)
      /\ \A q \in 0 .. t - 1 :
            need_state[q] # -1 => block_state[need_state[q]] = run[q]
  BY DEF SavedStatesAreThisBlocks, compress_step
<1>3. run' = [run EXCEPT ![t + 1] = sha1_step(run[t], block_W[t], t)]
  BY <1>2 DEF compress_step
<1>4. /\ run' \in [0 .. Steps -> State] /\ Stepped(run', block_W, 0, t + 1)
      /\ \A k \in 0 .. Steps : k # t + 1 => run'[k] = run[k]
  <2>1. 0 \in Nat /\ 0 <= t
    BY <1>1
  <2> QED BY <1>1, <1>2, <1>3, <2>1, SteppedForth
<1>5. state' = run'[t + 1] /\ state' \in State
  BY <1>1, <1>2, <1>3, <1>4 DEF compress_step
<1>6. /\ block_state' = Saved(state, t) /\ block_state' \in [Slots -> State]
      /\ need_state[t] # -1 => block_state'[need_state[t]] = state
      /\ \A p \in 0 .. Steps : p # t /\ need_state[p] # -1 =>
           block_state'[need_state[p]] = block_state[need_state[p]]
  <2>1. block_state' = Saved(state, t) /\ t \in 0 .. Steps
    BY <1>1 DEF compress_step
  <2>2. block_state \in [Slots -> State] /\ state \in State
    BY <1>1
  <2>3. /\ Saved(state, t) \in [Slots -> State]
        /\ need_state[t] # -1 => Saved(state, t)[need_state[t]] = state
        /\ \A p \in 0 .. Steps : p # t /\ need_state[p] # -1 =>
             Saved(state, t)[need_state[p]] = block_state[need_state[p]]
    BY <2>1, <2>2, SavedSlots
  <2> QED BY <2>1, <2>3
<1>7. TypeOK'
  BY <1>1, <1>4, <1>5, <1>6 DEF TypeOK, compress_step, found, settings, twins, search
<1>8. ASSUME NEW q \in 0 .. (t + 1) - 1, need_state[q] # -1
      PROVE  block_state'[need_state[q]] = run'[q]
  <2>1. q \in 0 .. Steps /\ q # t + 1 /\ (q # t => q \in 0 .. t - 1)
    BY <1>1
  <2> QED BY <1>2, <1>4, <1>6, <1>8, <2>1
<1>9. SavedStatesAreThisBlocks'
  BY <1>1, <1>2, <1>4, <1>5, <1>8 DEF SavedStatesAreThisBlocks, compress_step
<1>10. RecompressionIsCompression'
  BY DEF compress_step, RecompressionIsCompression
<1>11. ReportsAreCollisions'
  BY ReportsUnchanged DEF compress_step, found, settings
<1> QED BY <1>7, <1>9, <1>10, <1>11

LEMMA CompressEndKeepsInv ==
  ASSUME SearchInv, compress_end PROVE SearchInv'
<1> USE DEF SearchInv
<1>1. /\ Steps \in Nat \ {0} /\ t = Steps
      /\ run \in [0 .. Steps -> State] /\ block_W \in Expanded /\ block_W \in Blocks
      /\ state \in State /\ block_state \in [Slots -> State] /\ cv \in State
  BY WordAssumption DEF TypeOK, compress_end
<1>2. /\ cv = block_in /\ run[0] = block_in /\ state = run[t]
      /\ Stepped(run, block_W, 0, t)
      /\ \A q \in 0 .. t - 1 :
            need_state[q] # -1 => block_state[need_state[q]] = run[q]
  BY DEF SavedStatesAreThisBlocks, compress_end
<1>3. Candidates \subseteq DV
  BY <1>1, ClientAssumption DEF Candidates
<1>4. cv' = FeedForward(block_in, run[Steps]) /\ cv' \in State
  BY <1>1, <1>2, FeedForwardIsState DEF compress_end
<1>5. /\ block_state' = Saved(state, t) /\ block_state' \in [Slots -> State]
      /\ need_state[t] # -1 => block_state'[need_state[t]] = state
      /\ \A p \in 0 .. Steps : p # t /\ need_state[p] # -1 =>
           block_state'[need_state[p]] = block_state[need_state[p]]
  BY <1>1, SavedSlots DEF compress_end
<1>6. run \in Runs(block_W)
  BY <1>1, <1>2 DEF Runs
<1>7. ASSUME NEW q \in 0 .. Steps, need_state[q] # -1
      PROVE  block_state'[need_state[q]] = run[q]
  <2>1. q # t => q \in 0 .. t - 1
    BY <1>1
  <2> QED BY <1>1, <1>2, <1>5, <1>7, <2>1
<1>8. dvs' \subseteq DV /\ i' \in 0 .. NDV /\ pc' \in {"search", "idle"}
  BY <1>3, VectorAssumption DEF compress_end, search, TypeOK
<1>9. TypeOK'
  BY <1>1, <1>4, <1>5, <1>8 DEF TypeOK, compress_end, found, settings, twins, steps
<1>10. SavedStatesAreThisBlocks'
  BY <1>2, <1>4, <1>6, <1>7, <1>8 DEF SavedStatesAreThisBlocks, compress_end
<1>11. RecompressionIsCompression'
  BY <1>8 DEF RecompressionIsCompression
<1>12. ReportsAreCollisions'
  BY ReportsUnchanged DEF compress_end, found, settings
<1> QED BY <1>9, <1>10, <1>11, <1>12

LEMMA SearchSkipKeepsInv ==
  ASSUME SearchInv, search_skip \/ search_end PROVE SearchInv'
<1> USE DEF SearchInv
<1>1. i' \in 0 .. NDV /\ pc' \in {"search", "idle"}
  BY VectorAssumption DEF TypeOK, search_skip, search_end, search, NextVector
<1>2. UNCHANGED <<cv, found, settings, block, twins, steps, dvs>> /\ pc = "search"
  BY DEF search_skip, search_end, search
<1>3. TypeOK'
  BY <1>1, <1>2 DEF TypeOK, found, settings, block, twins, steps
<1>4. SavedStatesAreThisBlocks'
  BY <1>1, <1>2 DEF SavedStatesAreThisBlocks, block, steps, Runs, Stepped
<1>5. RecompressionIsCompression'
  BY <1>1 DEF RecompressionIsCompression
<1>6. ReportsAreCollisions'
  BY <1>2, ReportsUnchanged DEF found, settings
<1> QED BY <1>3, <1>4, <1>5, <1>6

LEMMA RecompressKeepsInv ==
  ASSUME SearchInv, recompress PROVE SearchInv'
<1> USE DEF SearchInv
<1>1. /\ Steps \in Nat \ {0} /\ i \in DV /\ quiet_step \in 0 .. Steps
      /\ need_state[quiet_step] # -1
      /\ run \in [0 .. Steps -> State] /\ block_W \in Expanded
  BY WordAssumption, VectorAssumption DEF TypeOK, recompress, quiet_step, DV
<1>2. Quiet = run[quiet_step] /\ Quiet \in State
  BY <1>1 DEF SavedStatesAreThisBlocks, recompress, Quiet
<1>3. TwinBlock(i) \in Expanded
  BY <1>1, TwinBlockIsAnother
<1>4. /\ twin' \in [0 .. Steps -> State] /\ twin'[quiet_step] = run[quiet_step]
      /\ twin_in' = run[quiet_step] /\ twin_out' = run[quiet_step]
      /\ twin_W' = TwinBlock(i)
      /\ t' = quiet_step /\ pc' = "back"
  BY <1>1, <1>2 DEF recompress, sha1_recompress_at
<1>5. UNCHANGED <<cv, found, settings, block, state, again, search>> /\ pc = "search"
  BY DEF recompress
<1>6. TypeOK'
  BY <1>1, <1>2, <1>3, <1>4, <1>5 DEF TypeOK, found, settings, block, search
<1>7. SavedStatesAreThisBlocks'
  BY <1>4, <1>5 DEF SavedStatesAreThisBlocks, block, Runs, Stepped
<1>8. UNCHANGED quiet_step /\ TwinBlock(i)' = TwinBlock(i)
  BY <1>5 DEF quiet_step, search, TwinBlock, block
<1>9. Stepped(twin', twin_W', quiet_step, quiet_step)
  BY <1>1 DEF Stepped
<1>10. RecompressionIsCompression'
  BY <1>1, <1>4, <1>5, <1>8, <1>9 DEF RecompressionIsCompression, block, search
<1>11. ReportsAreCollisions'
  BY <1>5, ReportsUnchanged DEF found, settings
<1> QED BY <1>6, <1>7, <1>10, <1>11

LEMMA BackStepKeepsInv ==
  ASSUME SearchInv, back_step PROVE SearchInv'
<1> USE DEF SearchInv
<1>1. /\ i \in DV /\ twin_W = TwinBlock(i) /\ twin[quiet_step] = run[quiet_step]
      /\ t <= quiet_step /\ Stepped(twin, twin_W, t, quiet_step)
      /\ twin_in = twin[t] /\ twin_out = run[quiet_step]
  BY DEF RecompressionIsCompression, back_step
<1>2. /\ Steps \in Nat \ {0} /\ quiet_step \in 0 .. Steps /\ t \in 1 .. quiet_step
      /\ t - 1 \in 0 .. Steps /\ t - 1 <= quiet_step /\ quiet_step # t - 1
      /\ twin \in [0 .. Steps -> State] /\ twin_W \in Expanded
  BY <1>1, WordAssumption, VectorAssumption DEF TypeOK, back_step, quiet_step
<1>3. twin' = [twin EXCEPT ![t - 1] = sha1_step_bw(twin[t], twin_W[t - 1], t - 1)]
  BY <1>1 DEF back_step
<1>4. /\ twin' \in [0 .. Steps -> State] /\ Stepped(twin', twin_W, t - 1, quiet_step)
      /\ \A k \in 0 .. Steps : k # t - 1 => twin'[k] = twin[k]
  BY <1>1, <1>2, <1>3, SteppedBack
<1>5. twin_in' = twin'[t - 1] /\ twin_in' \in State
  BY <1>2, <1>4 DEF back_step
<1>6. /\ UNCHANGED <<cv, found, settings, block, twin_out, twin_W, pc, state, again, search>>
      /\ t' = t - 1 /\ pc = "back"
  BY DEF back_step
<1>7. TypeOK'
  BY <1>2, <1>4, <1>5, <1>6 DEF TypeOK, found, settings, block, search
<1>8. SavedStatesAreThisBlocks'
  BY <1>6 DEF SavedStatesAreThisBlocks, block, Runs, Stepped
<1>9. UNCHANGED quiet_step /\ TwinBlock(i)' = TwinBlock(i) /\ run' = run
  BY <1>6 DEF quiet_step, search, TwinBlock, block
<1>10. twin'[quiet_step] = run[quiet_step]
  BY <1>1, <1>2, <1>4
<1>11. RecompressionIsCompression'
  BY <1>1, <1>2, <1>4, <1>5, <1>6, <1>9, <1>10 DEF RecompressionIsCompression, search
<1>12. ReportsAreCollisions'
  BY <1>6, ReportsUnchanged DEF found, settings
<1> QED BY <1>7, <1>8, <1>11, <1>12

LEMMA BackEndKeepsInv ==
  ASSUME SearchInv, back_end PROVE SearchInv'
<1> USE DEF SearchInv
<1>1. /\ i \in DV /\ twin_W = TwinBlock(i) /\ twin[quiet_step] = run[quiet_step]
      /\ Stepped(twin, twin_W, 0, quiet_step)
      /\ twin_in = twin[0] /\ twin_out = run[quiet_step]
  BY DEF RecompressionIsCompression, back_end
<1>2. quiet_step \in 0 .. Steps /\ Steps \in Nat \ {0}
  BY <1>1, WordAssumption, VectorAssumption DEF quiet_step
<1>3. /\ UNCHANGED <<cv, found, settings, block, twins, state, again, search>>
      /\ t' = quiet_step /\ pc = "back" /\ pc' = "forth"
  BY DEF back_end
<1>4. TypeOK'
  BY <1>2, <1>3 DEF TypeOK, found, settings, block, twins, search
<1>5. SavedStatesAreThisBlocks'
  BY <1>3 DEF SavedStatesAreThisBlocks, block, Runs, Stepped
<1>6. UNCHANGED quiet_step /\ TwinBlock(i)' = TwinBlock(i) /\ run' = run
  BY <1>3 DEF quiet_step, search, TwinBlock, block
<1>7. RecompressionIsCompression'
  BY <1>1, <1>2, <1>3, <1>6 DEF RecompressionIsCompression, search, twins
<1>8. ReportsAreCollisions'
  BY <1>3, ReportsUnchanged DEF found, settings
<1> QED BY <1>4, <1>5, <1>7, <1>8

LEMMA ForthStepKeepsInv ==
  ASSUME SearchInv, forth_step PROVE SearchInv'
<1> USE DEF SearchInv
<1>1. /\ i \in DV /\ twin_W = TwinBlock(i) /\ twin[quiet_step] = run[quiet_step]
      /\ t >= quiet_step /\ Stepped(twin, twin_W, 0, t)
      /\ twin_in = twin[0] /\ twin_out = twin[t]
  BY DEF RecompressionIsCompression, forth_step
<1>2. /\ Steps \in Nat \ {0} /\ quiet_step \in 0 .. Steps /\ t \in 0 .. Steps - 1
      /\ t + 1 \in 0 .. Steps /\ t + 1 >= quiet_step /\ quiet_step # t + 1
      /\ 0 \in Nat /\ 0 <= t /\ 0 # t + 1 /\ 0 \in 0 .. Steps
      /\ twin \in [0 .. Steps -> State] /\ twin_W \in Expanded
  BY <1>1, WordAssumption, VectorAssumption DEF TypeOK, forth_step, quiet_step
<1>3. twin' = [twin EXCEPT ![t + 1] = sha1_step(twin[t], twin_W[t], t)]
  BY <1>1 DEF forth_step
<1>4. /\ twin' \in [0 .. Steps -> State] /\ Stepped(twin', twin_W, 0, t + 1)
      /\ \A k \in 0 .. Steps : k # t + 1 => twin'[k] = twin[k]
  BY <1>1, <1>2, <1>3, SteppedForth
<1>5. twin_out' = twin'[t + 1] /\ twin_out' \in State
  BY <1>2, <1>4 DEF forth_step
<1>6. /\ UNCHANGED <<cv, found, settings, block, twin_in, twin_W, pc, state, again, search>>
      /\ t' = t + 1 /\ pc = "forth"
  BY DEF forth_step
<1>7. TypeOK'
  BY <1>2, <1>4, <1>5, <1>6 DEF TypeOK, found, settings, block, search
<1>8. SavedStatesAreThisBlocks'
  BY <1>6 DEF SavedStatesAreThisBlocks, block, Runs, Stepped
<1>9. UNCHANGED quiet_step /\ TwinBlock(i)' = TwinBlock(i) /\ run' = run
  BY <1>6 DEF quiet_step, search, TwinBlock, block
<1>10. twin'[quiet_step] = run[quiet_step] /\ twin'[0] = twin[0]
  BY <1>1, <1>2, <1>4
<1>11. RecompressionIsCompression'
  BY <1>1, <1>2, <1>4, <1>5, <1>6, <1>9, <1>10 DEF RecompressionIsCompression, search
<1>12. ReportsAreCollisions'
  BY <1>6, ReportsUnchanged DEF found, settings
<1> QED BY <1>7, <1>8, <1>11, <1>12

LEMMA ForthEndKeepsInv ==
  ASSUME SearchInv, forth_end PROVE SearchInv'
<1> USE DEF SearchInv
<1>1. /\ i \in DV /\ twin_W = TwinBlock(i) /\ twin[quiet_step] = run[quiet_step]
      /\ Stepped(twin, twin_W, 0, t) /\ twin_in = twin[0] /\ twin_out = twin[t]
  BY DEF RecompressionIsCompression, forth_end
<1>2. /\ Steps \in Nat \ {0} /\ t = Steps /\ twin_in \in State /\ twin_out \in State
      /\ twin \in [0 .. Steps -> State]
  BY WordAssumption DEF TypeOK, forth_end
<1>3. /\ UNCHANGED <<cv, found, settings, block, twin_in, twin_W, twin, steps, search>>
      /\ pc = "forth" /\ pc' = "compare"
  BY DEF forth_end
<1>4. twin \in Runs(twin_W)
  BY <1>1, <1>2 DEF Runs
<1>5. twin_out' \in State
  BY <1>2, FeedForwardIsState DEF forth_end
<1>6. twin_out' = FeedForward(twin_in, twin[Steps])
  BY <1>1, <1>2, AddCommutes DEF forth_end
<1>7. TypeOK'
  BY <1>3, <1>5 DEF TypeOK, found, settings, block, steps, search
<1>8. SavedStatesAreThisBlocks'
  BY <1>3 DEF SavedStatesAreThisBlocks, block, steps, Runs, Stepped
<1>9. UNCHANGED quiet_step /\ TwinBlock(i)' = TwinBlock(i) /\ run' = run
  BY <1>3 DEF quiet_step, search, TwinBlock, block
<1>10. RecompressionIsCompression'
  BY <1>1, <1>3, <1>4, <1>6, <1>9 DEF RecompressionIsCompression, search, Runs
<1>11. ReportsAreCollisions'
  BY <1>3, ReportsUnchanged DEF found, settings
<1> QED BY <1>7, <1>8, <1>10, <1>11

(***************************************************************************)
(* Having found a twin, the block is hashed again or process returns.      *)
(***************************************************************************)
LEMMA FinishTypes ==
  ASSUME TypeOK, pc # "rehash", Finish
  PROVE  /\ pc' \in {"rehash", "idle"} /\ state' \in State /\ t' \in 0 .. Steps
         /\ again' \in 0 .. 2 /\ (pc' = "rehash" => again' # 0)
BY WordAssumption DEF TypeOK, Finish, steps

LEMMA CompareHitKeepsInv ==
  ASSUME SearchInv, compare_hit PROVE SearchInv'
<1> USE DEF SearchInv
<1> DEFINE r == [number |-> Len(given), vector |-> i,
                 reduced |-> reduced_round_coll,
                 block_in |-> block_in, block_W |-> block_W,
                 twin_in |-> twin_in, twin_W |-> twin_W,
                 run |-> run, twin |-> twin]
<1>1. /\ pc = "compare" /\ Hit /\ reports' = Append(reports, r)
      /\ UNCHANGED <<cv, settings, block, twins, search>>
      /\ found_collision' = TRUE
  BY DEF compare_hit
<1>2. /\ i \in DV /\ twin_W = TwinBlock(i)
      /\ twin_in = twin[0] /\ twin \in Runs(twin_W)
      /\ twin_out = FeedForward(twin_in, twin[Steps])
  BY <1>1 DEF RecompressionIsCompression
<1>3. /\ run[0] = block_in /\ run \in Runs(block_W)
      /\ cv = FeedForward(block_in, run[Steps])
  BY <1>1 DEF SavedStatesAreThisBlocks
<1>4. /\ block_in \in State /\ block_W \in Expanded /\ twin_in \in State
      /\ twin_W \in Expanded /\ Len(given) \in Nat /\ cv \in State
      /\ run \in [0 .. Steps -> State] /\ twin \in [0 .. Steps -> State]
      /\ reports \in Seq(Report) /\ block_W \in Blocks
      /\ reduced_round_coll \in BOOLEAN /\ collision \in BOOLEAN
  BY <1>1 DEF TypeOK
<1>5. r \in Report
  BY <1>2, <1>4 DEF Report
<1>6. twin_W # block_W /\ IsExpansion(twin_W)
  BY <1>2, <1>4, TwinBlockIsAnother, TwinBlockIsExpansion, ClientAssumption
<1>7. twin_out = cv \/ (reduced_round_coll /\ twin_in = block_in)
  BY <1>1 DEF Hit
<1>8. IsCollision(r)
  BY <1>2, <1>3, <1>6, <1>7 DEF IsCollision
<1>9. /\ pc' \in {"handler", "rehash", "idle"} /\ state' \in State
      /\ t' \in 0 .. Steps /\ again' \in 0 .. 2 /\ (pc' = "rehash" => again' # 0)
  <2>1. CASE collision
    BY <2>1 DEF TypeOK, compare_hit, steps
  <2>2. CASE ~collision
    BY <1>1, <2>2, FinishTypes DEF compare_hit
  <2> QED BY <2>1, <2>2
<1>10. /\ reports' \in Seq(Report) /\ Len(reports') = Len(reports) + 1
       /\ Len(reports) \in Nat
       /\ \A k \in 1 .. Len(reports) : reports'[k] = reports[k]
       /\ reports'[Len(reports) + 1] = r
  <2> HIDE DEF r
  <2> QED BY <1>1, <1>4, <1>5
<1>11. TypeOK'
  <2>1. calls' \in Seq(Call)
    <3>1. [number |-> Len(given), vector |-> i] \in Call
      BY <1>2, <1>4 DEF Call
    <3>2. calls' \in {calls, Append(calls, [number |-> Len(given), vector |-> i])}
      BY DEF compare_hit
    <3>3. calls \in Seq(Call)
      BY DEF TypeOK
    <3> QED BY <3>1, <3>2, <3>3
  <2> QED BY <1>1, <1>4, <1>9, <1>10, <2>1 DEF TypeOK, settings, block, twins, search
<1>12. SavedStatesAreThisBlocks'
  BY <1>1, <1>9 DEF SavedStatesAreThisBlocks, block, Runs, Stepped
<1>13. RecompressionIsCompression'
  BY <1>9 DEF RecompressionIsCompression
<1>14. ASSUME NEW k \in 1 .. Len(reports') PROVE IsCollision(reports'[k])
  <2>1. CASE k = Len(reports) + 1
    BY <1>8, <1>10, <2>1
  <2>2. CASE k \in 1 .. Len(reports)
    BY <1>10, <2>2 DEF ReportsAreCollisions
  <2> QED BY <1>10, <2>1, <2>2
<1>15. ReportsAreCollisions'
  BY <1>14 DEF ReportsAreCollisions
<1> QED BY <1>11, <1>12, <1>13, <1>15

LEMMA HandlerReturnKeepsInv ==
  ASSUME SearchInv, handler_returns PROVE SearchInv'
<1> USE DEF SearchInv
<1>1. pc = "handler" /\ UNCHANGED <<cv, found, settings, block, twins, search>>
  BY DEF handler_returns
<1>2. /\ pc' \in {"rehash", "idle"} /\ state' \in State /\ t' \in 0 .. Steps
      /\ again' \in 0 .. 2 /\ (pc' = "rehash" => again' # 0)
  BY <1>1, FinishTypes DEF handler_returns
<1>3. TypeOK'
  BY <1>1, <1>2 DEF TypeOK, found, settings, block, twins, search
<1>4. SavedStatesAreThisBlocks'
  BY <1>1, <1>2 DEF SavedStatesAreThisBlocks, block, Runs, Stepped
<1>5. RecompressionIsCompression'
  BY <1>2 DEF RecompressionIsCompression
<1>6. ReportsAreCollisions'
  BY <1>1, ReportsUnchanged DEF found
<1> QED BY <1>3, <1>4, <1>5, <1>6

LEMMA ConfigureKeepsInv ==
  ASSUME SearchInv, NEW s \in Settings, configure(s) PROVE SearchInv'
<1> USE DEF SearchInv
<1>1. /\ pc \in {"idle", "handler"}
      /\ UNCHANGED <<cv, found, block, twins, pc, steps, search>>
  BY DEF configure
<1>2. /\ s.safe \in BOOLEAN /\ s.detect \in BOOLEAN /\ s.ubc \in BOOLEAN
      /\ s.reduced \in BOOLEAN /\ s.collision \in BOOLEAN
  BY ClientAssumption
<1>3. /\ do_safe_hash' \in BOOLEAN /\ detect_coll' \in BOOLEAN
      /\ ubc_check' \in BOOLEAN /\ reduced_round_coll' \in BOOLEAN
      /\ collision' \in BOOLEAN
  BY <1>2 DEF configure
<1>4. TypeOK'
  BY <1>1, <1>3 DEF TypeOK, found, block, twins, steps, search
<1>5. SavedStatesAreThisBlocks'
  BY <1>1 DEF SavedStatesAreThisBlocks, block, steps, Runs, Stepped
<1>6. RecompressionIsCompression'
  BY <1>1 DEF RecompressionIsCompression
<1>7. ReportsAreCollisions'
  BY <1>1, ReportsUnchanged DEF found
<1> QED BY <1>4, <1>5, <1>6, <1>7

LEMMA CompareMissKeepsInv ==
  ASSUME SearchInv, compare_miss PROVE SearchInv'
<1> USE DEF SearchInv
<1>1. /\ UNCHANGED <<cv, found, settings, block, twins, steps, dvs>>
      /\ pc = "compare" /\ pc' = "search" /\ i' = i + 1
  BY DEF compare_miss, NextVector
<1>2. i' \in 0 .. NDV
  BY <1>1, VectorAssumption DEF RecompressionIsCompression, DV
<1>3. TypeOK'
  BY <1>1, <1>2 DEF TypeOK, found, settings, block, twins, steps
<1>4. SavedStatesAreThisBlocks'
  BY <1>1 DEF SavedStatesAreThisBlocks, block, steps, Runs, Stepped
<1>5. RecompressionIsCompression'
  BY <1>1 DEF RecompressionIsCompression
<1>6. ReportsAreCollisions'
  BY <1>1, ReportsUnchanged DEF found, settings
<1> QED BY <1>3, <1>4, <1>5, <1>6

LEMMA RehashKeepsInv ==
  ASSUME SearchInv, rehash_step \/ rehash_end PROVE SearchInv'
<1> USE DEF SearchInv
<1>1. /\ UNCHANGED <<found, settings, block, twins, search>>
      /\ pc = "rehash" /\ pc' \in {"rehash", "idle"}
  BY DEF rehash_step, rehash_end
<1>2. /\ Steps \in Nat \ {0} /\ t \in 0 .. Steps /\ again \in 1 .. 2
      /\ state \in State /\ cv \in State /\ block_W \in Expanded
  BY <1>1, WordAssumption DEF TypeOK
<1>3. CASE rehash_step
  <2>1. t \in 0 .. Steps - 1 /\ t' = t + 1 /\ cv' = cv /\ again' = again
        /\ state' = sha1_step(state, block_W[t], t)
    BY <1>2, <1>3 DEF rehash_step
  <2>2. block_W[t] \in Word
    BY <1>2, <2>1 DEF Expanded
  <2>3. state' \in State
    BY <1>2, <2>1, <2>2, StepIsState
  <2>4. t' \in 0 .. Steps
    BY <1>2, <2>1
  <2> QED BY <1>1, <1>2, <2>1, <2>3, <2>4 DEF TypeOK, found, settings, block, twins, search,
               SavedStatesAreThisBlocks, RecompressionIsCompression,
               ReportsAreCollisions, Runs, Stepped
<1>4. CASE rehash_end
  <2>1. cv' \in State
    BY <1>2, <1>4, FeedForwardIsState DEF rehash_end
  <2>2. again' \in 0 .. 1
    BY <1>2, <1>4 DEF rehash_end
  <2>3. /\ state' \in State /\ t' \in 0 .. Steps /\ again' \in 0 .. 2
        /\ (pc' = "rehash" => again' # 0)
    BY <1>2, <1>4, <2>1, <2>2 DEF rehash_end
  <2> QED BY <1>1, <2>1, <2>3 DEF TypeOK, found, settings, block, twins, search,
               SavedStatesAreThisBlocks, RecompressionIsCompression,
               ReportsAreCollisions, Runs, Stepped
<1> QED BY <1>3, <1>4

LEMMA StutterKeepsInv ==
  ASSUME SearchInv, UNCHANGED vars PROVE SearchInv'
BY DEF vars, SearchInv, TypeOK, found, settings, block, twins, steps, search,
       SavedStatesAreThisBlocks, RecompressionIsCompression, quiet_step, TwinBlock,
       ReportsAreCollisions, Runs, Stepped

(***************************************************************************)
(* The invariant of the block processor.                                   *)
(***************************************************************************)
THEOREM SearchInvariant == Spec => []SearchInv
<1>1. Init => SearchInv
  BY InitInv
<1>2. SearchInv /\ [Next]_vars => SearchInv'
  <2> SUFFICES ASSUME SearchInv, [Next]_vars PROVE SearchInv'
    OBVIOUS
  <2>1. ASSUME NEW b \in Blocks, process(b) PROVE SearchInv'
    BY <2>1, ProcessKeepsInv
  <2>2. CASE compress_step
    BY <2>2, CompressStepKeepsInv
  <2>3. CASE compress_end
    BY <2>3, CompressEndKeepsInv
  <2>4. CASE search_skip \/ search_end
    BY <2>4, SearchSkipKeepsInv
  <2>5. CASE recompress
    BY <2>5, RecompressKeepsInv
  <2>6. CASE back_step
    BY <2>6, BackStepKeepsInv
  <2>7. CASE back_end
    BY <2>7, BackEndKeepsInv
  <2>8. CASE forth_step
    BY <2>8, ForthStepKeepsInv
  <2>9. CASE forth_end
    BY <2>9, ForthEndKeepsInv
  <2>10. CASE compare_hit
    BY <2>10, CompareHitKeepsInv
  <2>11. CASE compare_miss
    BY <2>11, CompareMissKeepsInv
  <2>12. CASE rehash_step \/ rehash_end
    BY <2>12, RehashKeepsInv
  <2>13. CASE handler_returns
    BY <2>13, HandlerReturnKeepsInv
  <2>14. ASSUME NEW s \in Settings, configure(s) PROVE SearchInv'
    BY <2>14, ConfigureKeepsInv
  <2>15. CASE UNCHANGED vars
    BY <2>15, StutterKeepsInv
  <2> QED BY <2>1, <2>2, <2>3, <2>4, <2>5, <2>6, <2>7, <2>8, <2>9, <2>10, <2>11,
             <2>12, <2>13, <2>14, <2>15 DEF Next, Client, Library
<1> QED BY <1>1, <1>2, PTL DEF Spec

(***************************************************************************)
(* Type correctness.                                                       *)
(***************************************************************************)
THEOREM TypeCorrect == Spec => []TypeOK
BY SearchInvariant, PTL DEF SearchInv

(***************************************************************************)
(* The states that recompression starts from are this block's own.         *)
(***************************************************************************)
THEOREM SlotsAreCurrent == Spec => []SavedStatesAreThisBlocks
BY SearchInvariant, PTL DEF SearchInv

(***************************************************************************)
(* Recompressing the twin block backwards and forwards from the middle is  *)
(* compressing it from twin_in.                                            *)
(***************************************************************************)
THEOREM RecompressionIsRight == Spec => []RecompressionIsCompression
BY SearchInvariant, PTL DEF SearchInv

(***************************************************************************)
(* No false alarms: what is reported is a collision.                       *)
(***************************************************************************)
THEOREM NoFalseAlarm == Spec => []ReportsAreCollisions
BY SearchInvariant, PTL DEF SearchInv

-------------------------------------------------------------------------------
(***************************************************************************)
(* What SafeProcess defines forwards only is what process finds.           *)
(*                                                                         *)
(* The sixteen words of a block that has been expanded expand to it.       *)
(***************************************************************************)
LEMMA MessageExpands ==
  ASSUME NEW W \in Expanded, IsExpansion(W)
  PROVE  Expand(MessageOf(W)) = W
<1> DEFINE b == MessageOf(W)
           S == 0 .. Steps - 1
           body(f) == [w \in S |-> IF w < 16 THEN b[w + 1] ELSE sha1_expand_one(f, w)]
           g == CHOOSE f : f = body(f)
<1>0. Steps \in Nat
  BY WordAssumption
<1>1. \A w \in S : w < 16 => b[w + 1] = W[w]
  BY <1>0 DEF MessageOf
<1>2. W = body(W)
  <2>1. \A w \in S : W[w] = IF w < 16 THEN b[w + 1] ELSE sha1_expand_one(W, w)
    BY <1>0, <1>1 DEF IsExpansion
  <2>2. W = [w \in S |-> W[w]]
    BY DEF Expanded
  <2> HIDE DEF b
  <2> QED BY <2>1, <2>2
<1>3. g = body(g)
  <2> HIDE DEF body
  <2> QED BY <1>2
<1>4. Expand(b) = g
  BY DEF Expand
<1> HIDE DEF g, b
<1>5. \A w \in S : g[w] = IF w < 16 THEN b[w + 1] ELSE sha1_expand_one(g, w)
  BY <1>3
<1> DEFINE Wrong == {w \in S : g[w] # W[w]}
<1>6. Wrong = {}
  <2> SUFFICES ASSUME Wrong # {} PROVE FALSE
    OBVIOUS
  <2>1. Wrong \subseteq Nat
    BY <1>0
  <2> HIDE DEF Wrong
  <2>2. PICK w \in Wrong : \A k \in Wrong : w <= k
    BY <2>1, LeastNumber
  <2> USE DEF Wrong
  <2>3. w \in S /\ g[w] # W[w]
    BY <2>2
  <2>4. \A k \in S : k < w => g[k] = W[k]
    BY <1>0, <2>2
  <2>5. w >= 16 /\ W[w] = sha1_expand_one(W, w) /\ g[w] = sha1_expand_one(g, w)
    BY <1>0, <1>1, <1>5, <2>3 DEF IsExpansion
  <2>6. /\ w - 3 \in S /\ w - 8 \in S /\ w - 14 \in S /\ w - 16 \in S
        /\ w - 3 < w /\ w - 8 < w /\ w - 14 < w /\ w - 16 < w
    BY <1>0, <2>3, <2>5
  <2>7. sha1_expand_one(g, w) = sha1_expand_one(W, w)
    BY <2>4, <2>6 DEF sha1_expand_one
  <2> QED BY <2>3, <2>5, <2>7
<1>7. \A w \in S : g[w] = W[w]
  BY <1>6
<1>8. g = [w \in S |-> g[w]] /\ W = [w \in S |-> W[w]]
  BY <1>3 DEF Expanded
<1>9. g = W
  BY <1>7, <1>8
<1> QED BY <1>4, <1>9 DEF b

LEMMA CompressBlockIsSha1 ==
  ASSUME NEW W \in Expanded, IsExpansion(W), NEW c \in State
  PROVE  /\ CompressBlock(c, MessageOf(W)) = sha1_add_block(c, W)
         /\ CompressBlock(c, MessageOf(W)) \in State
<1>1. CompressBlock(c, MessageOf(W)) = sha1_add_block(c, W)
  BY MessageExpands DEF CompressBlock
<1>2. StatesFrom(c, W)[Steps] \in State
  BY StatesFromStepByStep, WordAssumption
<1> QED BY <1>1, <1>2, FeedForwardIsState DEF sha1_add_block

(* A run is the states from its first. *)
LEMMA RunIsStatesFrom ==
  ASSUME NEW W \in Expanded, NEW r \in [0 .. Steps -> State], Stepped(r, W, 0, Steps)
  PROVE  /\ \A q \in 0 .. Steps : r[q] = StatesFrom(r[0], W)[q]
         /\ sha1_add_block(r[0], W) = FeedForward(r[0], r[Steps])
<1>1. Steps \in 0 .. Steps /\ 0 \in 0 .. Steps
  BY WordAssumption
<1>2. r[0] \in State /\ \A q \in 0 .. Steps - 1 : r[q + 1] = sha1_step(r[q], W[q], q)
  BY <1>1 DEF Stepped
<1>3. \A q \in 0 .. Steps : r[q] = StatesFrom(r[0], W)[q]
  BY <1>1, <1>2, StatesFromAreUnique
<1> QED BY <1>1, <1>3 DEF sha1_add_block

(***************************************************************************)
(* A state has one predecessor, the one that sha1_step_bw computes; so the *)
(* search through all of them ends in the start of the one run there is.   *)
(***************************************************************************)
LEMMA PredecessorIsStepBack ==
  ASSUME NEW s \in State, NEW m \in Word, NEW q \in 0 .. Steps - 1
  PROVE  Predecessors(s, m, q) = {sha1_step_bw(s, m, q)}
<1> DEFINE P == [A : {s.B}, B : Word, C : {s.D}, D : {s.E}, E : Word]
           p == sha1_step_bw(s, m, q)
<1>1. p \in State /\ sha1_step(p, m, q) = s
  BY StepBackIsState, StepUndoesStepBack
<1>2. p \in P
  <2>1. p.A = s.B /\ p.C = s.D /\ p.D = s.E
    BY DEF sha1_step_bw
  <2> HIDE DEF p
  <2> QED BY <1>1, <2>1 DEF State
<1>3. ASSUME NEW o \in P, sha1_step(o, m, q) = s PROVE o = p
  <2>1. o \in State
    BY DEF State
  <2> QED BY <1>3, <2>1, StepBackUndoesStep
<1> HIDE DEF p
<1>4. {o \in P : sha1_step(o, m, q) = s} = {p}
  BY <1>1, <1>2, <1>3
<1> QED BY <1>4 DEF Predecessors, p

LEMMA OriginIsStart ==
  ASSUME NEW W \in Expanded, NEW r \in [0 .. Steps -> State], NEW q \in 0 .. Steps,
         Stepped(r, W, 0, q)
  PROVE  Origins(W, q, r[q]) = {r[0]}
<1> DEFINE body(f) == [k \in 0 .. q |->
                         IF k = 0 THEN {r[q]}
                         ELSE UNION {Predecessors(p, W[q - k], q - k) : p \in f[k - 1]}]
           g == CHOOSE f : f = body(f)
           h == [k \in 0 .. q |-> {r[q - k]}]
<1>0. Steps \in Nat /\ q \in Nat /\ q <= Steps
  BY WordAssumption
<1>1. ASSUME NEW k \in 1 .. q
      PROVE  UNION {Predecessors(p, W[q - k], q - k) : p \in {r[q - (k - 1)]}} = {r[q - k]}
  <2>1. /\ q - k \in 0 .. Steps - 1 /\ q - k \in 0 .. q - 1 /\ q - k \in 0 .. Steps
        /\ q - (k - 1) \in 0 .. Steps /\ (q - k) + 1 = q - (k - 1)
    BY <1>0
  <2>2. r[q - (k - 1)] = sha1_step(r[q - k], W[q - k], q - k)
    BY <2>1 DEF Stepped
  <2>3. r[q - k] \in State /\ r[q - (k - 1)] \in State /\ W[q - k] \in Word
    BY <2>1 DEF Expanded
  <2>4. Predecessors(r[q - (k - 1)], W[q - k], q - k) = {r[q - k]}
    BY <2>1, <2>2, <2>3, PredecessorIsStepBack, StepBackUndoesStep
  <2> QED BY <2>4
<1>2. h = body(h)
  <2>1. ASSUME NEW k \in 0 .. q
        PROVE  h[k] = IF k = 0 THEN {r[q]}
                      ELSE UNION {Predecessors(p, W[q - k], q - k) : p \in h[k - 1]}
    <3>1. CASE k = 0
      BY <1>0, <3>1
    <3>2. CASE k # 0
      <4>1. k \in 1 .. q /\ k - 1 \in 0 .. q
        BY <1>0, <3>2
      <4>2. h[k] = {r[q - k]} /\ h[k - 1] = {r[q - (k - 1)]}
        BY <4>1
      <4> HIDE DEF h
      <4> QED BY <1>1, <3>2, <4>1, <4>2
    <3> QED BY <3>1, <3>2
  <2>2. h = [k \in 0 .. q |-> h[k]]
    OBVIOUS
  <2> HIDE DEF h
  <2> QED BY <2>1, <2>2
<1>3. g = body(g)
  <2> HIDE DEF body, h
  <2> QED BY <1>2
<1>4. Origins(W, q, r[q]) = g[q]
  BY DEF Origins
<1> HIDE DEF g
<1> DEFINE T == {k \in 0 .. q : g[k] = {r[q - k]}}
<1>5. 0 \in T
  BY <1>0, <1>3
<1>6. ASSUME NEW k \in 0 .. q - 1, k \in T PROVE k + 1 \in T
  <2>1. k + 1 \in 1 .. q /\ k + 1 \in 0 .. q /\ (k + 1) - 1 = k /\ k + 1 # 0
    BY <1>0
  <2>2. g[k + 1] = UNION {Predecessors(p, W[q - (k + 1)], q - (k + 1)) : p \in g[k]}
    BY <1>3, <2>1
  <2>3. g[k] = {r[q - k]}
    BY <1>6
  <2>4. g[k + 1] = {r[q - (k + 1)]}
    BY <1>1, <2>1, <2>2, <2>3
  <2> QED BY <2>1, <2>4
<1>7. 0 .. q \subseteq T
  <2> HIDE DEF T
  <2> QED BY <1>0, <1>5, <1>6, IntervalInduction
<1>8. q \in T /\ q - q = 0
  BY <1>0, <1>7
<1> QED BY <1>4, <1>8

(***************************************************************************)
(* A chaining value that blocks may lead to leads to more by another one.  *)
(***************************************************************************)
LEMMA OutcomesAreStates ==
  ASSUME NEW c \in State, NEW b \in Blocks
  PROVE  Outcomes(c, MessageOf(b)) \subseteq State
<1>1. b \in Expanded /\ IsExpansion(b)
  BY ClientAssumption
<1>2. \A x \in State : CompressBlock(x, MessageOf(b)) \in State
  BY <1>1, CompressBlockIsSha1
<1> QED BY <1>2 DEF Outcomes

LEMMA ChainGrows ==
  /\ IV \in ChainingValues[0]
  /\ \A n \in 0 .. MaxBlocks - 1 : \A c \in ChainingValues[n], b \in Blocks :
       Outcomes(c, MessageOf(b)) \subseteq ChainingValues[n + 1]
<1> DEFINE Leads(V) == UNION {Outcomes(c, MessageOf(b)) : c \in V, b \in Blocks}
           next == [p \in (SUBSET State) \X (0 .. MaxBlocks - 1) |-> Leads(p[1])]
           body(f) == [n \in 0 .. MaxBlocks |-> IF n = 0 THEN {IV} ELSE Leads(f[n - 1])]
           g == CHOOSE f : f = body(f)
<1>0. MaxBlocks \in Nat /\ IV \in State
  BY CandidatesAssumption, ClientAssumption
<1>1. \A V \in SUBSET State : Leads(V) \in SUBSET State
  BY OutcomesAreStates
<1> HIDE DEF Leads
<1>2. next \in Successors(SUBSET State, MaxBlocks)
  BY <1>1 DEF Successors
<1>3. PICK f \in [0 .. MaxBlocks -> SUBSET State] :
        f[0] = {IV} /\ \A n \in 0 .. MaxBlocks - 1 : f[n + 1] = next[<<f[n], n>>]
  <2>1. {IV} \in SUBSET State
    BY <1>0
  <2> HIDE DEF next
  <2>2. PICK f : IsIteration(f, MaxBlocks, SUBSET State, {IV}, next)
    BY <1>0, <1>2, <2>1, Recursion
  <2> QED BY <2>2 DEF IsIteration
<1>4. f = body(f)
  <2>1. ASSUME NEW n \in 0 .. MaxBlocks, n # 0 PROVE f[n] = Leads(f[n - 1])
    <3>1. n - 1 \in 0 .. MaxBlocks - 1 /\ n - 1 \in 0 .. MaxBlocks /\ (n - 1) + 1 = n
      BY <1>0, <2>1
    <3>2. <<f[n - 1], n - 1>> \in (SUBSET State) \X (0 .. MaxBlocks - 1)
      BY <3>1
    <3>3. f[n] = next[<<f[n - 1], n - 1>>]
      BY <1>3, <3>1
    <3> QED BY <3>2, <3>3
  <2>2. \A n \in 0 .. MaxBlocks : f[n] = IF n = 0 THEN {IV} ELSE Leads(f[n - 1])
    BY <1>3, <2>1
  <2>3. f = [n \in 0 .. MaxBlocks |-> f[n]]
    OBVIOUS
  <2> QED BY <2>2, <2>3
<1>5. g = body(g)
  <2> HIDE DEF body
  <2> QED BY <1>4
<1>6. ChainingValues = g
  BY DEF ChainingValues, Leads
<1> HIDE DEF g
<1>7. g[0] = {IV}
  BY <1>0, <1>5
<1>8. ASSUME NEW n \in 0 .. MaxBlocks - 1 PROVE g[n + 1] = Leads(g[n])
  <2>1. n + 1 \in 0 .. MaxBlocks /\ n + 1 # 0 /\ (n + 1) - 1 = n
    BY <1>0
  <2> QED BY <1>5, <2>1
<1>9. \A V, c : \A b \in Blocks : c \in V => Outcomes(c, MessageOf(b)) \subseteq Leads(V)
  BY DEF Leads
<1> QED BY <1>6, <1>7, <1>8, <1>9

-------------------------------------------------------------------------------
(***************************************************************************)
(* What process knows of its block, in terms of SafeSha1.                  *)
(***************************************************************************)
Message == MessageOf(block_W)
After   == CompressBlock(block_in, Message)

GivesAway(d) == Safe!Collides(d, reduced_round_coll, block_in, After, Message)

Trying == pc \in {"search", "back", "forth", "compare"}

(* Which block it is, and which calls of the handler are about it. *)
BlockInv ==
  /\ Len(given) <= MaxBlocks
  /\ pc = "idle" => cv \in ChainingValues[Len(given)]
  /\ pc # "idle" =>
       /\ given # <<>> /\ block_W = given[Len(given)]
       /\ block_in \in ChainingValues[Len(given) - 1]
  /\ found_collision <=> reports # <<>>
  /\ calls # <<>> =>
       /\ calls[Len(calls)].number <= Len(given)
       /\ pc = "compress" \/ Trying => calls[Len(calls)].number < Len(given)

(* The candidates before the current one do not give the block away. *)
TriedInv ==
  Trying =>
    /\ detect_coll /\ dvs = Candidates
    /\ \A d \in dvs : d < i => ~GivesAway(d)

(* A block is hashed again if it was given away when it was tried: since   *)
(* then the settings may have changed, but only if the handler was called. *)
FoundInv ==
  /\ pc \in {"handler", "rehash"} => found_collision
  /\ pc = "handler" => HandlerRan
  /\ pc = "rehash" =>
       /\ do_safe_hash
       /\ HandlerRan \/ (~collision /\ detect_coll /\ \E d \in DV : GivesAway(d))
       /\ again = 2 => cv = After
       /\ again = 1 => cv = CompressBlock(After, Message)
       /\ state = StatesFrom(cv, block_W)[t]

SafeInv == BlockInv /\ TriedInv /\ FoundInv

LEMMA CurrentBlock ==
  ASSUME TypeOK, pc # "idle"
  PROVE  /\ block_W \in Blocks /\ block_W \in Expanded /\ IsExpansion(block_W)
         /\ block_in \in State /\ Expand(Message) = block_W
         /\ \A c \in State : /\ CompressBlock(c, Message) = sha1_add_block(c, block_W)
                             /\ CompressBlock(c, Message) \in State
<1>1. /\ block_W \in Blocks /\ block_W \in Expanded /\ IsExpansion(block_W)
      /\ block_in \in State
  BY ClientAssumption DEF TypeOK
<1> QED BY <1>1, MessageExpands, CompressBlockIsSha1 DEF Message

(* The compression of the block, as SafeSha1 sees it, is the one run. *)
LEMMA RunIsCompression ==
  ASSUME SearchInv, pc \notin {"idle", "compress"}
  PROVE  /\ After = FeedForward(block_in, run[Steps]) /\ After \in State
         /\ \A q \in 0 .. Steps : run[q] = StatesFrom(block_in, block_W)[q]
         /\ pc # "rehash" => cv = After
<1>1. /\ run[0] = block_in /\ run \in [0 .. Steps -> State]
      /\ Stepped(run, block_W, 0, Steps)
      /\ pc # "rehash" => cv = FeedForward(block_in, run[Steps])
  BY DEF SearchInv, SavedStatesAreThisBlocks, Runs
<1>2. /\ block_W \in Expanded /\ block_in \in State
      /\ After = sha1_add_block(block_in, block_W) /\ After \in State
  BY CurrentBlock DEF SearchInv, After
<1>3. /\ \A q \in 0 .. Steps : run[q] = StatesFrom(run[0], block_W)[q]
      /\ sha1_add_block(run[0], block_W) = FeedForward(run[0], run[Steps])
  BY <1>1, <1>2, RunIsStatesFrom
<1> QED BY <1>1, <1>2, <1>3

(***************************************************************************)
(* Recompression, backwards from a saved state, finds what SafeProcess     *)
(* looks for among all states.                                             *)
(***************************************************************************)
LEMMA TwinIsFound ==
  ASSUME SearchInv, pc = "compare"
  PROVE  TwinIn(i, block_in, Message) = twin_in /\ TwinOut(i, block_in, Message) = twin_out
<1> DEFINE q == test_state[i]
<1>1. /\ i \in DV /\ twin_W = TwinBlock(i) /\ twin[q] = run[q]
      /\ twin_in = twin[0] /\ twin \in [0 .. Steps -> State]
      /\ Stepped(twin, twin_W, 0, Steps)
      /\ twin_out = FeedForward(twin_in, twin[Steps])
  BY DEF SearchInv, RecompressionIsCompression, Runs, quiet_step
<1>2. block_W \in Expanded /\ Expand(Message) = block_W /\ twin_W \in Expanded
  BY <1>1, CurrentBlock, TwinBlockIsAnother DEF SearchInv
<1>3. q \in 0 .. Steps /\ Steps \in Nat
  BY <1>1, VectorAssumption, WordAssumption
<1>4. TwinOf(i, Message) = twin_W
  <2>1. DOMAIN block_W = 0 .. Steps - 1
    BY <1>2 DEF Expanded
  <2> QED BY <1>1, <1>2, <2>1 DEF TwinOf, TwinBlock
<1>5. StatesFrom(block_in, Expand(Message))[q] = twin[q]
  BY <1>1, <1>2, <1>3, RunIsCompression
<1>6. Stepped(twin, twin_W, 0, q)
  BY <1>1, <1>3 DEF Stepped
<1>7. Origins(twin_W, q, twin[q]) = {twin[0]}
  BY <1>1, <1>2, <1>3, <1>6, OriginIsStart
<1>8. TwinIn(i, block_in, Message) = twin_in
  BY <1>1, <1>4, <1>5, <1>7 DEF TwinIn
<1>9. sha1_add_block(twin[0], twin_W) = FeedForward(twin[0], twin[Steps])
  BY <1>1, <1>2, RunIsStatesFrom
<1> QED BY <1>1, <1>4, <1>8, <1>9 DEF TwinOut

(* So the two memcmps ask whether the vector gives the block away. *)
LEMMA HitIsGivenAway ==
  ASSUME SearchInv, pc = "compare"
  PROVE  Hit <=> GivesAway(i)
<1>1. TwinIn(i, block_in, Message) = twin_in /\ TwinOut(i, block_in, Message) = twin_out
  BY TwinIsFound
<1>2. cv = After
  BY RunIsCompression
<1> QED BY <1>1, <1>2 DEF Hit, GivesAway, Safe!Collides

(* The vectors left out of the search could not have found anything. *)
LEMMA GivenAwayIsCandidate ==
  ASSUME TypeOK, BlockInv, pc # "idle", NEW d \in DV, GivesAway(d)
  PROVE  d \in Candidates
<1>1. block_W \in Blocks
  BY CurrentBlock
<1>2. block_in \in ChainingValues[Len(given) - 1] /\ Len(given) - 1 \in 0 .. MaxBlocks - 1
  <2>1. given \in Seq(Blocks) /\ given # <<>> /\ Len(given) <= MaxBlocks
    BY DEF TypeOK, BlockInv
  <2>2. Len(given) \in Nat /\ Len(given) > 0 /\ MaxBlocks \in Nat
    BY <2>1, CandidatesAssumption
  <2> QED BY <2>1, <2>2 DEF BlockInv
<1>3. Safe!Collides(d, TRUE, block_in, After, Message)
  BY DEF GivesAway, Safe!Collides
<1>4. d \in Ubc(block_W)
  BY <1>1, <1>2, <1>3, CandidatesAssumption DEF After, Message
<1> QED BY <1>4 DEF Candidates

LEMMA SameVectors ==
  ASSUME UNCHANGED <<reduced_round_coll, block_in, block_W>>, NEW d
  PROVE  /\ GivesAway(d)' <=> GivesAway(d)
         /\ Message' = Message /\ After' = After
BY DEF GivesAway, After, Message

-------------------------------------------------------------------------------
(***************************************************************************)
(* The stream that SafeSha1 sees: the blocks given, sixteen words each.    *)
(***************************************************************************)
LEMMA BlocksGiven ==
  ASSUME TypeOK
  PROVE  /\ given \in Seq(Blocks) /\ Len(given) \in Nat
         /\ given # <<>> => Len(given) >= 1
         /\ Safe!Stream = MessageSoFar /\ Len(MessageSoFar) = 16 * Len(given)
<1>1. given \in Seq(Blocks) /\ Len(given) \in Nat
  BY DEF TypeOK
<1>2. Safe!Stream = MessageSoFar
  BY DEF Safe!Stream
<1>3. Len(MessageSoFar) = 16 * Len(given)
  BY <1>1 DEF MessageSoFar
<1> QED BY <1>1, <1>2, <1>3

LEMMA SafeQuiet ==
  ASSUME TypeOK, pc = "idle"
  PROVE  Safe!Quiet
BY BlocksGiven DEF Safe!Quiet, Safe!Ready, AbsorbedBytes

LEMMA SafeNextBlock ==
  ASSUME TypeOK, BlockInv, pc # "idle"
  PROVE  /\ Safe!Ready /\ Safe!NextBlock = Message
         /\ Safe!Witnesses = {d \in DV : GivesAway(d)}
<1>1. /\ given # <<>> /\ given[Len(given)] = block_W
      /\ Len(given) \in Nat /\ Len(given) >= 1
  BY BlocksGiven DEF BlockInv
<1>2. AbsorbedBytes = 16 * (Len(given) - 1)
  BY DEF AbsorbedBytes
<1>3. Safe!Ready
  BY <1>1, <1>2, BlocksGiven DEF Safe!Ready
<1>4. ASSUME NEW k \in 1 .. 16
      PROVE  MessageSoFar[AbsorbedBytes + k] = block_W[k - 1]
  <2>1. AbsorbedBytes + k \in 1 .. 16 * Len(given)
    BY <1>1, <1>2
  <2>2. ((AbsorbedBytes + k) - 1) \div 16 = Len(given) - 1 /\ ((AbsorbedBytes + k) - 1) % 16 = k - 1
    BY <1>1, <1>2
  <2>3. (Len(given) - 1) + 1 = Len(given)
    BY <1>1
  <2> QED BY <1>1, <2>1, <2>2, <2>3 DEF MessageSoFar, Words
<1>5. Safe!NextBlock = Message
  BY <1>4, BlocksGiven DEF Safe!NextBlock, Message, MessageOf
<1>6. AbsorbedCv = block_in
  BY DEF AbsorbedCv
<1> QED BY <1>3, <1>5, <1>6 DEF Safe!Witnesses, Safe!DV, DV, GivesAway, After

-------------------------------------------------------------------------------
(***************************************************************************)
(* Each action is a step of SafeSha1 or none, and keeps what is known.     *)
(* First those inside process, which SafeSha1 does not see.                *)
(***************************************************************************)
LEMMA InnerIsStutter ==
  ASSUME pc # "idle", pc' # "idle", UNCHANGED <<block_in, given, calls, settings>>,
         FoundBefore' = FoundBefore, BeingTold' = BeingTold
  PROVE  UNCHANGED Safe!vars
<1>1. AbsorbedCv' = AbsorbedCv /\ AbsorbedBytes' = AbsorbedBytes
  BY DEF AbsorbedCv, AbsorbedBytes
<1>2. MessageSoFar' = MessageSoFar
  BY DEF MessageSoFar, Words
<1>3. Log' = Log /\ Handler' = Handler
  BY DEF Log, CallOf, Handler, settings
<1> QED BY <1>1, <1>2, <1>3 DEF Safe!vars, Safe!settings, settings

LEMMA BlockStays ==
  ASSUME BlockInv, pc # "idle", pc' # "idle", (pc' = "compress" \/ Trying') => (pc = "compress" \/ Trying),
         UNCHANGED <<found, block>>
  PROVE  BlockInv'
BY DEF BlockInv, found, block

LEMMA SearchGoesOn ==
  ASSUME SearchInv, SafeInv, Trying, Trying', UNCHANGED <<found, settings, block, dvs>>,
         i' = i \/ (i' = i + 1 /\ (i \notin dvs \/ ~GivesAway(i)))
  PROVE  SafeInv' /\ UNCHANGED Safe!vars
<1>1. /\ UNCHANGED <<found_collision, reports, calls, block_in, block_W, given, dvs>>
      /\ UNCHANGED <<do_safe_hash, detect_coll, ubc_check, reduced_round_coll, collision>>
  BY DEF found, settings, block
<1>2. pc # "idle" /\ pc' # "idle" /\ pc \notin {"handler", "rehash"} /\ pc' \notin {"handler", "rehash"}
  BY DEF Trying
<1>3. BlockInv'
  BY <1>2, BlockStays DEF SafeInv
<1>4. TriedInv'
  <2>1. detect_coll /\ dvs = Candidates /\ \A d \in dvs : d < i => ~GivesAway(d)
    BY DEF SafeInv, TriedInv
  <2>2. Candidates' = Candidates
    BY <1>1 DEF Candidates
  <2>3. dvs \subseteq DV /\ i \in Int /\ \A d \in dvs : d \in Int
    BY DEF SearchInv, TypeOK, DV
  <2>4. ASSUME NEW d \in dvs, d < i' PROVE ~GivesAway(d)
    BY <2>1, <2>3, <2>4
  <2>5. \A d \in dvs : GivesAway(d)' <=> GivesAway(d)
    BY <1>1, SameVectors
  <2> QED BY <1>1, <2>1, <2>2, <2>4, <2>5 DEF TriedInv
<1>5. FoundInv'
  BY <1>2 DEF FoundInv
<1>6. FoundBefore' = FoundBefore /\ BeingTold' = BeingTold
  BY <1>1, <1>2 DEF FoundBefore, BeingTold
<1>7. UNCHANGED Safe!vars
  BY <1>1, <1>2, <1>6, InnerIsStutter DEF settings
<1> QED BY <1>3, <1>4, <1>5, <1>7 DEF SafeInv

LEMMA TryingIsStutter ==
  ASSUME SearchInv, SafeInv,
         \/ search_skip \/ recompress \/ back_step \/ back_end
         \/ forth_step \/ forth_end \/ compare_miss
  PROVE  SafeInv' /\ UNCHANGED Safe!vars
<1>1. CASE search_skip
  <2>1. /\ Trying /\ Trying' /\ UNCHANGED <<found, settings, block, dvs>>
        /\ i' = i + 1 /\ i \notin dvs
    BY <1>1 DEF search_skip, NextVector, Trying
  <2> QED BY <2>1, SearchGoesOn
<1>2. CASE recompress \/ back_step \/ back_end \/ forth_step \/ forth_end
  <2>1. Trying /\ Trying' /\ UNCHANGED <<found, settings, block, dvs>> /\ i' = i
    BY <1>2 DEF recompress, sha1_recompress_at, back_step, back_end, forth_step, forth_end, Trying, search
  <2> QED BY <2>1, SearchGoesOn
<1>3. CASE compare_miss
  <2>1. /\ pc = "compare" /\ ~Hit /\ i' = i + 1
        /\ Trying /\ Trying' /\ UNCHANGED <<found, settings, block, dvs>>
    BY <1>3 DEF compare_miss, NextVector, Trying
  <2>2. ~GivesAway(i)
    BY <2>1, HitIsGivenAway
  <2> QED BY <2>1, <2>2, SearchGoesOn
<1> QED BY <1>1, <1>2, <1>3

LEMMA CompressStepIsStutter ==
  ASSUME SearchInv, SafeInv, compress_step
  PROVE  SafeInv' /\ UNCHANGED Safe!vars
<1>1. /\ pc = "compress" /\ pc' = "compress" /\ UNCHANGED <<found, settings, given, block_in, block_W>>
  BY DEF compress_step
<1>2. BlockInv'
  BY <1>1 DEF SafeInv, BlockInv, found, Trying
<1>3. TriedInv' /\ FoundInv'
  BY <1>1 DEF TriedInv, FoundInv, Trying
<1>4. FoundBefore' = FoundBefore /\ BeingTold' = BeingTold
  BY <1>1 DEF FoundBefore, BeingTold, found
<1>5. UNCHANGED Safe!vars
  BY <1>1, <1>4, InnerIsStutter DEF found
<1> QED BY <1>2, <1>3, <1>5 DEF SafeInv

(***************************************************************************)
(* process returns: the block is absorbed.                                 *)
(***************************************************************************)
GivenAway == detect_coll /\ \E d \in DV : GivesAway(d)

LEMMA SafeGivenAway ==
  ASSUME TypeOK, BlockInv, pc # "idle"
  PROVE  Safe!GivenAway <=> GivenAway
<1>1. Safe!Witnesses = {d \in DV : GivesAway(d)}
  BY SafeNextBlock
<1> QED BY <1>1 DEF Safe!GivenAway, GivenAway

LEMMA ReturnIsAbsorb ==
  ASSUME SearchInv, SafeInv, pc # "idle", pc' = "idle", UNCHANGED <<given, calls, settings>>,
         found_collision' <=> reports' # <<>>,
         \/ /\ BeingTold \/ (~collision /\ GivenAway)
            /\ found_collision' = TRUE
            /\ cv' = IF do_safe_hash THEN CompressBlock(CompressBlock(After, Message), Message)
                     ELSE After
         \/ /\ ~BeingTold /\ ~GivenAway /\ cv' = After /\ found_collision' = FoundBefore
  PROVE  SafeInv' /\ Safe!Absorb
<1>1. TypeOK /\ BlockInv
  BY DEF SearchInv, SafeInv
<1>2. /\ given # <<>> /\ Len(given) \in Nat /\ Len(given) >= 1
      /\ Len(given) <= MaxBlocks /\ MaxBlocks \in Nat
  BY <1>1, BlocksGiven, CandidatesAssumption DEF BlockInv
<1>3. cv' \in ChainingValues[Len(given)]
  <2>1. block_in \in ChainingValues[Len(given) - 1] /\ block_W \in Blocks
    BY <1>1, CurrentBlock DEF BlockInv
  <2>2. Len(given) - 1 \in 0 .. MaxBlocks - 1 /\ (Len(given) - 1) + 1 = Len(given)
    BY <1>2
  <2>3. Outcomes(block_in, MessageOf(block_W)) \subseteq ChainingValues[Len(given)]
    BY <2>1, <2>2, ChainGrows
  <2>4. cv' \in Outcomes(block_in, MessageOf(block_W))
    BY DEF Outcomes, After, Message
  <2> QED BY <2>3, <2>4
<1>4. SafeInv'
  <2>1. BlockInv'
    BY <1>1, <1>2, <1>3 DEF BlockInv, Trying
  <2>2. TriedInv' /\ FoundInv'
    BY DEF TriedInv, FoundInv, Trying
  <2> QED BY <2>1, <2>2 DEF SafeInv
<1>5. AbsorbedBytes' = AbsorbedBytes + 16
  BY <1>2 DEF AbsorbedBytes
<1>6. AbsorbedCv' = cv' /\ FoundBefore' = found_collision' /\ BeingTold' = FALSE
  BY DEF AbsorbedCv, FoundBefore, BeingTold
<1>7. Safe!Ready /\ CompressBlock(AbsorbedCv, Safe!NextBlock) = After /\ Safe!NextBlock = Message
  BY <1>1, SafeNextBlock DEF AbsorbedCv, After
<1>8. Safe!GivenAway <=> GivenAway
  BY <1>1, SafeGivenAway
<1>9. /\ MessageSoFar' = MessageSoFar /\ Log' = Log /\ Handler' = Handler
      /\ UNCHANGED <<do_safe_hash, detect_coll, reduced_round_coll>>
  BY DEF MessageSoFar, Words, Log, CallOf, Handler, settings
<1>10. ~collision <=> Handler = "nullptr"
  BY DEF Handler
<1>11. Safe!Absorb
  BY <1>5, <1>6, <1>7, <1>8, <1>9, <1>10 DEF Safe!Absorb, Safe!settings
<1> QED BY <1>4, <1>11

LEMMA CompressEndIsAbsorbOrStutter ==
  ASSUME SearchInv, SafeInv, compress_end
  PROVE  SafeInv' /\ (Safe!Absorb \/ UNCHANGED Safe!vars)
<1>1. /\ pc = "compress" /\ t = Steps
      /\ UNCHANGED <<found, settings, block_in, block_W, given>>
      /\ cv' = FeedForward(cv, state)
  BY WordAssumption DEF compress_end, SearchInv, TypeOK
<1>2. cv' = After
  <2>1. /\ cv = block_in /\ run[0] = block_in /\ state = run[Steps]
        /\ Stepped(run, block_W, 0, Steps)
    BY <1>1 DEF SearchInv, SavedStatesAreThisBlocks
  <2>2. /\ block_W \in Expanded /\ run \in [0 .. Steps -> State]
        /\ After = sha1_add_block(block_in, block_W)
    BY <1>1, CurrentBlock DEF SearchInv, TypeOK, After
  <2>3. sha1_add_block(run[0], block_W) = FeedForward(run[0], run[Steps])
    BY <2>1, <2>2, RunIsStatesFrom
  <2> QED BY <1>1, <2>1, <2>2, <2>3
<1>3. CASE detect_coll /\ Candidates # {}
  <2>1. pc' = "search" /\ dvs' = Candidates /\ i' = 0
    BY <1>3 DEF compress_end
  <2>2. BlockInv'
    BY <1>1, <2>1 DEF SafeInv, BlockInv, found, Trying
  <2>3. TriedInv'
    <3>1. Candidates' = Candidates /\ detect_coll'
      BY <1>1, <1>3 DEF Candidates, settings
    <3>2. Candidates \subseteq DV
      BY <1>1, CurrentBlock, ClientAssumption DEF Candidates, SearchInv
    <3>3. \A d \in DV : ~(d < 0)
      BY DEF DV
    <3> QED BY <2>1, <3>1, <3>2, <3>3 DEF TriedInv
  <2>4. FoundInv'
    BY <2>1 DEF FoundInv
  <2>5. FoundBefore' = FoundBefore /\ BeingTold' = BeingTold
    BY <1>1, <2>1 DEF FoundBefore, BeingTold, found
  <2>6. UNCHANGED Safe!vars
    BY <1>1, <2>1, <2>5, InnerIsStutter DEF found
  <2> QED BY <2>2, <2>3, <2>4, <2>6 DEF SafeInv
<1>4. CASE ~(detect_coll /\ Candidates # {})
  <2>1. pc' = "idle"
    BY <1>4 DEF compress_end
  <2>2. ~GivenAway
    <3>1. ASSUME NEW d \in DV, GivesAway(d) PROVE d \in Candidates
      BY <1>1, <3>1, GivenAwayIsCandidate DEF SearchInv, SafeInv
    <3> QED BY <1>4, <3>1 DEF GivenAway
  <2>3. ~BeingTold /\ FoundBefore = found_collision
    BY <1>1 DEF BeingTold, FoundBefore
  <2>4. /\ pc # "idle" /\ UNCHANGED <<given, calls, settings>> /\ found_collision' = FoundBefore
        /\ found_collision' <=> reports' # <<>>
    BY <1>1, <2>3 DEF found, SafeInv, BlockInv
  <2> QED BY <1>2, <2>1, <2>2, <2>3, <2>4, ReturnIsAbsorb
<1> QED BY <1>3, <1>4

LEMMA SearchEndIsAbsorb ==
  ASSUME SearchInv, SafeInv, search_end
  PROVE  SafeInv' /\ Safe!Absorb
<1>1. /\ pc = "search" /\ i >= NDV /\ pc' = "idle"
      /\ UNCHANGED <<cv, found_collision, reports, calls, settings, given>>
  BY DEF search_end, found, block
<1>2. cv' = After
  BY <1>1, RunIsCompression
<1>3. ~GivenAway
  <2>1. ASSUME NEW d \in DV, GivesAway(d) PROVE FALSE
    <3>1. d \in Candidates
      BY <1>1, <2>1, GivenAwayIsCandidate DEF SearchInv, SafeInv
    <3>2. d < i
      BY <1>1, VectorAssumption DEF DV, SearchInv, TypeOK
    <3> QED BY <1>1, <2>1, <3>1, <3>2 DEF SafeInv, TriedInv, Trying
  <2> QED BY <2>1 DEF GivenAway
<1>4. ~BeingTold /\ FoundBefore = found_collision
  BY <1>1 DEF BeingTold, FoundBefore
<1>5. found_collision' <=> reports' # <<>>
  BY <1>1 DEF SafeInv, BlockInv
<1> QED BY <1>1, <1>2, <1>3, <1>4, <1>5, ReturnIsAbsorb

(***************************************************************************)
(* A hit: the handler is told, or the block is hashed again, or both.      *)
(***************************************************************************)
LEMMA FinishWhole ==
  ASSUME Finish
  PROVE  \/ do_safe_hash /\ pc' = "rehash" /\ state' = cv /\ t' = 0 /\ again' = 2
         \/ ~do_safe_hash /\ pc' = "idle"
BY DEF Finish

(* The block is to be hashed again. *)
LEMMA RehashBegins ==
  ASSUME SearchInv, SafeInv, pc \in {"compare", "handler"}, pc' = "rehash",
         UNCHANGED <<cv, settings, block_in, block_W, given, calls>>,
         found_collision' = TRUE, reports' # <<>>, state' = cv, t' = 0, again' = 2, do_safe_hash,
         HandlerRan \/ (~collision /\ GivenAway)
  PROVE  SafeInv'
<1>1. BlockInv'
  BY DEF SafeInv, BlockInv, Trying
<1>2. TriedInv'
  BY DEF TriedInv, Trying
<1>3. /\ HandlerRan' = HandlerRan /\ After' = After
      /\ (\E d \in DV : GivesAway(d)') <=> \E d \in DV : GivesAway(d)
  BY SameVectors DEF HandlerRan, settings
<1>4. cv = After
  BY RunIsCompression
<1>5. StatesFrom(cv', block_W')[t'] = state'
  <2>1. cv \in State /\ block_W \in Expanded
    BY DEF SearchInv, TypeOK
  <2> QED BY <2>1, StatesFromStepByStep
<1>6. FoundInv'
  BY <1>3, <1>4, <1>5 DEF FoundInv, GivenAway, settings
<1> QED BY <1>1, <1>2, <1>6 DEF SafeInv

LEMMA HitIsReportOrAbsorb ==
  ASSUME SearchInv, SafeInv, compare_hit
  PROVE  SafeInv' /\ (Safe!Report \/ Safe!Absorb \/ UNCHANGED Safe!vars)
<1> DEFINE c == [number |-> Len(given), vector |-> i]
<1>1. /\ pc = "compare" /\ Hit /\ found_collision' = TRUE
      /\ UNCHANGED <<cv, settings, block_in, block_W, given>>
      /\ \E r : reports' = Append(reports, r)
  BY DEF compare_hit, block
<1>2. /\ i \in DV /\ GivesAway(i) /\ cv = After
      /\ detect_coll /\ dvs = Candidates /\ \A d \in dvs : d < i => ~GivesAway(d)
  BY <1>1, HitIsGivenAway, RunIsCompression
  DEF SearchInv, RecompressionIsCompression, SafeInv, TriedInv, Trying
<1>3. GivenAway
  BY <1>2 DEF GivenAway
<1>4. ~BeingTold /\ FoundBefore = found_collision /\ ~HandlerRan
  <2>1. calls \in Seq(Call) /\ given \in Seq(Blocks)
    BY DEF SearchInv, TypeOK
  <2>2. calls # <<>> => calls[Len(calls)].number < Len(given)
    BY <1>1 DEF SafeInv, BlockInv, Trying
  <2>3. ~HandlerRan
    <3>1. CASE calls # <<>>
      BY <2>1, <2>2, <3>1 DEF HandlerRan, Call
    <3> QED BY <3>1 DEF HandlerRan
  <2> QED BY <1>1, <2>3 DEF BeingTold, FoundBefore
<1>5. /\ reports' # <<>> /\ Len(reports') = Len(reports) + 1 /\ Len(reports) \in Nat
      /\ reports # <<>> <=> Len(reports) > 0
  <2>1. reports \in Seq(Report)
    BY DEF SearchInv, TypeOK
  <2>2. PICK r : reports' = Append(reports, r)
    BY <1>1
  <2>3. Len(reports) \in Nat /\ (reports # <<>> <=> Len(reports) > 0)
    BY <2>1, EmptySeq, LenProperties
  <2>4. Len(reports') = Len(reports) + 1 /\ reports' # <<>>
    BY <2>1, <2>2, <2>3
  <2> QED BY <2>3, <2>4
<1>6. CASE collision
  <2>1. pc' = "handler" /\ calls' = Append(calls, c)
    BY <1>6 DEF compare_hit
  <2>2. calls \in Seq(Call) /\ c \in Call
    BY <1>2, BlocksGiven DEF SearchInv, TypeOK, Call
  <2> HIDE DEF c
  <2>3. /\ calls' # <<>> /\ Len(calls') = Len(calls) + 1 /\ Len(calls) \in Nat
        /\ \A k \in 1 .. Len(calls) : calls'[k] = calls[k]
        /\ calls'[Len(calls')] = c
    BY <2>1, <2>2
  <2>4. c.number = Len(given) /\ c.vector = i /\ Len(given) \in Nat
    BY BlocksGiven DEF c, SearchInv
  <2>5. HandlerRan'
    BY <1>1, <2>3, <2>4 DEF HandlerRan
  <2>6. BlockInv'
    BY <1>1, <1>5, <2>1, <2>3, <2>4 DEF SafeInv, BlockInv, Trying
  <2>7. TriedInv' /\ FoundInv'
    BY <1>1, <2>1, <2>5 DEF TriedInv, FoundInv, Trying
  <2>8. /\ Safe!Witnesses = {d \in DV : GivesAway(d)} /\ Safe!GivenAway /\ Safe!Ready
    BY <1>1, <1>3, SafeNextBlock, SafeGivenAway DEF SearchInv, SafeInv
  <2>9. Safe!First(Safe!Witnesses) = i
    <3>1. ASSUME NEW d \in Safe!Witnesses PROVE i <= d
      <4>1. d \in DV /\ GivesAway(d) /\ d \in Candidates
        BY <1>1, <2>8, GivenAwayIsCandidate DEF SearchInv, SafeInv
      <4>2. ~(d < i) /\ d \in Int /\ i \in Int
        BY <1>2, <4>1 DEF DV
      <4> QED BY <4>2
    <3>2. i \in Safe!Witnesses
      BY <1>2, <2>8
    <3>3. \A d \in Safe!Witnesses : d \in Int
      BY <2>8 DEF DV
    <3>4. \A d \in Safe!Witnesses : (\A e \in Safe!Witnesses : d <= e) => d = i
      BY <3>1, <3>2, <3>3
    <3> QED BY <3>1, <3>2, <3>4 DEF Safe!First
  <2>10. Log' = Append(Log, CallOf(c))
    <3> DEFINE S == {CallOf(x) : x \in Call}
    <3>1. calls' \in Seq(Call)
      BY <2>1, <2>2
    <3>2. \A x \in Call : CallOf(x) \in S
      OBVIOUS
    <3> HIDE DEF S
    <3>3. Log \in Seq(S) /\ Len(Log) = Len(calls) /\ \A k \in 1 .. Len(calls) : Log[k] = CallOf(calls[k])
      BY <2>2, <2>3, <3>2 DEF Log
    <3>4. Log' = [k \in 1 .. Len(calls') |-> CallOf(calls'[k])]
      BY DEF Log, CallOf
    <3>5. /\ Log' \in Seq(S) /\ Len(Log') = Len(calls) + 1
          /\ \A k \in 1 .. Len(calls) + 1 : Log'[k] = CallOf(calls'[k])
      BY <2>3, <3>1, <3>2, <3>4
    <3>6. /\ Append(Log, CallOf(c)) \in Seq(S) /\ Len(Append(Log, CallOf(c))) = Len(calls) + 1
          /\ \A k \in 1 .. Len(calls) : Append(Log, CallOf(c))[k] = Log[k]
          /\ Append(Log, CallOf(c))[Len(calls) + 1] = CallOf(c)
      BY <2>2, <3>2, <3>3, AppendProperties
    <3>7. \A k \in 1 .. Len(Log') : Log'[k] = Append(Log, CallOf(c))[k]
      BY <2>3, <3>3, <3>5, <3>6
    <3> QED BY <3>5, <3>6, <3>7, SeqEqual
  <2>11. CallOf(c) = [closure |-> "closure", byte_offset |-> (AbsorbedBytes + 16) % 65536,
                      vector |-> i, args |-> "args"]
    <3>1. 16 * Len(given) = AbsorbedBytes + 16
      BY <1>1, <2>4 DEF AbsorbedBytes
    <3> QED BY <2>4, <3>1 DEF CallOf
  <2>12. /\ AbsorbedCv' = AbsorbedCv /\ AbsorbedBytes' = AbsorbedBytes
         /\ MessageSoFar' = MessageSoFar /\ Handler' = Handler /\ Handler # "nullptr"
         /\ BeingTold' /\ FoundBefore' = TRUE
         /\ UNCHANGED <<do_safe_hash, detect_coll, reduced_round_coll>>
    BY <1>1, <1>6, <2>1, <2>5
    DEF AbsorbedCv, AbsorbedBytes, MessageSoFar, Words, Handler, BeingTold, FoundBefore, settings
  <2>13. Safe!Report
    BY <1>4, <2>8, <2>9, <2>10, <2>11, <2>12 DEF Safe!Report, Safe!settings, BeingTold
  <2> QED BY <2>6, <2>7, <2>13 DEF SafeInv
<1>7. CASE ~collision
  <2>1. Finish /\ calls' = calls
    BY <1>7 DEF compare_hit
  <2>2. CASE pc' = "idle"
    <3>1. ~do_safe_hash
      BY <2>1, <2>2, FinishWhole
    <3> QED BY <1>1, <1>2, <1>3, <1>5, <1>7, <2>1, <2>2, <3>1, ReturnIsAbsorb
  <2>3. CASE pc' # "idle"
    <3>1. do_safe_hash /\ pc' = "rehash" /\ state' = cv /\ t' = 0 /\ again' = 2
      BY <2>1, <2>3, FinishWhole
    <3>2. SafeInv'
      BY <1>1, <1>3, <1>5, <1>7, <2>1, <3>1, RehashBegins
    <3>3. ~HandlerRan'
      BY <1>1, <1>4, <2>1 DEF HandlerRan
    <3>4. FoundBefore' = FoundBefore
      <4>1. FoundBefore' = (Len(reports') > 1)
        BY <3>1, <3>3 DEF FoundBefore
      <4>2. found_collision = (Len(reports) > 0)
        BY <1>5 DEF SafeInv, BlockInv, SearchInv, TypeOK
      <4> QED BY <1>4, <1>5, <4>1, <4>2
    <3>5. BeingTold' = BeingTold
      BY <1>4, <3>3 DEF BeingTold
    <3>6. UNCHANGED Safe!vars
      BY <1>1, <2>1, <3>1, <3>4, <3>5, InnerIsStutter
    <3> QED BY <3>2, <3>6
  <2> QED BY <2>2, <2>3
<1> QED BY <1>6, <1>7

LEMMA HandlerReturnIsAbsorbOrStutter ==
  ASSUME SearchInv, SafeInv, handler_returns
  PROVE  SafeInv' /\ (Safe!Absorb \/ UNCHANGED Safe!vars)
<1>1. /\ pc = "handler" /\ Finish
      /\ UNCHANGED <<cv, found_collision, reports, calls, settings, block_in, block_W, given>>
  BY DEF handler_returns, found, block
<1>2. /\ HandlerRan /\ found_collision = TRUE /\ (found_collision <=> reports # <<>>) /\ cv = After
  BY <1>1, RunIsCompression DEF SafeInv, BlockInv, FoundInv, SearchInv, TypeOK
<1>3. BeingTold /\ FoundBefore = TRUE
  BY <1>1, <1>2 DEF BeingTold, FoundBefore
<1>4. CASE pc' = "idle"
  <2>1. ~do_safe_hash
    BY <1>1, <1>4, FinishWhole
  <2> QED BY <1>1, <1>2, <1>3, <1>4, <2>1, ReturnIsAbsorb
<1>5. CASE pc' # "idle"
  <2>1. do_safe_hash /\ pc' = "rehash" /\ state' = cv /\ t' = 0 /\ again' = 2
    BY <1>1, <1>5, FinishWhole
  <2>2. SafeInv'
    BY <1>1, <1>2, <2>1, RehashBegins
  <2>3. HandlerRan'
    BY <1>1, <1>2 DEF HandlerRan
  <2>4. FoundBefore' = FoundBefore /\ BeingTold' = BeingTold
    BY <1>1, <1>2, <1>3, <2>1, <2>3 DEF FoundBefore, BeingTold
  <2>5. UNCHANGED Safe!vars
    BY <1>1, <2>1, <2>4, InnerIsStutter
  <2> QED BY <2>2, <2>5
<1> QED BY <1>4, <1>5

(***************************************************************************)
(* The block is hashed again, and once more.                               *)
(***************************************************************************)
LEMMA RehashStepIsStutter ==
  ASSUME SearchInv, SafeInv, rehash_step
  PROVE  SafeInv' /\ UNCHANGED Safe!vars
<1>1. /\ pc = "rehash" /\ pc' = "rehash" /\ t < Steps /\ t' = t + 1
      /\ state' = sha1_step(state, block_W[t], t)
      /\ UNCHANGED <<cv, found_collision, reports, calls, settings, block_in, block_W, given, again>>
  BY DEF rehash_step, found, block
<1>2. BlockInv' /\ TriedInv'
  BY <1>1 DEF SafeInv, BlockInv, TriedInv, Trying
<1>3. StatesFrom(cv, block_W)[t + 1] = sha1_step(StatesFrom(cv, block_W)[t], block_W[t], t)
  <2>1. cv \in State /\ block_W \in Expanded /\ t \in 0 .. Steps - 1
    BY <1>1, WordAssumption DEF SearchInv, TypeOK
  <2> QED BY <2>1, StatesFromStepByStep
<1>4. /\ HandlerRan' = HandlerRan /\ After' = After /\ Message' = Message
      /\ (\E d \in DV : GivesAway(d)') <=> \E d \in DV : GivesAway(d)
  BY <1>1, SameVectors DEF HandlerRan, settings
<1>5. FoundInv'
  BY <1>1, <1>3, <1>4 DEF SafeInv, FoundInv, settings
<1>6. FoundBefore' = FoundBefore /\ BeingTold' = BeingTold
  BY <1>1, <1>4 DEF FoundBefore, BeingTold
<1>7. UNCHANGED Safe!vars
  BY <1>1, <1>6, InnerIsStutter
<1> QED BY <1>2, <1>5, <1>7 DEF SafeInv

LEMMA RehashEndIsAbsorbOrStutter ==
  ASSUME SearchInv, SafeInv, rehash_end
  PROVE  SafeInv' /\ (Safe!Absorb \/ UNCHANGED Safe!vars)
<1>1. /\ pc = "rehash" /\ t = Steps /\ cv' = FeedForward(cv, state) /\ again' = again - 1
      /\ again \in 1 .. 2
      /\ UNCHANGED <<found_collision, reports, calls, settings, block_in, block_W, given>>
      /\ IF again' > 0 THEN state' = cv' /\ t' = 0 /\ pc' = pc ELSE pc' = "idle"
  BY WordAssumption DEF rehash_end, found, block, SearchInv, TypeOK
<1>2. /\ do_safe_hash /\ found_collision = TRUE
      /\ HandlerRan \/ (~collision /\ GivenAway)
      /\ again = 2 => cv = After
      /\ again = 1 => cv = CompressBlock(After, Message)
      /\ state = StatesFrom(cv, block_W)[Steps]
      /\ found_collision <=> reports # <<>>
  BY <1>1 DEF SafeInv, FoundInv, BlockInv, GivenAway, SearchInv, TypeOK
<1>3. cv' = CompressBlock(cv, Message) /\ cv' \in State
  <2>1. cv \in State
    BY DEF SearchInv, TypeOK
  <2>2. CompressBlock(cv, Message) = sha1_add_block(cv, block_W) /\ CompressBlock(cv, Message) \in State
    BY <1>1, <2>1, CurrentBlock DEF SearchInv
  <2> QED BY <1>1, <1>2, <2>2 DEF sha1_add_block
<1>4. CASE again = 2
  <2>1. again' = 1 /\ pc' = "rehash" /\ state' = cv' /\ t' = 0
    BY <1>1, <1>4
  <2>2. BlockInv' /\ TriedInv'
    BY <1>1, <2>1 DEF SafeInv, BlockInv, TriedInv, Trying
  <2>3. StatesFrom(cv', block_W')[t'] = state'
    <3>1. block_W \in Expanded
      BY DEF SearchInv, TypeOK
    <3> QED BY <1>1, <1>3, <2>1, <3>1, StatesFromStepByStep
  <2>4. /\ HandlerRan' = HandlerRan /\ After' = After /\ Message' = Message
        /\ (\E d \in DV : GivesAway(d)') <=> \E d \in DV : GivesAway(d)
    BY <1>1, SameVectors DEF HandlerRan, settings
  <2>5. FoundInv'
    BY <1>1, <1>2, <1>3, <1>4, <2>1, <2>3, <2>4 DEF FoundInv, GivenAway, settings
  <2>6. FoundBefore' = FoundBefore /\ BeingTold' = BeingTold
    BY <1>1, <2>1, <2>4 DEF FoundBefore, BeingTold
  <2>7. UNCHANGED Safe!vars
    BY <1>1, <2>1, <2>6, InnerIsStutter
  <2> QED BY <2>2, <2>5, <2>7 DEF SafeInv
<1>5. CASE again = 1
  <2>1. pc' = "idle" /\ cv' = CompressBlock(CompressBlock(After, Message), Message)
    BY <1>1, <1>2, <1>3, <1>5
  <2>2. BeingTold \/ (~collision /\ GivenAway)
    BY <1>1, <1>2 DEF BeingTold
  <2> QED BY <1>1, <1>2, <2>1, <2>2, ReturnIsAbsorb
<1> QED BY <1>1, <1>4, <1>5

(* A sequence that is one sequence and then another is their concatenation. *)
LEMMA ConcatIs ==
  ASSUME NEW S, NEW s1 \in Seq(S), NEW s2 \in Seq(S), NEW s \in Seq(S),
         Len(s) = Len(s1) + Len(s2),
         \A k \in 1 .. Len(s1) : s[k] = s1[k],
         \A j \in 1 .. Len(s2) : s[Len(s1) + j] = s2[j]
  PROVE  s = s1 \o s2
<1>1. /\ s1 \o s2 \in Seq(S)
      /\ Len(s1 \o s2) = Len(s1) + Len(s2)
      /\ \A k \in 1 .. Len(s1) + Len(s2) :
           (s1 \o s2)[k] = IF k <= Len(s1) THEN s1[k] ELSE s2[k - Len(s1)]
  BY ConcatProperties
<1>2. Len(s1) \in Nat /\ Len(s2) \in Nat
  BY LenProperties
<1>3. ASSUME NEW k \in 1 .. Len(s) PROVE s[k] = (s1 \o s2)[k]
  <2>1. CASE k <= Len(s1)
    BY <1>1, <1>2, <2>1
  <2>2. CASE ~(k <= Len(s1))
    <3>1. k - Len(s1) \in 1 .. Len(s2) /\ Len(s1) + (k - Len(s1)) = k
      BY <1>2, <2>2
    <3>2. s[k] = s2[k - Len(s1)]
      BY <3>1
    <3> QED BY <1>1, <2>2, <3>2
  <2> QED BY <2>1, <2>2
<1> QED BY <1>1, <1>3, SeqEqual

(***************************************************************************)
(* The client's turn.                                                      *)
(***************************************************************************)
LEMMA ProcessIsFeed ==
  ASSUME SearchInv, SafeInv, NEW b \in Blocks, process(b)
  PROVE  SafeInv' /\ Safe!Feed
<1>1. /\ pc = "idle" /\ pc' = "compress" /\ given' = Append(given, b)
      /\ block_in' = cv /\ block_W' = b /\ Len(given) < MaxBlocks
      /\ UNCHANGED <<cv, found_collision, reports, calls, settings>>
  BY DEF process, found
<1>2. /\ given \in Seq(Blocks) /\ Len(given) \in Nat
      /\ given' # <<>> /\ Len(given') = Len(given) + 1 /\ given'[Len(given')] = b
      /\ \A k \in 1 .. Len(given) : given'[k] = given[k]
  <2>1. given \in Seq(Blocks) /\ Len(given) \in Nat
    BY BlocksGiven DEF SearchInv
  <2> QED BY <1>1, <2>1, AppendProperties
<1>3. BlockInv'
  <2>1. /\ cv \in ChainingValues[Len(given)]
        /\ found_collision <=> reports # <<>>
        /\ calls # <<>> => calls[Len(calls)].number <= Len(given)
    BY <1>1 DEF SafeInv, BlockInv
  <2>2. Len(given) + 1 <= MaxBlocks /\ (Len(given) + 1) - 1 = Len(given)
    BY <1>1, <1>2, CandidatesAssumption
  <2>3. ASSUME calls # <<>> PROVE calls[Len(calls)].number \in Nat
    <3>1. calls \in Seq(Call)
      BY DEF SearchInv, TypeOK
    <3>2. Len(calls) \in 1 .. Len(calls)
      BY <2>3, <3>1, EmptySeq, LenProperties
    <3>3. calls[Len(calls)] \in Call
      BY <3>1, <3>2, ElementOfSeq
    <3> QED BY <3>3 DEF Call
  <2>4. calls' # <<>> =>
          calls'[Len(calls')].number <= Len(given') /\ calls'[Len(calls')].number < Len(given')
    BY <1>1, <1>2, <2>1, <2>3
  <2> QED BY <1>1, <1>2, <2>1, <2>2, <2>4 DEF BlockInv
<1>4. TriedInv' /\ FoundInv'
  BY <1>1 DEF TriedInv, FoundInv, Trying
<1>5. MessageSoFar' = MessageSoFar \o MessageOf(b)
  <2> DEFINE n == 16 * Len(given)
  <2>0. n \in Nat /\ 16 * Len(given') = n + 16
    BY <1>2
  <2>1. MessageSoFar' = [k \in 1 .. n + 16 |-> given'[((k - 1) \div 16) + 1][(k - 1) % 16]]
    BY <1>2, <2>0 DEF MessageSoFar, Words
  <2>2. ASSUME NEW k \in 1 .. n PROVE MessageSoFar'[k] = MessageSoFar[k]
    <3>1. ((k - 1) \div 16) + 1 \in 1 .. Len(given) /\ k \in 1 .. n + 16
      BY <1>2, <2>0
    <3> HIDE DEF n
    <3>2. MessageSoFar'[k] = given'[((k - 1) \div 16) + 1][(k - 1) % 16]
      BY <2>1, <3>1
    <3>3. MessageSoFar[k] = given[((k - 1) \div 16) + 1][(k - 1) % 16]
      BY DEF MessageSoFar, Words, n
    <3> QED BY <1>2, <3>1, <3>2, <3>3
  <2>3. ASSUME NEW j \in 1 .. 16 PROVE MessageSoFar'[n + j] = MessageOf(b)[j]
    <3>1. /\ n + j \in 1 .. n + 16 /\ (((n + j) - 1) \div 16) + 1 = Len(given')
          /\ ((n + j) - 1) % 16 = j - 1
      BY <1>2, <2>0
    <3> HIDE DEF n
    <3>2. MessageSoFar'[n + j] = b[j - 1]
      BY <1>2, <2>1, <3>1
    <3> QED BY <3>2 DEF MessageOf
  <2> DEFINE S == {MessageSoFar[k] : k \in 1 .. n} \cup {MessageOf(b)[j] : j \in 1 .. 16}
  <2>4. MessageSoFar \in Seq(S) /\ Len(MessageSoFar) = n
    BY <2>0 DEF MessageSoFar
  <2>5. MessageOf(b) \in Seq(S) /\ Len(MessageOf(b)) = 16
    BY DEF MessageOf
  <2>6. MessageSoFar' \in Seq(S) /\ Len(MessageSoFar') = n + 16
    <3>1. ASSUME NEW k \in 1 .. n + 16 PROVE MessageSoFar'[k] \in S
      <4>1. CASE k \in 1 .. n
        BY <2>2, <4>1
      <4>2. CASE k \notin 1 .. n
        <5>1. k - n \in 1 .. 16 /\ n + (k - n) = k
          BY <2>0, <4>2
        <5> QED BY <2>3, <5>1
      <4> QED BY <4>1, <4>2
    <3> HIDE DEF S, n
    <3> QED BY <2>0, <2>1, <3>1
  <2> HIDE DEF S, n
  <2>7. ASSUME NEW s \in Seq(S), Len(s) = n + 16,
               \A k \in 1 .. n : s[k] = MessageSoFar[k],
               \A j \in 1 .. 16 : s[n + j] = MessageOf(b)[j]
        PROVE  s = MessageSoFar \o MessageOf(b)
    <3>1. /\ Len(s) = Len(MessageSoFar) + Len(MessageOf(b))
          /\ \A k \in 1 .. Len(MessageSoFar) : s[k] = MessageSoFar[k]
          /\ \A j \in 1 .. Len(MessageOf(b)) : s[Len(MessageSoFar) + j] = MessageOf(b)[j]
      BY <2>4, <2>5, <2>7
    <3> QED BY <2>4, <2>5, <3>1, ConcatIs
  <2> QED BY <2>2, <2>3, <2>6, <2>7
<1>6. /\ AbsorbedCv' = AbsorbedCv /\ AbsorbedBytes' = AbsorbedBytes
      /\ FoundBefore' = FoundBefore /\ BeingTold' = BeingTold /\ Log' = Log /\ Handler' = Handler
  BY <1>1, <1>2 DEF AbsorbedCv, AbsorbedBytes, FoundBefore, BeingTold, Log, CallOf, Handler, settings
<1>7. Safe!Quiet
  BY <1>1, SafeQuiet DEF SearchInv
<1>8. Safe!Feed
  BY <1>1, <1>5, <1>6, <1>7 DEF Safe!Feed, Safe!settings, settings
<1> QED BY <1>3, <1>4, <1>8 DEF SafeInv

LEMMA ConfigureIsConfigure ==
  ASSUME SearchInv, SafeInv, NEW s \in Settings, configure(s)
  PROVE  SafeInv' /\ Safe!Configure
<1>1. /\ pc \in {"idle", "handler"} /\ pc' = pc
      /\ UNCHANGED <<cv, found_collision, reports, calls, block_in, block_W, given>>
  BY DEF configure, found, block
<1>2. BlockInv' /\ TriedInv'
  BY <1>1 DEF SafeInv, BlockInv, TriedInv, Trying
<1>3. FoundInv' /\ (pc = "handler" => HandlerRan)
  BY <1>1 DEF SafeInv, FoundInv, HandlerRan
<1>4. /\ AbsorbedCv' = AbsorbedCv /\ AbsorbedBytes' = AbsorbedBytes /\ MessageSoFar' = MessageSoFar
      /\ FoundBefore' = FoundBefore /\ BeingTold' = BeingTold /\ Log' = Log
  BY <1>1 DEF AbsorbedCv, AbsorbedBytes, MessageSoFar, Words, FoundBefore, BeingTold, HandlerRan,
              Log, CallOf
<1>5. Safe!Quiet \/ BeingTold
  BY <1>1, <1>3, SafeQuiet DEF SearchInv, BeingTold
<1>6. do_safe_hash' \in BOOLEAN /\ detect_coll' \in BOOLEAN /\ reduced_round_coll' \in BOOLEAN
  BY ClientAssumption DEF configure
<1>7. Handler' \in {"handler"} \cup {"nullptr"}
  BY DEF Handler
<1>8. Safe!Configure
  BY <1>4, <1>5, <1>6, <1>7 DEF Safe!Configure
<1> QED BY <1>2, <1>3, <1>8 DEF SafeInv

-------------------------------------------------------------------------------
LEMMA InitIsSafeInit ==
  ASSUME Init
  PROVE  SafeInv /\ Safe!Init
<1>1. /\ cv = IV /\ pc = "idle" /\ found_collision = FALSE /\ calls = <<>> /\ given = <<>>
      /\ reports = <<>> /\ do_safe_hash = DO_SAFE_HASH_DEFAULT /\ detect_coll = TRUE
      /\ reduced_round_coll = FALSE /\ collision = FALSE
  BY DEF Init
<1>2. SafeInv
  BY <1>1, ChainGrows, CandidatesAssumption DEF SafeInv, BlockInv, TriedInv, FoundInv, Trying
<1>3. MessageSoFar = <<>> /\ Log = <<>> /\ AbsorbedBytes = 0
  BY <1>1 DEF MessageSoFar, Log, AbsorbedBytes
<1>4. AbsorbedCv = IV /\ FoundBefore = FALSE /\ BeingTold = FALSE /\ Handler = "nullptr"
  BY <1>1 DEF AbsorbedCv, FoundBefore, BeingTold, Handler
<1> QED BY <1>1, <1>2, <1>3, <1>4 DEF Safe!Init

LEMMA NextIsSafeNext ==
  ASSUME SearchInv, SafeInv, [Next]_vars
  PROVE  SafeInv' /\ [Safe!Next]_(Safe!vars)
<1>1. CASE Client
  BY <1>1, ProcessIsFeed, ConfigureIsConfigure DEF Client, Safe!Next
<1>2. CASE compress_step \/ compress_end
  BY <1>2, CompressStepIsStutter, CompressEndIsAbsorbOrStutter DEF Safe!Next
<1>3. CASE \/ search_skip \/ recompress \/ back_step \/ back_end
           \/ forth_step \/ forth_end \/ compare_miss
  BY <1>3, TryingIsStutter
<1>4. CASE search_end
  BY <1>4, SearchEndIsAbsorb DEF Safe!Next
<1>5. CASE compare_hit
  BY <1>5, HitIsReportOrAbsorb DEF Safe!Next
<1>6. CASE handler_returns
  BY <1>6, HandlerReturnIsAbsorbOrStutter DEF Safe!Next
<1>7. CASE rehash_step \/ rehash_end
  BY <1>7, RehashStepIsStutter, RehashEndIsAbsorbOrStutter DEF Safe!Next
<1>8. CASE UNCHANGED vars
  <2>1. /\ UNCHANGED <<cv, found_collision, reports, calls, block_in, block_W, given, pc, dvs, i,
                       t, state, again>>
        /\ UNCHANGED <<do_safe_hash, detect_coll, ubc_check, reduced_round_coll, collision>>
    BY <1>8 DEF vars, found, settings, block, search, steps
  <2>2. /\ \A d \in dvs : GivesAway(d)' <=> GivesAway(d)
        /\ \A d \in DV : GivesAway(d)' <=> GivesAway(d)
        /\ Message' = Message /\ After' = After /\ HandlerRan' = HandlerRan
        /\ Candidates' = Candidates /\ Trying' = Trying
    BY <2>1, SameVectors DEF HandlerRan, Candidates, Trying
  <2>3. BlockInv'
    BY <2>1, <2>2 DEF SafeInv, BlockInv
  <2>4. TriedInv'
    BY <2>1, <2>2 DEF SafeInv, TriedInv
  <2>5. FoundInv'
    BY <2>1, <2>2 DEF SafeInv, FoundInv
  <2>6. UNCHANGED Safe!vars
    BY <2>1 DEF Safe!vars, Safe!settings, AbsorbedCv, AbsorbedBytes, MessageSoFar, Words,
                FoundBefore, BeingTold, HandlerRan, Log, CallOf, Handler
  <2> QED BY <2>3, <2>4, <2>5, <2>6 DEF SafeInv
<1> QED BY <1>1, <1>2, <1>3, <1>4, <1>5, <1>6, <1>7, <1>8 DEF Next, Library

(***************************************************************************)
(* process does what SafeSha1 promises: a block is reported if and only if *)
(* one of all the vectors gives it away, for the first that does, though   *)
(* few are tried, from states that were saved on the way and backwards; it *)
(* is hashed once, or three times, and no step of the search is visible.   *)
(***************************************************************************)
THEOREM ProcessIsSafe == Spec => ProcessImplementsSafeSha1
<1>1. Init => SearchInv /\ SafeInv /\ Safe!Init
  BY InitInv, InitIsSafeInit
<1>2. SearchInv /\ SafeInv /\ [Next]_vars => SafeInv' /\ [Safe!Next]_(Safe!vars)
  BY NextIsSafeNext
<1> QED
  BY <1>1, <1>2, SearchInvariant, PTL DEF Spec, ProcessImplementsSafeSha1, Safe!Spec
===============================================================================
