------------------------------- MODULE AddBlock --------------------------------
(***************************************************************************)
(* sha1_add_block_expanding_saving of lib/sha1.c, in the two versions the  *)
(* dynamic linker chooses from, and sha1_add_block_expanding, the plain    *)
(* function kept as a reference.  All compress one block; the first two    *)
(* leave behind the expanded block and the states of the compressor that   *)
(* recompression will start from.  The portable version makes one step per *)
(* round of its loop.  The version for the SHA extensions makes four, in   *)
(* the instructions' own representation (vectors of four words, the first  *)
(* in lane 3), and works out the states in between from the one it has,    *)
(* going forwards for the next two and backwards for the one before.       *)
(***************************************************************************)
EXTENDS Sha1Core, Sequences

CONSTANTS
  Inputs,           \* pairs of a chaining value and a block to compress
  need_state,       \* the slot of each state that is needed, or -1
  n_needed_states,
  Unwritten         \* a slot, or a variable, nobody has written yet

Loaded == 0 .. 15                \* the words of a block
Slots  == 0 .. n_needed_states - 1

ASSUME InputAssumption ==
  /\ Inputs \subseteq State \X [Loaded -> Word]
  /\ Steps % 4 = 0 /\ Steps >= 16

(* The slots are counted in the order of the states. *)
ASSUME NeedAssumption ==
  /\ n_needed_states \in Nat
  /\ need_state \in [0 .. Steps -> {-1} \cup Slots]
  /\ \A p, q \in 0 .. Steps :
       p < q /\ need_state[p] # -1 /\ need_state[q] # -1 => need_state[p] < need_state[q]
  /\ \A slot \in Slots : \E t \in 0 .. Steps : need_state[t] = slot

(* What parse_bitrel's table happens to satisfy and the version for the SHA *)
(* extensions relies on: see Wn1_p2 below.                                  *)
ASSUME NeedsNoThird == \A t \in 0 .. Steps : t % 4 = 3 => need_state[t] = -1

(* No round ends inside a group of four steps: what it adds to the sum, by  *)
(* i / 20 in that version, is the same for all of them.                     *)
ASSUME RoundAssumption ==
  \A b, c, d \in Word, t \in 0 .. Steps - 1 : fk(b, c, d, t) = fk(b, c, d, 4 * (t \div 4))

VARIABLES
  cv, m,        \* the arguments: the chaining value, the words of the block,
  W, states,    \* and the arrays written to
  pc, i,
  state, saved, \* of the portable version
  Wrn16_n1, cur_abcd, old_abcd, Wn1_p2,  \* of the other one
  run           \* history: the states SHA-1 goes through, from the chaining
                \* value that was passed, over the words written so far

x86  == <<Wrn16_n1, cur_abcd, old_abcd, Wn1_p2>>
vars == <<cv, m, W, states, pc, i, state, saved, x86, run>>

-------------------------------------------------------------------------------
(* Save state s as number t, if it is needed. *)
Saved(slots, s, t) ==
  IF need_state[t] = -1 THEN slots ELSE [slots EXCEPT ![need_state[t]] = s]

(* Word t, read from the block or expanded from the words before it. *)
WordOf(t) == IF t \in Loaded THEN m[t] ELSE sha1_expand_one(W, t)

(* The run with one step more: the states are numbered from 0, and a       *)
(* sequence from 1.                                                        *)
After(r, t) == Append(r, sha1_step(r[t + 1], W'[t], t))

(* sha1_add_block_expanding: its W is a local. *)

plain_step ==
  /\ pc = "plain" /\ i < Steps
  /\ W' = [W EXCEPT ![i] = WordOf(i)]
  /\ state' = sha1_step(state, W'[i], i)
  /\ i' = i + 1
  /\ run' = After(run, i)
  /\ UNCHANGED <<cv, m, states, pc, saved, x86>>

plain_end ==
  /\ pc = "plain" /\ i >= Steps
  /\ cv' = FeedForward(cv, state)
  /\ pc' = "hashed"
  /\ UNCHANGED <<m, W, states, i, state, saved, x86, run>>

-------------------------------------------------------------------------------
(* sha1_add_block_expanding_saving_portable.                               *)

(* The slots are numbered in the order of the states. *)
SlotIsNext == need_state[i] = -1 \/ need_state[i] = saved

NextSlot_at_each_state == saved + 1
NextSlot == IF need_state[i] = -1 THEN saved ELSE saved + 1

portable_step ==
  /\ pc = "portable" /\ i < Steps /\ SlotIsNext
  /\ states' = Saved(states, state, i)
  /\ saved' = NextSlot
  /\ W' = [W EXCEPT ![i] = WordOf(i)]
  /\ state' = sha1_step(state, W'[i], i)
  /\ i' = i + 1
  /\ run' = After(run, i)
  /\ UNCHANGED <<cv, m, pc, x86>>

portable_end ==
  /\ pc = "portable" /\ i >= Steps /\ SlotIsNext
  /\ states' = Saved(states, state, i)
  /\ saved' = NextSlot
  /\ cv' = FeedForward(cv, state)
  /\ pc' = "done"
  /\ UNCHANGED <<m, W, i, state, x86, run>>

-------------------------------------------------------------------------------
(* The instructions.  A vector is written with lane 3, which has the first *)
(* word, first: "reversed" in the code, in order here.                     *)

sha1msg1(x, y) ==
  <<Xor(x[1], x[3]), Xor(x[2], x[4]), Xor(x[3], y[1]), Xor(x[4], y[2])>>

sha1msg2(x, y) ==
  LET first == rotate_left(Xor(x[1], y[2]), 1) IN
    <<first, rotate_left(Xor(x[2], y[3]), 1),
             rotate_left(Xor(x[3], y[4]), 1),
             rotate_left(Xor(x[4], first), 1)>>

xor_v4u32(x, y) ==
  <<Xor(x[1], y[1]), Xor(x[2], y[2]), Xor(x[3], y[3]), Xor(x[4], y[4])>>

sha1nexte(x, y) == [y EXCEPT ![1] = Add(y[1], sha1_rotate_right(x[1], 2))]

(* Four steps of the round that t is in; the words come with E added to    *)
(* the first.                                                              *)
sha1rnds4(abcd, words, t) ==
  LET s0 == [A |-> abcd[1], B |-> abcd[2], C |-> abcd[3], D |-> abcd[4], E |-> 0]
      s2 == sha1_step(sha1_step(s0, words[1], t), words[2], t)
      s4 == sha1_step(sha1_step(s2, words[3], t), words[4], t)
  IN  <<s4.A, s4.B, s4.C, s4.D>>

-------------------------------------------------------------------------------
(* The words of this group, loaded or expanded. *)
Wrp0_p3 ==
  IF i \in Loaded THEN Wrn16_n1[i \div 4]
  ELSE sha1msg2(xor_v4u32(sha1msg1(Wrn16_n1[0], Wrn16_n1[1]), Wrn16_n1[2]),
                Wrn16_n1[3])

(* The state before this group: E is the A of four steps ago. *)
Current_E_not_rotated ==
  [A |-> cur_abcd[1], B |-> cur_abcd[2], C |-> cur_abcd[3], D |-> cur_abcd[4],
   E |-> old_abcd[1]]

Current ==
  [A |-> cur_abcd[1], B |-> cur_abcd[2], C |-> cur_abcd[3], D |-> cur_abcd[4],
   E |-> sha1_rotate_right(old_abcd[1], 2)]

(* Element 1 + j is the word of step i + j, but element 0 is never assigned. *)
Assigned_a_word_late == [j \in 0 .. 3 |-> IF j = 0 THEN Wn1_p2[0] ELSE Wrp0_p3[j + 1]]
Assigned == [j \in 0 .. 3 |-> IF j = 0 THEN Wn1_p2[0] ELSE Wrp0_p3[j]]

(* The state before the group, one step back from it, and j steps forth.   *)
Back == sha1_step_bw(Current, Wn1_p2'[0], i - 1)

Forth(j) ==
  LET one == sha1_step(Current, Wn1_p2'[1], i)
      two == sha1_step(one, Wn1_p2'[2], i + 1)
  IN  CASE j = 1 -> one
        [] j = 2 -> two
        [] j = 3 -> sha1_step(two, Wn1_p2'[3], i + 2)

SavedBack(slots) ==
  LET here == Saved(slots, Current, i) IN
    IF i > 0 THEN Saved(here, Back, i - 1) ELSE here

SavedForth(slots) == Saved(Saved(slots, Forth(1), i + 1), Forth(2), i + 2)

x86v2sha_steps ==
  /\ pc = "x86v2sha" /\ i < Steps
  /\ Wrn16_n1' = IF i \in Loaded THEN Wrn16_n1
                 ELSE [k \in 0 .. 3 |-> IF k = 3 THEN Wrp0_p3 ELSE Wrn16_n1[k + 1]]
  /\ W' = [t \in DOMAIN W |-> IF t \in i .. i + 3 THEN Wrp0_p3[t - i + 1] ELSE W[t]]
  /\ Wn1_p2' = Assigned
  /\ old_abcd' = cur_abcd
  /\ cur_abcd' = sha1rnds4(cur_abcd, sha1nexte(old_abcd, Wrp0_p3), i)
  /\ states' = SavedForth(SavedBack(states))
  /\ i' = i + 4
  /\ run' = After(After(After(After(run, i), i + 1), i + 2), i + 3)
  /\ UNCHANGED <<cv, m, pc, state, saved>>

(* The last round of the loop leaves it after saving the last states. What *)
(* it computes from a Wrp0_p3 without a value is not used.                 *)
x86v2sha_end ==
  /\ pc = "x86v2sha" /\ i >= Steps
  /\ UNCHANGED Wn1_p2
  /\ states' = SavedBack(states)
  /\ cv' = FeedForward(cv, Current)
  /\ pc' = "done"
  /\ UNCHANGED <<m, W, i, state, saved, Wrn16_n1, cur_abcd, old_abcd, run>>

-------------------------------------------------------------------------------
(* The version is the one that the processor supports; or the reference is *)
(* called, which nothing does yet.                                         *)
pick_add_block_expanding_saving == {"portable", "x86v2sha"}

Init ==
  /\ \E input \in Inputs : cv = input[1] /\ m = input[2]
  /\ W = [t \in 0 .. Steps - 1 |-> Unwritten]
  /\ states = [slot \in Slots |-> Unwritten]
  /\ pc \in pick_add_block_expanding_saving \cup {"plain"} /\ i = 0
  /\ state = cv /\ saved = 0 /\ run = <<cv>>
  /\ Wrn16_n1 = [k \in 0 .. 3 |-> <<m[4 * k], m[4 * k + 1], m[4 * k + 2], m[4 * k + 3]>>]
  /\ cur_abcd = <<cv.A, cv.B, cv.C, cv.D>>
  /\ \E garbage \in {0, WordMod - 1} :
       /\ old_abcd = <<rotate_left(cv.E, 2), garbage, garbage, garbage>>
       /\ Wn1_p2 = [j \in 0 .. 3 |-> garbage]

Next ==
  \/ plain_step \/ plain_end
  \/ portable_step \/ portable_end
  \/ x86v2sha_steps \/ x86v2sha_end

Spec == Init /\ [][Next]_vars

-------------------------------------------------------------------------------
(* Properties. *)

Vector == Word \X Word \X Word \X Word

(***************************************************************************)
(* Type correctness.                                                       *)
(***************************************************************************)
TypeOK ==
  /\ cv \in State /\ state \in State /\ run \in Seq(State)
  /\ m \in [Loaded -> Word]
  /\ W \in [0 .. Steps - 1 -> Word \cup {Unwritten}]
  /\ states \in [Slots -> State \cup {Unwritten}]
  /\ pc \in {"plain", "hashed", "portable", "x86v2sha", "done"} /\ i \in 0 .. Steps
  /\ saved \in Nat
  /\ Wrn16_n1 \in [0 .. 3 -> Vector] /\ Wn1_p2 \in [0 .. 3 -> Word]
  /\ cur_abcd \in Vector /\ old_abcd \in Vector

(***************************************************************************)
(* What SHA-1 says: the block expanded by its recurrence, the compression  *)
(* function of it added to the chaining value.  All versions do it.        *)
(***************************************************************************)
OutputIsSha1 ==
  pc \in {"done", "hashed"} =>
    /\ \A t \in Loaded : W[t] = m[t]
    /\ IsExpansion(W)
    /\ cv = FeedForward(run[1], run[Steps + 1])

(***************************************************************************)
(* Recompression finds every state it may start from in its slot, be it    *)
(* one that the version stepped through or one it had to work out.         *)
(***************************************************************************)
NeededStatesAreSaved ==
  pc = "done" =>
    \A t \in 0 .. Steps : need_state[t] # -1 => states[need_state[t]] = run[t + 1]

(***************************************************************************)
(* The portable version never meets a slot out of turn, which the code     *)
(* declares unreachable.                                                   *)
(***************************************************************************)
UnreachableIsNotReached == pc = "portable" => SlotIsNext
===============================================================================
