-------------------------------- MODULE Process --------------------------------
(***************************************************************************)
(* The block processor, `process' of lib/sha1.c, step by step of the       *)
(* compressor: the block is compressed and some states are saved; then for *)
(* each candidate vector the twin block is recompressed from the saved     *)
(* state, backwards to the chaining value it would need and forwards to    *)
(* the one it would produce; a twin that gives the block away ends the     *)
(* search, and may have the block hashed again, twice.  The client sets    *)
(* the context up between blocks, or when its handler is called.  Sha1dc   *)
(* has all this in four actions: process, test_hit, handler_returns and    *)
(* test_miss.                                                              *)
(***************************************************************************)
EXTENDS Sha1Core, Sequences

CONSTANTS
  IV,                \* the chaining value to start from, any
  DO_SAFE_HASH_DEFAULT,
  Blocks,            \* expanded blocks to process
  NDV,               \* sha1dc_n_disturbance_vectors
  message_mask,      \* of sha1dc_disturbance_vectors: what to change the words by
  test_state,        \* and the state the change leaves alone
  need_state, n_needed_states,  \* the slots for those states
  Ubc(_),            \* the vectors that sha1dc_ubc_check leaves for a block
  Settings,          \* the settings the client may choose
  MaxBlocks          \* bound: the blocks processed

DV    == 0 .. NDV - 1
Slots == 0 .. n_needed_states - 1

ASSUME VectorAssumption ==
  /\ NDV \in Nat /\ n_needed_states \in Nat
  /\ message_mask \in [DV -> Expanded] /\ test_state \in [DV -> 0 .. Steps]
  /\ need_state \in [0 .. Steps -> {-1} \cup Slots]
  /\ \A d \in DV : need_state[test_state[d]] # -1
  /\ \A p, q \in 0 .. Steps :
       need_state[p] = need_state[q] /\ need_state[p] # -1 => p = q
  /\ \A d \in DV : \E w \in 0 .. Steps - 1 : \A x \in Word :
       Xor(x, message_mask[d][w]) # x     \* a mask is not all zeros
  /\ \A d \in DV : IsExpansion(message_mask[d])

ASSUME ClientAssumption ==
  /\ IV \in State /\ DO_SAFE_HASH_DEFAULT \in BOOLEAN
  /\ Settings \subseteq
       [{"safe", "detect", "ubc", "reduced", "collision"} -> BOOLEAN]
  /\ \A b \in Blocks : b \in Expanded /\ IsExpansion(b) /\ Ubc(b) \subseteq DV

VARIABLES     \* of struct sha1dc_ctx
  cv, found_collision,
  do_safe_hash, detect_coll, ubc_check, reduced_round_coll,
  collision,  \* whether there is a handler
  block_in, twin_in, twin_out, block_W, twin_W, block_state

VARIABLES     \* locals
  pc,
  t, state,   \* of the functions that step the compressor
  again,      \* how many times the block is still to be hashed
  dvs, i

VARIABLES     \* history
  run, twin,  \* the states of the block, and of its twin, by their numbers
  reports,    \* what was found
  calls,      \* the calls of the handler
  given       \* the blocks that have been started

settings == <<do_safe_hash, detect_coll, ubc_check, reduced_round_coll, collision>>
found    == <<found_collision, reports, calls>>
block    == <<block_in, block_W, block_state, run, given>>
twins    == <<twin_in, twin_out, twin_W, twin>>
search   == <<dvs, i>>
steps    == <<t, state, again>>
vars     == <<cv, found, settings, block, twins, pc, steps, search>>

-------------------------------------------------------------------------------
(* sha1_add_block_expanding_saving: see AddBlock for its other version.    *)

Saved_a_state_late(s, q) ==
  IF q = 0 \/ need_state[q - 1] = -1 THEN block_state
  ELSE [block_state EXCEPT ![need_state[q - 1]] = s]

Saved(s, q) ==
  IF need_state[q] = -1 THEN block_state ELSE [block_state EXCEPT ![need_state[q]] = s]

process(b) ==
  /\ pc = "idle" /\ Len(given) < MaxBlocks
  /\ given' = Append(given, b)
  /\ block_in' = cv /\ block_W' = b
  /\ state' = cv /\ t' = 0 /\ pc' = "compress"
  /\ run' = [q \in 0 .. Steps |-> cv]
  /\ UNCHANGED <<cv, found, settings, block_state, twins, again, search>>

compress_step ==
  /\ pc = "compress" /\ t < Steps
  /\ block_state' = Saved(state, t)
  /\ state' = sha1_step(state, block_W[t], t) /\ t' = t + 1
  /\ run' = [run EXCEPT ![t + 1] = state']
  /\ UNCHANGED <<cv, found, settings, block_in, block_W, given, twins, pc, again,
                 search>>

(* The vectors whose bit of the dvmask is set. *)
Candidates == IF ubc_check THEN Ubc(block_W) ELSE DV

compress_end ==
  /\ pc = "compress" /\ t >= Steps
  /\ block_state' = Saved(state, t)
  /\ cv' = FeedForward(cv, state)
  /\ IF detect_coll /\ Candidates # {}
     THEN pc' = "search" /\ dvs' = Candidates /\ i' = 0
     ELSE pc' = "idle" /\ UNCHANGED search
  /\ UNCHANGED <<found, settings, block_in, block_W, run, given, twins, steps>>

-------------------------------------------------------------------------------
(* The search. *)

(* "i++" *)
NextVector_stays == i
NextVector       == i + 1

search_skip ==
  /\ pc = "search" /\ i < NDV /\ i \notin dvs
  /\ i' = NextVector
  /\ UNCHANGED <<cv, found, settings, block, twins, pc, steps, dvs>>

search_end ==
  /\ pc = "search" /\ i >= NDV
  /\ pc' = "idle"
  /\ UNCHANGED <<cv, found, settings, block, twins, steps, search>>

TwinBlock(d) == [w \in 0 .. Steps - 1 |-> Xor(block_W[w], message_mask[d][w])]

quiet_step == test_state[i]
Quiet      == block_state[need_state[quiet_step]]

(* Compress the twin block from the state s that it has after q words.     *)
sha1_recompress_at(q, s) ==
  /\ twin_in' = s /\ twin_out' = s
  /\ twin' = [p \in 0 .. Steps |-> s]
  /\ t' = q /\ pc' = "back"

recompress ==
  /\ pc = "search" /\ i < NDV /\ i \in dvs
  /\ twin_W' = TwinBlock(i)
  /\ sha1_recompress_at(quiet_step, Quiet)
  /\ UNCHANGED <<cv, found, settings, block, state, again, search>>

back_step ==
  /\ pc = "back" /\ t > 0
  /\ twin_in' = sha1_step_bw(twin_in, twin_W[t - 1], t - 1) /\ t' = t - 1
  /\ twin' = [twin EXCEPT ![t - 1] = twin_in']
  /\ UNCHANGED <<cv, found, settings, block, twin_out, twin_W, pc, state, again, search>>

back_end ==
  /\ pc = "back" /\ t = 0
  /\ t' = quiet_step /\ pc' = "forth"
  /\ UNCHANGED <<cv, found, settings, block, twins, state, again, search>>

forth_step ==
  /\ pc = "forth" /\ t < Steps
  /\ twin_out' = sha1_step(twin_out, twin_W[t], t) /\ t' = t + 1
  /\ twin' = [twin EXCEPT ![t + 1] = twin_out']
  /\ UNCHANGED <<cv, found, settings, block, twin_in, twin_W, pc, state, again, search>>

forth_end ==
  /\ pc = "forth" /\ t >= Steps
  /\ twin_out' = FeedForward(twin_out, twin_in)
  /\ pc' = "compare"
  /\ UNCHANGED <<cv, found, settings, block, twin_in, twin_W, twin, steps, search>>

(* The two memcmps. *)
Hit_reduced_always == twin_out = cv \/ twin_in = block_in
Hit == twin_out = cv \/ (reduced_round_coll /\ twin_in = block_in)

(* Having found a twin, hash the block again, or return. *)
Finish_hashes_once ==
  IF do_safe_hash
  THEN pc' = "rehash" /\ state' = cv /\ t' = 0 /\ again' = 1
  ELSE pc' = "idle" /\ UNCHANGED steps

Finish ==
  IF do_safe_hash
  THEN pc' = "rehash" /\ state' = cv /\ t' = 0 /\ again' = 2
  ELSE pc' = "idle" /\ UNCHANGED steps

compare_hit ==
  /\ pc = "compare" /\ Hit
  /\ found_collision' = TRUE
  /\ reports' = Append(reports, [number |-> Len(given), vector |-> i,
                                 reduced |-> reduced_round_coll,
                                 block_in |-> block_in, block_W |-> block_W,
                                 twin_in |-> twin_in, twin_W |-> twin_W,
                                 run |-> run, twin |-> twin])
  /\ IF collision
     THEN /\ calls' = Append(calls, [number |-> Len(given), vector |-> i])
          /\ pc' = "handler" /\ UNCHANGED steps
     ELSE Finish /\ UNCHANGED calls
  /\ UNCHANGED <<cv, settings, block, twins, search>>

handler_returns ==
  /\ pc = "handler"
  /\ Finish
  /\ UNCHANGED <<cv, found, settings, block, twins, search>>

compare_miss ==
  /\ pc = "compare" /\ ~Hit
  /\ i' = NextVector /\ pc' = "search"
  /\ UNCHANGED <<cv, found, settings, block, twins, steps, dvs>>

-------------------------------------------------------------------------------
(* sha1_add_block, of the block as it has been expanded, two times. *)

rehash_step ==
  /\ pc = "rehash" /\ t < Steps
  /\ state' = sha1_step(state, block_W[t], t) /\ t' = t + 1
  /\ UNCHANGED <<cv, found, settings, block, twins, pc, again, search>>

rehash_end ==
  /\ pc = "rehash" /\ t >= Steps
  /\ cv' = FeedForward(cv, state)
  /\ again' = again - 1
  /\ IF again' > 0
     THEN state' = cv' /\ t' = 0 /\ UNCHANGED pc
     ELSE pc' = "idle" /\ UNCHANGED <<t, state>>
  /\ UNCHANGED <<found, settings, block, twins, search>>

-------------------------------------------------------------------------------
(* The client calls setters, as many as it takes to get to the settings s. *)
configure(s) ==
  /\ pc \in {"idle", "handler"}
  /\ do_safe_hash' = s.safe /\ detect_coll' = s.detect /\ ubc_check' = s.ubc
  /\ reduced_round_coll' = s.reduced /\ collision' = s.collision
  /\ UNCHANGED <<cv, found, block, twins, pc, steps, search>>

(* The scratch space of a context is not initialised. *)
Init ==
  /\ cv = IV /\ found_collision = FALSE
  /\ do_safe_hash = DO_SAFE_HASH_DEFAULT /\ detect_coll = TRUE
  /\ ubc_check = TRUE /\ reduced_round_coll = FALSE /\ collision = FALSE
  /\ block_in = cv /\ twin_in = cv /\ twin_out = cv
  /\ block_W = [w \in 0 .. Steps - 1 |-> 0] /\ twin_W = block_W
  /\ block_state = [slot \in Slots |-> cv]
  /\ pc = "idle" /\ t = 0 /\ state = cv /\ again = 0 /\ dvs = {} /\ i = 0
  /\ run = [q \in 0 .. Steps |-> cv] /\ twin = run
  /\ reports = <<>> /\ calls = <<>> /\ given = <<>>

Client ==
  \/ \E b \in Blocks : process(b)
  \/ \E s \in Settings : configure(s)

Library ==
  \/ compress_step \/ compress_end
  \/ search_skip \/ search_end
  \/ recompress \/ back_step \/ back_end \/ forth_step \/ forth_end
  \/ compare_hit \/ handler_returns \/ compare_miss
  \/ rehash_step \/ rehash_end

Next == Client \/ Library

Spec == Init /\ [][Next]_vars

(* Once called, process runs to its end; handlers return. *)
FairSpec == Spec /\ WF_vars(Library)

-------------------------------------------------------------------------------
(* Properties. *)

(* r takes the compressor over words p to q - 1 of W. *)
Stepped(r, W, p, q) == \A k \in p .. q - 1 : r[k + 1] = sha1_step(r[k], W[k], k)

Runs(W) == {r \in [0 .. Steps -> State] : Stepped(r, W, 0, Steps)}

Call   == [number : Nat, vector : DV]
Report == [number : Nat, vector : DV, reduced : BOOLEAN, block_in : State, block_W : Expanded,
           twin_in : State, twin_W : Expanded,
           run : [0 .. Steps -> State], twin : [0 .. Steps -> State]]

(***************************************************************************)
(* Type correctness.                                                       *)
(***************************************************************************)
TypeOK ==
  /\ cv \in State /\ block_in \in State /\ state \in State
  /\ twin_in \in State /\ twin_out \in State
  /\ block_W \in Expanded /\ (pc # "idle" => block_W \in Blocks)
  /\ twin_W \in Expanded
  /\ block_state \in [Slots -> State]
  /\ found_collision \in BOOLEAN /\ do_safe_hash \in BOOLEAN
  /\ detect_coll \in BOOLEAN /\ ubc_check \in BOOLEAN
  /\ reduced_round_coll \in BOOLEAN /\ collision \in BOOLEAN
  /\ pc \in {"idle", "compress", "search", "back", "forth", "compare", "handler",
             "rehash"}
  /\ t \in 0 .. Steps /\ again \in 0 .. 2 /\ (pc = "rehash" => again # 0)
  /\ dvs \subseteq DV /\ i \in 0 .. NDV
  /\ run \in [0 .. Steps -> State] /\ twin \in [0 .. Steps -> State]
  /\ reports \in Seq(Report) /\ calls \in Seq(Call) /\ given \in Seq(Blocks)

(***************************************************************************)
(* The block takes the compressor from its chaining value through run; and *)
(* the slot of each needed state holds the one that this block, and not an *)
(* earlier one, took it to, from then on until all twins have been tried.  *)
(***************************************************************************)
SavedStatesAreThisBlocks ==
  /\ pc = "compress" =>
       /\ cv = block_in /\ run[0] = block_in /\ state = run[t]
       /\ Stepped(run, block_W, 0, t)
       /\ \A q \in 0 .. t - 1 :
            need_state[q] # -1 => block_state[need_state[q]] = run[q]
  /\ pc \notin {"idle", "compress"} =>
       /\ run[0] = block_in /\ run \in Runs(block_W)
       /\ \A q \in 0 .. Steps :
            need_state[q] # -1 => block_state[need_state[q]] = run[q]
       /\ pc # "rehash" => cv = FeedForward(block_in, run[Steps])

(***************************************************************************)
(* Recompression, backwards and forwards from the middle, is compression:  *)
(* the twin block, compressed from twin_in, goes through the very state    *)
(* the block was in at the quiet step and ends in twin_out.                *)
(***************************************************************************)
RecompressionIsCompression ==
  /\ pc \in {"back", "forth", "compare"} =>
       i \in DV /\ twin_W = TwinBlock(i) /\ twin[quiet_step] = run[quiet_step]
  /\ pc = "back" =>
       /\ t <= quiet_step /\ Stepped(twin, twin_W, t, quiet_step)
       /\ twin_in = twin[t] /\ twin_out = run[quiet_step]
  /\ pc = "forth" =>
       /\ t >= quiet_step /\ Stepped(twin, twin_W, 0, t)
       /\ twin_in = twin[0] /\ twin_out = twin[t]
  /\ pc = "compare" =>
       /\ twin_in = twin[0] /\ twin \in Runs(twin_W)
       /\ twin_out = FeedForward(twin_in, twin[Steps])

(***************************************************************************)
(* Whatever is reported is real: another block, which is the expansion of  *)
(* sixteen words of a message, and a chaining value to compress it from,   *)
(* such that both end in the same chaining value, or start from the same   *)
(* one if such collisions were asked for.                                  *)
(***************************************************************************)
IsCollision(r) ==
  /\ r.run \in Runs(r.block_W) /\ r.run[0] = r.block_in
  /\ r.twin \in Runs(r.twin_W) /\ r.twin[0] = r.twin_in
  /\ r.twin_W # r.block_W /\ IsExpansion(r.twin_W)
  /\ \/ FeedForward(r.twin_in, r.twin[Steps]) = FeedForward(r.block_in, r.run[Steps])
     \/ (r.reduced /\ r.twin_in = r.block_in)

ReportsAreCollisions == \A k \in 1 .. Len(reports) : IsCollision(reports[k])

(* The inductive invariant. *)
SearchInv ==
  TypeOK /\ SavedStatesAreThisBlocks /\ RecompressionIsCompression /\ ReportsAreCollisions

(***************************************************************************)
(* Every call returns.                                                     *)
(***************************************************************************)
ProcessReturns == (pc # "idle") ~> (pc = "idle")
===============================================================================
