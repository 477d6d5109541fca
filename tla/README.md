# A verification development for libsha1detectcoll

This directory specifies, model-checks and proves properties of the SHA-1
collision-detection library in `lib/` and of the command-line program in
`src/main.c`. Paths below are relative to the repository. `PROJECT.json` lists
components, runs, the mutants that each property catches, the source lines of
each definition, hazards, findings and theorems.

## 1. The system

`libsha1detectcoll` hashes a message with SHA-1 and looks at each 64-byte block
for signs that it is one half of a collision (counter-cryptanalysis): for each of
32 *disturbance vectors* it builds the *twin block* the vector prescribes, and
*recompresses* it, from a state in the middle of the compressor that a collision
would share, backwards to the chaining value the twin would have started from and
forwards to the one it would end in. If the twin ends where the block ended, the
block is reported and, in safe-hash mode, hashed two extra times. *Unavoidable bit
conditions* rule out most vectors for most blocks beforehand.

| component | code | state | operations |
|---|---|---|---|
| streaming interface | `lib/common.c`, `include/sha1.h`, `lib/sha1_private.h` | `struct sha1dc_ctx`: a partial block, the chaining value, a byte counter, settings, the handler, the verdict | `sha1dc_init`, five setters, `sha1dc_ingest`, `sha1dc_finish` |
| block processor | `process` in `lib/sha1.c` | the context's scratch space: expanded block and twin, three chaining values, saved states | compress, search the vectors, report, rehash |
| compression | `sha1_add_block_expanding*` | two versions: portable, SHA extensions; an unused reference | expand, step, save the needed states |
| bit conditions | `lib/ubc_check.c` | two versions: baseline, AVX-512 | `ubc_check` |
| dvmask helpers | `lib/core.h`, `lib/dv.c` | none | `dvmask_bytes`, `check_dvmask` |
| bits and byte order | `lib/bits.h` | loop counters | rotations, big-endian loads and stores |
| vector wrappers | `lib/x86.h` | none | wrappers around instructions |
| generated tables | `lib/parse_bitrel.inc` | constants | vectors, conditions, slots of the needed states |
| program | `src/main.c` | one context and one buffer for all files, two error flags | open, read, close, print, exit |
| glue, build, tests | `lib/private.h`, `Makefile`, `run`, `test/` | none | none |

**Interaction.** The program (or any client) owns a context and calls the
streaming interface. `sha1dc_ingest` calls `process` for every complete block,
in place when it can and from `ctx->buffer` otherwise; `sha1dc_finish` calls
`sha1dc_ingest` twice. `process` calls a compression and a condition check that
the dynamic linker chose for the machine, then recompression, then the client's
handler. Everything is synchronous and single-threaded; nothing is persisted. What
makes the code hard is not concurrency but state that lives across calls (a
buffer that is never cleared, scratch space that outlives a block, a context used
for message after message), counters at their limits, two implementations that
must agree, loops that leave in their middle, and a client that may call in any
order, with chunks of any length, and change settings between them or while its
handler runs.

**What makes each part correct.** Streaming: the blocks are exactly the padded
message, however it arrives. Block processor: reports are exactly the collisions
the vectors admit; the chaining value is SHA-1's, or that of three compressions if
a block was reported and safe-hash mode is on. Compression: SHA-1, and the states
recompression needs. Bit conditions: the mask has the vectors whose conditions
all hold, in both versions. Program: a line is for the whole content of its file
and of no other, and the exit status tells what failed.

`PROJECT.json` lists 38 hazards at the lines where they bite; each has properties.

## 2. The modules

| module | models | extends |
|---|---|---|
| `Sha1Params` | the constants of the streaming layer, the padding rule and plain SHA-1 as the standard states them | |
| `SafeSha1` | **abstract**: a stream absorbed block by block, reports and verdict | `Sha1Params` |
| `Sha1dc` | `lib/common.c` with `process` in four steps; refines `SafeSha1` | `Sha1Params`, `INSTANCE SafeSha1` |
| `Sha1Core` | the step of the compressor, both ways, expansion, feed-forward | |
| `Process` | `process`, step by step of the compressor | `Sha1Core` |
| `SafeProcess` | the reference definitions of twin and compression by which `Process` refines `SafeSha1` | `Process`, `INSTANCE SafeSha1` |
| `AddBlock` | both versions of the compression that saves states, and the plain one | `Sha1Core` |
| `UbcCheck` | both versions of the bit conditions, and `check_dvmask` | |
| `BitConditions` | the tables of conditions, in both forms | |
| `DisturbanceVectors` | the table of vectors, and the needed states | |
| `Sha1Bits`, `Sha1Words` | rotations and round functions, `&`, `\|` and `^` on numbers below 2^`WordBits`; byte-order loops | |
| `Sha1dcsum` | the program | |
| `MC*` | small instances for TLC | |
| `Sha1Arith`, `Sha1CoreProofs` | lemmas: arithmetic, induction, the compressor | |
| `Sha1dcProofs`, `ProcessProofs`, `AddBlockProofs`, `UbcCheckProofs`, `Sha1dcsumProofs`, `Sha1WordsProofs` | theorems about the module named | that module |

How state and actions correspond to the code:

- **`Sha1dc`.** The variables of the first group are the fields of `struct
  sha1dc_ctx` under their names (`block_W` stands for the block: its expansion is
  a function of it). The second group are the locals of the calls in progress, and
  `pc` says where the library is: `idle` (the client's turn), `fill` and `loop`
  (the two places of `sha1dc_ingest`), `finish_length` and `finish_output` (what
  `sha1dc_finish` does after each of its two ingests), `process` and `test`
  (`process` before and inside its loop), `handler` (the client's handler has been
  called and has not returned: its turn to call setters). Each call of the header is an action;
  each loop iteration is an action. Sizes (block, length field, width of the
  counter, of `uint8_t`) are constants. The third group are history variables
  that only properties read. The compression function, the outcome of a
  recompression and the bit conditions are constant operators here; `Process`,
  `AddBlock` and `UbcCheck` are where they are looked into.
- **`Process`.** One action per iteration of each loop: `compress_step`,
  `search_skip`, `back_step`, `forth_step`, `rehash_step`, and one for what lies
  between loops. `run` and `twin` are histories of the states the block and its
  twin go through, `reports` and `calls` of what was found and of the calls of the handler. `configure` stands for any calls of setters, between blocks or
  by the handler. `sha1dc_need_state`, the masks and the quiet steps are constants;
  `DisturbanceVectors` has the program's, and checks of them (`ProgramVectors`,
  `ProgramNeeds`) what the assumptions ask for: each mask is the expansion of 16
  words and not zero, each quiet state has a slot, slots are in order, no needed
  state is one that the SHA-extension version cannot save.
- **`AddBlock`.** `portable_step` is one round of the portable loop, `plain_step`
  one of `sha1_add_block_expanding`.
  `x86v2sha_steps` is one round of the other, four steps, instruction by
  instruction; the instructions are external and modelled by their documentation.
  The uninitialised locals start with arbitrary values, and `Wn1_p2[0]`, which the
  code never assigns, keeps its own.
- **`UbcCheck`.** A word is a function from bit numbers to BOOLEAN, a mask is the
  set of its bits. The baseline takes a condition per step; the vector version
  evaluates 64 per step and accumulates them in chunks of 16. Each reads its own
  tables; `VectorTableAssumption` says that they hold the same conditions, and TLC
  evaluates it on the program's (`BitConditions`). With unrolled loops `impossible`
  starts with an arbitrary value, as in the code.
- **`Sha1dcsum`.** The C library is external and every call of it may fail.
  `stdin` is shared by all `-` arguments: closed after the first, or left where it
  was with its error flag set. Reading a closed stream is undefined; the model lets
  it yield nothing, with or without an error. Output that is lost (`lost`), now or when
  the buffer of `stdout` is written at exit, is noted by nobody.

## 3. The runs

| run | module | bounds | shows |
|---|---|---|---|
| `chunks` | `MCSha1dc` | blocks of 4 bytes, 2-byte length, messages of up to 9 of two byte values in every cut, 3 vectors | every byte reaches `process` once and in order, copies stay in bounds, padding is SHA-1's, and the hash is SHA-1 when nothing was found |
| `calls` | same | up to 5 bytes, all setters, from the handler too | refinement of `SafeSha1`; a block is reported once; calls return |
| `reuse` | same | counter modulo 8, three messages of up to 12 bytes in one context, setters between and inside them, aligned copies | counter and length past their wrap; no setting, handler, count or verdict leaks into the next message |
| `process` | `MCProcess` | 2 blocks, 20 steps (five to a round), 3-bit words, 4 vectors, 4 settings, changed between blocks and by the handler | refinement of `SafeSha1`: verdict, reports and chaining value are exact; recompression is compression |
| `addblock` | `MCAddBlock` | all 80 steps, 3-bit words, 6 inputs, 61 slots | all versions are SHA-1; two save the same states |
| `conditions` | `MCUbcCheck` | the program's tables, unrolled | both versions give the mask the conditions define |
| `conditions_tail` | same | 12 vectors, 100 conditions, not unrolled | a mask shorter than a word, with spare bits; the zeroed accumulator |
| `words` | `MCSha1Words` | all 4-bit words, 1-bit bytes | byte order, rotations, round functions |
| `files` | `MCSha1dcsum` | 0 to 3 arguments of three names, four contents, buffer of 2 | lines, status, streams, termination |
| `arguments`, `each`, `written` | `MCSha1dc`, `MCSha1dcsum` | | the three findings (section 7) |

**Why the bounds are enough.** A message of 9 bytes in blocks of 4 has two
complete blocks and a rest, and chunks of 0 to 9 bytes: every way in which a chunk
can end before, on or after a boundary occurs from every fill of the buffer, and
both cases of the padding do. `reuse` counts modulo 8, two blocks, so that counter and
length wrap inside a message; lengths of 8 to 12 leave every rest past the wrap. It
calls every setter but `sha1dc_set_use_ubc`, which `SafeSha1` does not have: the bit
conditions only save work. The three vectors of `MCSha1dc` are a full collision,
one that is full or reduced, and a false positive, alone and together. The masks
of `MCProcess` were searched for, so that a block really collides with its twins of
two vectors and another has none; arbitrary masks hardly ever give a collision. Twenty
steps are four more than a block has words, so that words are expanded, and the rounds,
of five steps, all occur in each direction. `addblock` needs
no small number of steps since the loops have no choice in them. The messages of
`MCUbcCheck` were solved for against the program's tables: some meet every condition of
given vectors, some rule out all of them by condition 64, some only later, so the
early return, the skipped conditions and the padding of the last vector occur. Byte loops are counted modulo 8 for words of 4 bits as
they are modulo 256 for words of 32 and 64.

**Fairness.** `Sha1dc` assumes weak fairness of the library's own steps only: a
call that has begun is executed and waits for nothing but its handler, and handlers
return (`handler_returns` is a step of the library); clients may stop at any time.
`Process` likewise once `process` is called. `Sha1dcsum` assumes that the program runs and that no call of the C library blocks
for ever (reading a terminal that never ends is outside the model: files are
finite). Runs say `CHECK_DEADLOCK FALSE` because clients may stop, bounds end,
and functions return.

## 4. The refinements

`SafeSha1` is what the header promises: a stream is absorbed block by block; a
block that any of **all** the vectors gives away is reported, for the first such
vector; while the handler is told, settings may change; and only then is it asked
whether a safe hash is wanted. It has no buffer, no chunks inside a block, no
candidates, no saved states and no search. Two modules implement it:

- `Sha1dc!ImplementsSafeSha1` (runs `calls`, `reuse`). A block is absorbed when
  `process` is done with it, so the mapping shows `block_in` as the chaining value
  while the search is on, and `told` is `pc = "handler"`.
- `SafeProcess!ProcessImplementsSafeSha1` (run `process`). Here `Compress`, `TwinIn` and
  `TwinOut`, constants of `SafeSha1`, are given definitions that only step
  forwards: the twin's chaining value is found by searching for the states from
  which the twin's words lead to the quiet state (`Origins`). The refinement therefore
  says that backward recompression from the saved state gives exactly what those
  definitions ask for, and that a miss means there is no collision. A block is
  absorbed when `process` returns; the stream is made of words, sixteen to a block,
  and offsets, which `process` is handed by its caller, are counted in words.

Together they justify `Sha1dc` taking a block in four steps with constant
operators for what happens inside. The bit conditions only remove work because
of `UbcAssumption`: a vector that gives a block away is among those its conditions
leave. That is the cryptanalytic claim behind the library (`README.md`: top 32
vectors); it is assumed, not derived from the tables. `SafeProcess`, where blocks and
compression are not constants, makes it `CandidatesAssumption`, of the blocks there are
and of the chaining values that a sequence of them can lead to (`ChainingValues`), each
hashed once or three times: the claim for every chaining value would ask for more than
the run or the code needs.

## 5. What is proved

Theorems are about every value of the constants that meets the named
assumptions; TLC evaluates these assumptions in the runs.

- **Streaming layer** (`Sha1dcProofs`, with arithmetic in `Sha1Arith`).
  `StreamInvariant`: `StreamInv` is inductive. It is the conjunction of `TypeOK`,
  `CopiesInBounds`, `CallShape` (which calls and locals are alive at each `pc`),
  `StreamAccounted` (bytes processed, in flight, held, left of the caller's array
  and still to come as padding are, in order, the stream, and the counter agrees
  modulo its width) and `BlockIsNextOfStream`. `StreamAccounted` is the
  strengthening: the other invariants cannot be carried over a call
  without knowing where the rest of the stream is. From it: `TypeCorrect`,
  `CopiesStayInBounds`, `BlocksAreInOrder`, `EveryByteIsAccountedFor`,
  `NothingIsLost`, and `FinishHashesPadded`. The lemma
  `PaddingSize` shows that the code's modular arithmetic on `uint64_t` and
  `uint8_t` is the standard's padding rule. Assumptions: a block divides the counter's
  modulus, a block's size fits the narrow type, the length field has the bytes
  the code gives it.
- **Refinement** (`Sha1dcProofs`, second part). `Implementation`: `Spec => ImplementsSafeSha1`.
  Each action is mapped to the step of `SafeSha1` it is, or to none; `StreamInv` says that
  the block absorbed is the right one, and `SearchState` what the search has
  established: no vector before the current one, and none that the bit conditions
  left out, gives the block away. The latter is `UbcAssumption`; an early return of
  `process` is a step of `SafeSha1` only because of it. `ReportsAreInOrder`
  is `EachBlockReportedOnce` by the invariant `LogInv`, assuming `NoWrap`: the message
  and its padding are shorter than the counter's modulus (2^64 in the code). Beyond it
  the offsets start again, and the property is false. `SafeHashIsSha1` is
  `SafeHashIsSha1WithoutCollision`, for messages of any length: `HashInv` says that
  while nothing is found the chaining value absorbed is one that a chain of plain
  compressions of the stream's blocks reaches, each step of `SafeSha1` makes the
  chain longer by one block or leaves it, and `ReachesSha1` that such a chain can only
  end where the recursive definition of SHA-1 (`Sha1Params!SHA1`) does.
- **Induction** (`Sha1Arith`). What a recursive function computes is reached from
  the library's `WFMin` (a well-founded relation has minimal elements), which takes
  no operator as a parameter: `LeastNumber`, then `Induction` and
  `IntervalInduction` over a set of numbers, and `Recursion`, that a function defined
  by `f[0]` and `f[n + 1]` satisfies its definition; `NatRecursion` is the same for a
  function on all numbers. They serve `SHA1`, the states of the compressor
  (`StatesFromAreUnique`), powers of two and the theorems that cite them.
- **Words** (`Sha1WordsProofs`). A word of `Sha1Bits` is a number, and `>>`, `<<`, `&`,
  `|`, `^` and `~` are what C does to it. The lemmas turn numbers into bits: powers of
  two and nested division say which bits a shift, a remainder and a sum of words have
  (`ShiftLeftBits`, `LowBits`, `HighBits`), `WordOfBits` that any choice of bits is a
  word, `BitsTell` that words with the same bits are the same. From them, for every width:
  `RotationsAreRotations`; `RoundFunctionsAreRight`; and by `LoopInvariant` (what the two
  loops have stored and loaded after each turn, `Stored` and `Loaded`),
  `ByteLoopsStayInBounds` and `WordsAreStoredBigEndian`. Assumptions: bytes divide a word
  and the loops' counter reaches past the last bit (`BytesAssumption`: 8, 32 or 64, and
  256 in the code). Three more theorems say of these operations what `Sha1Core` assumes of
  its constants: `WordsStayWords` is `WordAssumption`, `RotationsUndoEachOther` is
  `RotateAssumption` and `ExpansionIsLinear` is `XorAssumption`, for a compressor of
  80 steps. So what is proved of `Process` and `AddBlock` rests on no assumption
  about words that the code's words have not been shown to meet.
- **Block processor** (`ProcessProofs`, `Sha1CoreProofs`). The lemmas show that
  `sha1_step` and `sha1_step_bw` undo each other. `SearchInvariant`: `SearchInv`
  is inductive: slots hold this block's states (`SlotsAreCurrent`), recompression
  from the middle is a compression of the twin (`RecompressionIsRight`), and
  hence what is reported is a collision (`NoFalseAlarm`): two different blocks, both
  expansions of 16 words (`TwinBlockIsExpansion`: expansion is linear), and the
  chaining values. `TypeCorrect` comes with it. None of this depends on
  when settings change. Assumptions: each needed state has a slot of its own, no mask
  is all zeros, each is an expansion, rotations are permutations and distribute
  over XOR, which is commutative and associative (`XorAssumption`).
- **Refinement by the block processor** (`ProcessProofs`, second part). `ProcessIsSafe`:
  `Spec => ProcessImplementsSafeSha1`, with `CandidatesAssumption` besides those above.
  On top of `SearchInv` it needs `SafeInv`, which relates what is going on to what
  `SafeSha1` says of the block: `BlockInv` (which block is being processed, from a chaining
  value that may be reached; calls of the handler are for this block or earlier ones),
  `TriedInv` (no candidate before the current one gives the block away) and `FoundInv`
  (a block is hashed again only if it was given away under the settings it was tried with,
  which its handler may have changed since; and `cv` is that of one or two compressions).
  Three lemmas carry it. `OriginIsStart`: of all states, the one that `sha1_step_bw` works
  out is the only one from which the twin's words lead to the quiet state, so
  `TwinIsFound`: recompression computes the twin that `SafeSha1` speaks of.
  `HitIsGivenAway`: the comparison the code makes then is the question whether the vector
  gives the block away, either way, so a miss is no collision. `GivenAwayIsCandidate`:
  leaving out vectors misses nothing. Each action has a lemma that says which step of
  `SafeSha1` it is, or that it is none; `HitIsReportOrAbsorb`
  is the hard one, where the report, the call of the handler, the return without a rehash
  and its beginning all happen.
- **Compression** (`AddBlockProofs`). The invariant is a conjunction of six:
  `TypeOK`; `RunInv` (the words written are right, and `run` steps over them);
  `StateInv` and `GroupInv` (the state a version holds, in its own representation,
  is the last of `run`; the vectors of the SHA-extension version hold the sixteen
  words that the next four depend on); `SlotInv` (the slots handed out are those of the
  states passed); `SavedInv`. The hard step is `x86v2sha_steps`: `sha1msg1`,
  `sha1msg2` and XORs in another order are four expansions, `sha1rnds4` is four steps, and
  the states it did not stop at are those that `Forth` and `Back` work out,
  the latter because `sha1_step_bw` undoes `sha1_step`. From it: `AddBlockTypes`,
  `AddBlockComputesSha1`, `AddBlockIsCompression` (against the recursive
  `sha1_add_block` that `Process` is specified by), `AddBlockSavesStates` and
  `AddBlockMeetsSlotsInTurn`. Assumptions: 16 steps or more in groups of four, and no
  round that ends inside a group (`RoundAssumption`: the code divides `i` by 20 for all
  four, and 80 steps in rounds of 20 satisfy it); slots are numbered in the order of
  the states and all used, and no needed state t has t % 4 = 3 (`NeedAssumption`,
  `NeedsNoThird`: true of the program's table, `DisturbanceVectors!ProgramNeeds`).
- **Bit conditions** (`UbcCheckProofs`). `UbcInvariant`: `Progress` (what each
  version has kept after n conditions is what n conditions leave), with bounds
  on the counters and the fact that spare bits of a mask stay set. From it:
  `TypeCorrect`, `NothingRuledOutWrongly`, `VersionsAgree`
  (both versions leave exactly the vectors all of whose conditions hold, so
  they agree), `SearchIsNeeded`, for any number of vectors up to 32. Assumptions: the
  table's words lie in the 32 the vector version loads, masks fit a word, the
  vector tables hold the same conditions.
- **Program** (`Sha1dcsumProofs`). The invariant says of `stdin` that it is closed once
  an argument that names it was read to its end, and further on than its start only
  with its error flag set (`StdinInv`); of the loop of reads that the context has what was
  read of the current stream, up to its end if there was no error (`ReadInv`); that
  the lines are those of the streams closed, in order (`LineInv`); and how the two flags
  and the history correspond (`ErrorInv`). From it: `SumTypes`, `SumsAreOfWholeFiles`,
  `SumsContextIsFresh`, `SumsStatusTells`, `SumLeavesUnreadableOpen`, `SumClosesStdinOnce`, for any command
  line, contents, size of the buffer and failures. The only assumption is on types.

## 6. What is only model-checked

- Liveness (`CallsReturn`, `ProcessReturns`, `Terminates`): out of the prover's reach.
  Every safety and action property that a passing run checks is a theorem.
- The facts about the tables that the proofs assume of constants: TLC evaluates
  them on the program's tables (`ProgramVectors`, `ProgramNeeds`, `VectorTableAssumption`).

## 7. Findings

1. **The handler's arguments are in another order than declared.** `lib/sha1.c:387-389`
   passes `block_in, twin_in, block_W, twin_W`; `include/sha1.h:46-57` declares
   `block_W, twin_W, block_in, twin_in`. All four decay to `const uint32_t *`, so
   the compiler is silent; a handler that reads 80 words through its first array
   parameter reads past the 5 it was given. Run `arguments`.
2. **One file that cannot be opened ends the program** (`src/main.c:52`), though
   `README.md:74-77` promises a hash of each file, and read errors do
   not end it. Run `each`.
3. **Lost output goes unnoticed** (`src/main.c:75-81`): the results of `printf`,
   `fputs` and `puts` are ignored and `stdout` is not checked before the program
   returns 0, while `README.md:74-75` calls it a drop-in replacement for `sha1sum`.
   Run `written`.

Noted while modelling, with no run:

- `include/sha1.h:105` declares `sha1dc_set_safe_hash_mode`; `lib/common.c:34`
  defines `sha1dc_set_do_safe_hash`. `include/sha1.h:103` names
  `SHA1DC_INIT_SAFE_HASH_DEFAULT`; `lib/common.c:15` reads `DO_SAFE_HASH_DEFAULT`.
- The SHA-extension version never assigns `Wn1_p2[0]` (`lib/sha1.c:190-192`) and would
  save a garbage state for any needed state t with t % 4 = 3 (`:202`). The table
  needs 58 and 65 only; `AddBlock!NeedsNoThird` states the dependency.
- With a number of vectors that is no multiple of 8, spare mask bits stay set and
  the early exits never happen (`SearchIffVectorsLeft` states it). Costs time only;
  the program has 32 vectors.
- A second `-` on the command line reads a closed `stdin` and closes it again
  (`src/main.c:50-65`), which C leaves undefined. `Sha1dcsum!ClosedStdinIsNamedAgain`
  shows that nothing else leads there; what the C library does then is outside the model,
  which lets the read yield nothing.
- `sha1dc_init` does not reset `collision_closure`; it is never read without a handler.

## 8. What is not modelled

- A handler that calls `sha1dc_init`, `sha1dc_ingest` or `sha1dc_finish` on the
  context it is called for (`lib/sha1.c:386-391`). Nothing forbids it, and nothing is
  promised of it: `process` would go on with the inner call's block.
- Whether the bit conditions are truly unavoidable and the vectors well chosen:
  cryptanalysis done in another repository. The tables themselves are modelled.
- ABI aliases, alignment, CPUID tests, inline assembly, messages to stderr, build
  rules, test data.
- Two threads using one context: the interface makes no provision for it.

## 9. Plan

Written in this order, most important first: `Sha1Params`, `SafeSha1`, `Sha1dc`
and its proofs; `UbcCheck` and its proofs; `Sha1dcsum`; `Sha1Bits`, `Sha1Words`;
`Sha1Core`, `AddBlock`; `Process` and its proofs; then the handler that calls
setters, `SafeProcess`, `BitConditions`, `DisturbanceVectors`; the refinement in
`Sha1dcProofs`; `AddBlockProofs`, `Sha1dcsumProofs` and the refinement in `ProcessProofs`;
`Sha1WordsProofs`. Both refinements, every safety property that a passing run checks and
the assumptions of `Sha1Core` are now theorems. Left: deriving the assumptions of
`AddBlockProofs` and `ProcessProofs` on needed states from the way they are generated,
for any table of vectors, and a proof of termination, for which the provers would
have to support fairness.
