-------------------------------- MODULE Sha1dc --------------------------------
(***************************************************************************)
(* One `struct sha1dc_ctx' and the calls on it: the streaming interface of *)
(* lib/common.c (init, the setters, ingest, finish) and, inside ingest,    *)
(* the block processor of lib/sha1.c (`process').  A call is a sequence of *)
(* steps, one for each iteration of a loop of the code: pc says where the  *)
(* library is, "idle" that it is the client's turn, and "handler" that it  *)
(* is its collision handler's, which may change the context's settings.    *)
(***************************************************************************)
EXTENDS Sha1Params

CONSTANTS
  Chunks,     \* the byte sequences the client may ingest at once
  Handlers,   \* the collision handlers it may install
  Closures,   \* the closures it may install them with
  NoHandler,  \* nullptr
  NoResult,   \* what is in its output array before the first result
  DO_SAFE_HASH_DEFAULT,    \* a compile-time setting of lib/common.c
  ALLOW_UNALIGNED_ACCESS,  \* a compile-time setting of lib/bits.h
  MaxMessage,  \* bound: the bytes of a message
  MaxMessages, \* bound: the messages hashed with one context
  Setters      \* bound: the setters the client uses

ASSUME ClientAssumption ==
  /\ Chunks \subseteq Seq(Byte)
  /\ DO_SAFE_HASH_DEFAULT \in BOOLEAN /\ ALLOW_UNALIGNED_ACCESS \in BOOLEAN

VARIABLES   \* struct sha1dc_ctx
  buffer, cv, bytes,
  found_collision, do_safe_hash, detect_coll, ubc_check, reduced_round_coll,
  collision, collision_closure,
  block_W,    \* the block being processed (its expansion adds nothing)
  block_in

VARIABLES   \* locals of the calls in progress
  pc,
  ret,        \* where sha1dc_ingest returns to
  buf, off,   \* its argument, and how far `buf += ...' has moved into it
  n, held,
  bits,       \* of sha1dc_finish
  dvs, i      \* of process: the candidate vectors and the one looked at

VARIABLES   \* history
  msg,        \* the message so far
  phase,      \* "open", then "padded" during finish, then "finished"
  done,       \* how many bytes of the stream have been processed
  log,        \* the calls of the handler
  output,     \* what finish last handed out
  messages    \* how many messages have been started

ctx     == <<buffer, cv, bytes, found_collision, do_safe_hash, detect_coll,
             ubc_check, reduced_round_coll, collision, collision_closure,
             block_W, block_in>>
call    == <<pc, ret, buf, off, n, held, bits>>
search  == <<dvs, i>>
history == <<msg, phase, done, log, output, messages>>
vars    == <<ctx, call, search, history>>

config  == <<do_safe_hash, detect_coll, ubc_check, reduced_round_coll,
             collision, collision_closure>>

-------------------------------------------------------------------------------
(* memcpy(dst + at, src + from, k), for arrays that TLA+ counts from 1. *)
Copied_from_start(dst, at, src, from, k) ==
  [j \in DOMAIN dst |->
     IF at < j /\ j <= at + k THEN src[j - at] ELSE dst[j]]

Copied(dst, at, src, from, k) ==
  [j \in DOMAIN dst |->
     IF at < j /\ j <= at + k THEN src[from + j - at] ELSE dst[j]]

(* The room left in ctx->buffer, `need' in the code. *)
Room(h) == B - h

(* k more bytes complete the block of which ctx->buffer holds h. *)
Completes_late(h, k) == h # 0 /\ k > Room(h)
Completes(h, k)      == h # 0 /\ k >= Room(h)

(* x & -sizeof ctx->buffer *)
AlignDown(x) == x - (x % B)

padding_size_forgets_one(b) ==
  ((AlignDown((b + L + B - 1) % M) - b - L) % M) % UCharMod

padding_size(b) ==
  ((AlignDown((b + 1 + L + B - 1) % M) - b - L) % M) % UCharMod

sha1_padding == [k \in 1 .. B |-> IF k = 1 THEN PadByte ELSE 0]

(* Entering sha1dc_ingest: without bytes to add it returns at once. *)
Enter(data, return) ==
  IF Len(data) = 0
  THEN pc' = return /\ UNCHANGED <<ret, buf, off, n, held>>
  ELSE /\ pc' = IF Completes(bytes % B, Len(data)) THEN "fill" ELSE "loop"
       /\ ret' = return
       /\ buf' = data /\ off' = 0 /\ n' = Len(data)
       /\ held' = bytes % B

(* Leaving it: its locals die. *)
Leave ==
  /\ pc' = ret /\ ret' = "idle"
  /\ buf' = <<>> /\ off' = 0 /\ n' = 0 /\ held' = 0

-------------------------------------------------------------------------------
(* The client's calls. *)

DefaultSettings_keeps_handler ==
  /\ do_safe_hash' = DO_SAFE_HASH_DEFAULT
  /\ ubc_check' = TRUE /\ detect_coll' = TRUE /\ reduced_round_coll' = FALSE
  /\ UNCHANGED collision

DefaultSettings ==
  /\ do_safe_hash' = DO_SAFE_HASH_DEFAULT
  /\ ubc_check' = TRUE /\ detect_coll' = TRUE /\ reduced_round_coll' = FALSE
  /\ collision' = NoHandler

NewHash_keeps_verdict == cv' = IV /\ bytes' = 0 /\ UNCHANGED found_collision
NewHash_keeps_bytes   == cv' = IV /\ UNCHANGED bytes /\ found_collision' = FALSE
NewHash               == cv' = IV /\ bytes' = 0 /\ found_collision' = FALSE

sha1dc_init ==
  /\ pc = "idle" /\ messages < MaxMessages
  /\ NewHash
  /\ DefaultSettings
  /\ msg' = <<>> /\ phase' = "open" /\ done' = 0 /\ log' = <<>>
  /\ messages' = messages + 1
  /\ UNCHANGED <<buffer, collision_closure, block_W, block_in>>
  /\ UNCHANGED <<call, search, output>>

(* Nothing keeps a handler from the setters: its closure leads where the   *)
(* client wants.  The other calls from there are left out.                 *)
InClient == pc \in {"idle", "handler"}

SetterReturns ==
  UNCHANGED <<buffer, cv, bytes, found_collision, block_W, block_in,
              call, search, history>>

sha1dc_set_do_safe_hash(v) ==
  /\ InClient /\ "do_safe_hash" \in Setters
  /\ do_safe_hash' = v
  /\ UNCHANGED <<detect_coll, ubc_check, reduced_round_coll,
                 collision, collision_closure>>
  /\ SetterReturns

sha1dc_set_use_ubc(v) ==
  /\ InClient /\ "use_ubc" \in Setters
  /\ ubc_check' = v
  /\ UNCHANGED <<do_safe_hash, detect_coll, reduced_round_coll,
                 collision, collision_closure>>
  /\ SetterReturns

sha1dc_set_detect_coll(v) ==
  /\ InClient /\ "detect_coll" \in Setters
  /\ detect_coll' = v
  /\ UNCHANGED <<do_safe_hash, ubc_check, reduced_round_coll,
                 collision, collision_closure>>
  /\ SetterReturns

sha1dc_set_detect_reduced_round_coll(v) ==
  /\ InClient /\ "detect_reduced_round_coll" \in Setters
  /\ reduced_round_coll' = v
  /\ UNCHANGED <<do_safe_hash, detect_coll, ubc_check,
                 collision, collision_closure>>
  /\ SetterReturns

sha1dc_set_callback(h, c) ==
  /\ InClient /\ "callback" \in Setters
  /\ collision' = h /\ collision_closure' = c
  /\ UNCHANGED <<do_safe_hash, detect_coll, ubc_check, reduced_round_coll>>
  /\ SetterReturns

(* The header asks the client to initialise again after sha1dc_finish. *)
sha1dc_ingest(data) ==
  /\ pc = "idle" /\ phase = "open"
  /\ Len(msg) + Len(data) <= MaxMessage
  /\ Enter(data, "idle")
  /\ msg' = msg \o data
  /\ UNCHANGED <<ctx, bits, search, phase, done, log, output, messages>>

sha1dc_finish ==
  /\ pc = "idle" /\ phase = "open"
  /\ bits' = (BitsPerByte * bytes) % M
  /\ Enter(SubSeq(sha1_padding, 1, padding_size(bytes)), "finish_length")
  /\ phase' = "padded"
  /\ UNCHANGED <<ctx, search, msg, done, log, output, messages>>

finish_length_counts_padding ==
  /\ pc = "finish_length"
  /\ Enter(LengthField((BitsPerByte * bytes) % M), "finish_output")
  /\ UNCHANGED <<ctx, bits, search, history>>

finish_length ==
  /\ pc = "finish_length"
  /\ Enter(LengthField(bits), "finish_output")
  /\ UNCHANGED <<ctx, bits, search, history>>

finish_output ==
  /\ pc = "finish_output"
  /\ output' = [hash |-> Digest(cv), collision |-> found_collision]
  /\ phase' = "finished"
  /\ pc' = "idle" /\ bits' = 0
  /\ UNCHANGED <<ctx, ret, buf, off, n, held, search>>
  /\ UNCHANGED <<msg, done, log, messages>>

-------------------------------------------------------------------------------
(* sha1dc_ingest. *)

(* Complete the block held in ctx->buffer and process it from there; the   *)
(* buffer then holds h bytes.                                              *)
Fill(h) ==
  LET need == Room(held) IN
  /\ pc = "fill"
  /\ bytes' = (bytes + need) % M
  /\ buffer' = Copied(buffer, held, buf, off, need)
  /\ block_W' = buffer'
  /\ off' = off + need /\ n' = n - need /\ held' = h
  /\ pc' = "process"
  /\ UNCHANGED <<cv, found_collision, config, block_in>>
  /\ UNCHANGED <<ret, buf, bits, search, history>>

ingest_fill_keeps_held == Fill(held)
ingest_fill            == Fill(0)

(* Process a whole block: in place, or copied where the target needs it. *)
ingest_block ==
  /\ pc = "loop" /\ n >= B
  /\ bytes' = (bytes + B) % M
  /\ block_W' = [j \in 1 .. B |-> buf[off + j]]
  /\ buffer' = IF ALLOW_UNALIGNED_ACCESS
               THEN buffer ELSE Copied(buffer, 0, buf, off, B)
  /\ off' = off + B /\ n' = n - B
  /\ pc' = "process"
  /\ UNCHANGED <<cv, found_collision, config, block_in>>
  /\ UNCHANGED <<ret, buf, held, bits, search, history>>

(* Hold what is left, if anything, and return. *)
ingest_tail ==
  /\ pc = "loop" /\ n < B
  /\ IF n > 0
     THEN /\ bytes' = (bytes + n) % M
          /\ buffer' = Copied(buffer, held, buf, off, n)
     ELSE UNCHANGED <<bytes, buffer>>
  /\ Leave
  /\ UNCHANGED <<cv, found_collision, config, block_W, block_in>>
  /\ UNCHANGED <<bits, search, history>>

-------------------------------------------------------------------------------
(* process.  Both places that call it go on with the loop of sha1dc_ingest. *)

Processed ==
  /\ pc' = "loop"
  /\ dvs' = {} /\ i' = 0
  /\ done' = done + B

(* The next vector, if there is one.  A dvmask has a bit for each. *)
IsVector_or_end(k) == k <= NDV
IsVector(k)        == k < NDV

NextVector ==
  IF IsVector(i + 1) THEN i' = i + 1 /\ pc' = "test" /\ UNCHANGED <<dvs, done>>
                     ELSE Processed

Candidates_none_without_ubc == IF ubc_check THEN Ubc(block_W) ELSE {}
Candidates == IF ubc_check THEN Ubc(block_W) ELSE DV

process ==
  /\ pc = "process"
  /\ block_in' = cv
  /\ cv' = Compress(cv, block_W)
  /\ IF detect_coll /\ Candidates # {}
     THEN dvs' = Candidates /\ i' = 0 /\ pc' = "test" /\ UNCHANGED done
     ELSE Processed
  /\ UNCHANGED <<buffer, bytes, found_collision, config, block_W>>
  /\ UNCHANGED <<ret, buf, off, n, held, bits>>
  /\ UNCHANGED <<msg, phase, log, output, messages>>

(* Vector i is a candidate and its twin block gives this block away. *)
Hit == i \in dvs /\ Collides(i, reduced_round_coll, block_in, cv, block_W)

(* The last four arguments of ctx->collision, in the order process passes. *)
HandlerArguments == <<"block_in", "twin_in", "block_W", "twin_W">>

(* The last four parameters of sha1dc_collision_handler. *)
HandlerParameters == <<"block_W", "twin_W", "block_in", "twin_in">>

(* In safe-hash mode a hit has the same block hashed two more times. *)
SafeHash ==
  cv' = IF do_safe_hash THEN Compress(Compress(cv, block_W), block_W) ELSE cv

(* And it ends the search. *)
AfterHit_goes_on == NextVector
AfterHit         == Processed

test_hit ==
  /\ pc = "test" /\ Hit
  /\ found_collision' = TRUE
  /\ IF collision # NoHandler
     THEN /\ log' = Append(log, [closure     |-> collision_closure,
                                 byte_offset |-> bytes,
                                 vector      |-> i,
                                 args        |-> HandlerArguments])
          /\ pc' = "handler"
          /\ UNCHANGED <<cv, dvs, i, done>>
     ELSE SafeHash /\ AfterHit /\ UNCHANGED log
  /\ UNCHANGED <<buffer, bytes, config, block_W, block_in>>
  /\ UNCHANGED <<ret, buf, off, n, held, bits>>
  /\ UNCHANGED <<msg, phase, output, messages>>

(* What the handler was passed points into the context, so the compiled    *)
(* code has to read do_safe_hash again.                                    *)
handler_returns ==
  /\ pc = "handler"
  /\ SafeHash
  /\ AfterHit
  /\ UNCHANGED <<buffer, bytes, found_collision, config, block_W, block_in>>
  /\ UNCHANGED <<ret, buf, off, n, held, bits>>
  /\ UNCHANGED <<msg, phase, log, output, messages>>

AfterMiss_spins == IF i \in dvs THEN NextVector ELSE UNCHANGED <<pc, dvs, i, done>>
AfterMiss       == NextVector

test_miss ==
  /\ pc = "test" /\ ~Hit
  /\ AfterMiss
  /\ UNCHANGED ctx
  /\ UNCHANGED <<ret, buf, off, n, held, bits>>
  /\ UNCHANGED <<msg, phase, log, output, messages>>

-------------------------------------------------------------------------------
(* The context has just been initialised; its storage was not. *)
Init ==
  /\ buffer = [k \in 1 .. B |-> Uninit]
  /\ cv = IV /\ bytes = 0 /\ found_collision = FALSE
  /\ do_safe_hash = DO_SAFE_HASH_DEFAULT
  /\ ubc_check = TRUE /\ detect_coll = TRUE /\ reduced_round_coll = FALSE
  /\ collision = NoHandler /\ collision_closure = Uninit
  /\ block_W = buffer /\ block_in = IV
  /\ pc = "idle" /\ ret = "idle" /\ buf = <<>> /\ off = 0 /\ n = 0 /\ held = 0
  /\ bits = 0 /\ dvs = {} /\ i = 0
  /\ msg = <<>> /\ phase = "open" /\ done = 0 /\ log = <<>>
  /\ output = NoResult /\ messages = 1

Client ==
  \/ sha1dc_init
  \/ \E v \in BOOLEAN : \/ sha1dc_set_do_safe_hash(v)
                        \/ sha1dc_set_use_ubc(v)
                        \/ sha1dc_set_detect_coll(v)
                        \/ sha1dc_set_detect_reduced_round_coll(v)
  \/ \E h \in Handlers \cup {NoHandler}, c \in Closures :
       sha1dc_set_callback(h, c)
  \/ \E data \in Chunks : sha1dc_ingest(data)
  \/ sha1dc_finish

Library ==
  \/ finish_length \/ finish_output
  \/ ingest_fill \/ ingest_block \/ ingest_tail
  \/ process \/ test_hit \/ handler_returns \/ test_miss

Next == Client \/ Library

Spec == Init /\ [][Next]_vars

(* A call that has begun is executed: the library waits for nothing but    *)
(* its handler, and handlers return.                                       *)
FairSpec == Spec /\ WF_vars(Library)

-------------------------------------------------------------------------------
(* Properties. *)

(***************************************************************************)
(* Type correctness of the context, of the frames and of the history.      *)
(***************************************************************************)
TypeOK ==
  /\ buffer \in [1 .. B -> Byte \cup {Uninit}]
  /\ block_W \in [1 .. B -> Byte \cup {Uninit}]
  /\ cv \in CV /\ block_in \in CV
  /\ bytes \in 0 .. M - 1 /\ bits \in 0 .. M - 1
  /\ found_collision \in BOOLEAN /\ do_safe_hash \in BOOLEAN
  /\ detect_coll \in BOOLEAN /\ ubc_check \in BOOLEAN
  /\ reduced_round_coll \in BOOLEAN
  /\ collision \in Handlers \cup {NoHandler}
  /\ collision_closure \in Closures \cup {Uninit}
  /\ pc \in {"idle", "finish_length", "finish_output",
             "fill", "loop", "process", "test", "handler"}
  /\ ret \in {"idle", "finish_length", "finish_output"}
  /\ buf \in Seq(Byte) /\ off \in Nat /\ n \in Nat /\ held \in 0 .. B - 1
  /\ dvs \subseteq DV /\ i \in DV
  /\ msg \in Seq(Byte) /\ phase \in {"open", "padded", "finished"}
  /\ done \in Nat /\ messages \in Nat

(* What the library is hashing: the message, and its padding once closed. *)
Stream == IF phase = "open" THEN msg ELSE Padded(msg)

InIngest  == pc \in {"fill", "loop"}
InProcess == pc \in {"process", "test", "handler"}

(* How many valid bytes ctx->buffer holds that are not processed yet. *)
Kept == IF InIngest \/ InProcess THEN held ELSE bytes % B

(* How much of the stream sha1dc_ingest has taken from its callers. *)
Taken == done + Kept + (IF InProcess THEN B ELSE 0)

(* What sha1dc_finish has yet to give it. *)
LengthPending == "finish_length" \in {pc, ret}

(***************************************************************************)
(* Whatever the chunks the client cuts its message into, and wherever the  *)
(* block comes from (its own memory or ctx->buffer), process is given the  *)
(* next B bytes of the stream: none skipped, repeated, stale or unwritten. *)
(***************************************************************************)
BlockIsNextOfStream ==
  InProcess => /\ done + B <= Len(Stream)
               /\ \A k \in 1 .. B : block_W[k] = Stream[done + k]

(***************************************************************************)
(* Between calls nothing of the message is lost: what process has not seen *)
(* is in ctx->buffer, less than a block of it, and ctx->bytes counts it.   *)
(***************************************************************************)
UnprocessedIsBuffered ==
  pc = "idle" /\ phase = "open" =>
    /\ Len(msg) = done + (bytes % B) /\ done % B = 0
    /\ bytes = Len(msg) % M
    /\ \A k \in 1 .. bytes % B : buffer[k] = msg[done + k]

(***************************************************************************)
(* The memcpys of sha1dc_ingest stay inside ctx->buffer and inside the     *)
(* caller's array, and sha1dc_finish asks for no more of sha1_padding than *)
(* there is: its 8-bit padding_size never wraps to a wrong count.          *)
(***************************************************************************)
CopiesInBounds ==
  /\ InIngest => off + n = Len(buf)
  /\ pc = "fill" => held > 0 /\ n >= Room(held)
  /\ pc = "loop" /\ n < B => held + n < B
  /\ pc = "loop" /\ n >= B => held = 0
  /\ pc = "idle" => padding_size(bytes) \in 1 .. B

(***************************************************************************)
(* At every step of every call, the bytes processed, the bytes in flight,  *)
(* the bytes held in ctx->buffer, the bytes left of the caller's array and *)
(* the length field still to come are, in this order, exactly the stream,  *)
(* and ctx->bytes counts those that have been taken.                       *)
(***************************************************************************)
StreamAccounted ==
  /\ done % B = 0
  /\ bytes = Taken % M
  /\ Len(Stream) = Taken + n + (IF LengthPending THEN L ELSE 0)
  /\ \A k \in 1 .. Kept : buffer[k] = Stream[Taken - Kept + k]
  /\ \A k \in 1 .. n : buf[off + k] = Stream[Taken + k]
  /\ phase = "padded" => bits = (BitsPerByte * Len(msg)) % M

(***************************************************************************)
(* Which calls and locals are alive at each point of the code.             *)
(***************************************************************************)
CallShape ==
  /\ phase = "padded" <=> pc \in {"finish_length", "finish_output"}
                          \/ ret \in {"finish_length", "finish_output"}
  /\ ~InIngest /\ ~InProcess => ret = "idle" /\ buf = <<>> /\ off = 0 /\ n = 0
  /\ InProcess => held = 0 /\ off + n = Len(buf)

(* The inductive invariant. *)
StreamInv ==
  TypeOK /\ CopiesInBounds /\ CallShape /\ StreamAccounted /\ BlockIsNextOfStream

(***************************************************************************)
(* sha1dc_finish ends on a block boundary, as the unreachable() after its  *)
(* last call of ingest says, and everything the padding rule of SHA-1 adds *)
(* to the message has been processed by then, the bit length included.     *)
(***************************************************************************)
FinishIsPadded ==
  pc = "finish_output" => bytes % B = 0 /\ done = Len(Padded(msg))

(***************************************************************************)
(* "Safe SHA-1" of a message in which no collision was found is the SHA-1  *)
(* of the message, whatever the chunks it arrived in.                      *)
(***************************************************************************)
SafeHashIsSha1WithoutCollision ==
  phase = "finished" /\ ~output.collision => output.hash = SHA1(msg)

(***************************************************************************)
(* The handler hears of a block at most once, however many vectors give it *)
(* away, and of the blocks in the order of the stream: the offsets it is   *)
(* told, ends of blocks already taken, increase.                           *)
(***************************************************************************)
EachBlockReportedOnce ==
  \A k \in 1 .. Len(log) :
    /\ log[k].byte_offset % B = 0
    /\ log[k].byte_offset > IF k = 1 THEN 0 ELSE log[k - 1].byte_offset
    /\ log[k].byte_offset <= Taken

(***************************************************************************)
(* The library does what SafeSha1 says.  A block being processed counts as *)
(* not absorbed until process returns, the handler's turn included: what   *)
(* that changes is for the next block, but do_safe_hash is for this one.   *)
(***************************************************************************)
Safe == INSTANCE SafeSha1 WITH
  Arguments <- {HandlerArguments},
  cv        <- IF pc \in {"test", "handler"} THEN block_in ELSE cv,
  found     <- found_collision,
  told      <- (pc = "handler"),
  safe      <- do_safe_hash,
  detect    <- detect_coll,
  reduced   <- reduced_round_coll,
  handler   <- collision,
  closure   <- collision_closure

ImplementsSafeSha1 == Safe!Spec

(***************************************************************************)
(* Every call returns: the loops of ingest and process come to an end.     *)
(***************************************************************************)
CallsReturn == (pc # "idle") ~> (pc = "idle")

(***************************************************************************)
(* include/sha1.h declares what a handler is called with: the block, its   *)
(* twin, the chaining value before the block and the one before the twin.  *)
(***************************************************************************)
HandlerGetsDocumentedArguments ==
  \A k \in 1 .. Len(log) : log[k].args = HandlerParameters
===============================================================================
