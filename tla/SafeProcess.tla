------------------------------ MODULE SafeProcess ------------------------------
(***************************************************************************)
(* Process as an implementation of SafeSha1.  The stream is made of words, *)
(* sixteen to a block; what SafeSha1 takes as given (the compression       *)
(* function, and the twin of a block that a vector prescribes) is defined  *)
(* here from the steps of SHA-1, forwards only: nothing is said of states  *)
(* that are saved, of recompression or of an order of search.              *)
(***************************************************************************)
EXTENDS Process

(* The block of sixteen words, expanded. *)
Expand(b) ==
  LET W[w \in 0 .. Steps - 1] == IF w < 16 THEN b[w + 1] ELSE sha1_expand_one(W, w)
  IN  W

MessageOf(W) == [k \in 1 .. 16 |-> W[k - 1]]

CompressBlock(c, b) == sha1_add_block(c, Expand(b))

(* The states that word m takes to s in step q.  A step moves four of the  *)
(* five words, so only the states that agree with s in them are looked at. *)
Predecessors(s, m, q) ==
  {p \in [A : {s.B}, B : Word, C : {s.D}, D : {s.E}, E : Word] : sha1_step(p, m, q) = s}

(* The chaining values from which the words of W lead to s in q steps. *)
Origins(W, q, s) ==
  LET before[k \in 0 .. q] ==   \* the states k steps before
        IF k = 0 THEN {s}
        ELSE UNION {Predecessors(p, W[q - k], q - k) : p \in before[k - 1]}
  IN  before[q]

(* A vector prescribes by which words the twin block differs, and in which *)
(* step its compression and that of the block are in the same state.       *)
TwinOf(d, b) == LET W == Expand(b) IN [w \in DOMAIN W |-> Xor(W[w], message_mask[d][w])]

TwinIn(d, c, b) ==
  CHOOSE s \in Origins(TwinOf(d, b), test_state[d],
                       StatesFrom(c, Expand(b))[test_state[d]]) : TRUE

TwinOut(d, c, b) == sha1_add_block(TwinIn(d, c, b), TwinOf(d, b))

-------------------------------------------------------------------------------
Words(k) == given[((k - 1) \div 16) + 1][(k - 1) % 16]

HandlerRan == calls # <<>> /\ calls[Len(calls)].number = Len(given)

(* What SafeSha1 sees of a call of the handler. *)
CallOf(c) == [closure |-> "closure", byte_offset |-> (16 * c.number) % 65536,
              vector |-> c.vector, args |-> "args"]

(* What SafeSha1 sees: a block counts as absorbed when process has returned, *)
(* and as found when the handler, if there is one, is called for it.       *)
AbsorbedCv    == IF pc = "idle" THEN cv ELSE block_in
AbsorbedBytes == 16 * (IF pc = "idle" THEN Len(given) ELSE Len(given) - 1)
FoundBefore   == IF pc = "rehash" /\ ~HandlerRan THEN Len(reports) > 1 ELSE found_collision
MessageSoFar  == [k \in 1 .. 16 * Len(given) |-> Words(k)]
Log           == [k \in 1 .. Len(calls) |-> CallOf(calls[k])]
BeingTold     == pc \in {"handler", "rehash"} /\ HandlerRan
Handler       == IF collision THEN "handler" ELSE "nullptr"

NoField(bits) == <<>>   \* the stream is never closed here
Hash(c)       == c

Safe == INSTANCE SafeSha1 WITH
  B <- 16, L <- 2, M <- 65536, UCharMod <- 256, BitsPerByte <- 32,
  Byte <- Word, PadByte <- 0, LengthField <- NoField, Uninit <- "closure",
  CV <- State, IV <- IV, Compress <- CompressBlock, Digest <- Hash,
  NDV <- NDV, Ubc <- Ubc, TwinIn <- TwinIn, TwinOut <- TwinOut,
  Chunks <- {MessageOf(b) : b \in Blocks},
  Handlers <- {"handler"}, Closures <- {"closure"}, NoHandler <- "nullptr",
  NoResult <- "none", Arguments <- {"args"},
  DO_SAFE_HASH_DEFAULT <- DO_SAFE_HASH_DEFAULT,
  cv <- AbsorbedCv, found <- FoundBefore, msg <- MessageSoFar, phase <- "open",
  done <- AbsorbedBytes, log <- Log, output <- "none", told <- BeingTold,
  safe <- do_safe_hash, detect <- detect_coll, reduced <- reduced_round_coll,
  handler <- Handler, closure <- "closure"

(* What the first n blocks may lead to, each hashed once or three times. *)
Outcomes(c, b) ==
  LET once == CompressBlock(c, b) IN {once, CompressBlock(CompressBlock(once, b), b)}

ChainingValues ==
  LET after[n \in 0 .. MaxBlocks] ==
        IF n = 0 THEN {IV}
        ELSE UNION {Outcomes(c, MessageOf(b)) : c \in after[n - 1], b \in Blocks}
  IN  after

(* The claim behind the bit conditions (UbcAssumption of Sha1Params), for  *)
(* the blocks and chaining values that there may be: a vector that gives a *)
(* block away is among those that the conditions leave.                    *)
ASSUME CandidatesAssumption ==
  /\ MaxBlocks \in Nat
  /\ \A n \in 0 .. MaxBlocks - 1 : \A c \in ChainingValues[n], b \in Blocks, d \in DV :
       Safe!Collides(d, TRUE, c, CompressBlock(c, MessageOf(b)), MessageOf(b))
         => d \in Ubc(b)

(***************************************************************************)
(* process does to a block what SafeSha1 promises: it reports it if and    *)
(* only if one of ALL the vectors gives it away under the settings it was  *)
(* processed with, for the first such vector; the handler may then change  *)
(* the settings; and the chaining value is SHA-1's, or that of hashing the *)
(* block three times if it was reported and a safe hash is wanted then.    *)
(***************************************************************************)
ProcessImplementsSafeSha1 == Safe!Spec
===============================================================================
