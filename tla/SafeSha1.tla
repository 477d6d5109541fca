------------------------------- MODULE SafeSha1 -------------------------------
(***************************************************************************)
(* What include/sha1.h promises of one message stream, with no buffer, no  *)
(* bit conditions and no steps inside a block.  The stream is absorbed     *)
(* block by block, in order, as soon as a block is complete; a block that  *)
(* any disturbance vector gives away is reported once, for the first such  *)
(* vector, and hashed two extra times in safe-hash mode.  Settings change  *)
(* between blocks, or while the handler is being told of one.              *)
(***************************************************************************)
EXTENDS Sha1Params

CONSTANTS
  Chunks,     \* the byte sequences a client may ingest at once
  Handlers,   \* the collision handlers a client may install
  Closures,   \* the closures a client may install them with
  NoHandler,  \* nullptr
  NoResult,   \* what is in the caller's output array before any result
  Arguments,  \* the arrays whose addresses a handler may be called with
  DO_SAFE_HASH_DEFAULT

VARIABLES
  cv,         \* the chaining value after the blocks absorbed so far
  found,      \* whether one of them was given away
  msg,        \* the message so far
  phase,      \* "open", then "padded" at its end, then "finished"
  done,       \* how many bytes have been absorbed
  log,        \* the calls of the handler
  output,     \* the last result handed out
  told,       \* whether the handler is being told of the next block
  safe, detect, reduced, handler, closure   \* the settings

settings == <<safe, detect, reduced, handler, closure>>
vars     == <<cv, found, msg, phase, done, log, output, told, settings>>

Stream == IF phase = "open" THEN msg ELSE Padded(msg)

(* The next block of the stream, once it is complete. *)
Ready     == done + B <= Len(Stream)
NextBlock == [k \in 1 .. B |-> Stream[done + k]]

Init ==
  /\ cv = IV /\ found = FALSE /\ msg = <<>> /\ phase = "open" /\ done = 0
  /\ log = <<>> /\ output = NoResult /\ told = FALSE
  /\ safe = DO_SAFE_HASH_DEFAULT /\ detect = TRUE /\ reduced = FALSE
  /\ handler = NoHandler /\ closure = Uninit

(* Between two calls of the client, every complete block has been absorbed. *)
Quiet == ~Ready /\ phase # "padded"

(* A new message: nothing of the previous one is left but its result. *)
Restart ==
  /\ Quiet
  /\ cv' = IV /\ found' = FALSE /\ msg' = <<>> /\ phase' = "open" /\ done' = 0
  /\ log' = <<>>
  /\ safe' = DO_SAFE_HASH_DEFAULT /\ detect' = TRUE /\ reduced' = FALSE
  /\ handler' = NoHandler
  /\ UNCHANGED <<output, told, closure>>

(* Once a block is looked at, new settings are for the next one; but      *)
(* whether a safe hash is wanted is asked when the handler has returned.   *)
Configure ==
  /\ Quiet \/ told
  /\ safe' \in BOOLEAN /\ detect' \in BOOLEAN /\ reduced' \in BOOLEAN
  /\ \/ UNCHANGED <<handler, closure>>
     \/ handler' \in Handlers \cup {NoHandler} /\ closure' \in Closures
  /\ UNCHANGED <<cv, found, msg, phase, done, log, output, told>>

Feed ==
  /\ Quiet /\ phase = "open"
  /\ \E data \in Chunks : msg' = msg \o data
  /\ UNCHANGED <<cv, found, phase, done, log, output, told, settings>>

Close ==
  /\ Quiet /\ phase = "open"
  /\ phase' = "padded"
  /\ UNCHANGED <<cv, found, msg, done, log, output, told, settings>>

(* The vectors that give the next block away. *)
Witnesses ==
  {d \in DV : Collides(d, reduced, cv, Compress(cv, NextBlock), NextBlock)}

First(S) == CHOOSE d \in S : \A e \in S : d <= e

GivenAway == detect /\ Witnesses # {}

(* The handler is called with the block it is about not yet absorbed. *)
Report ==
  /\ ~told /\ told' = TRUE
  /\ Ready /\ handler # NoHandler /\ GivenAway
  /\ found' = TRUE
  /\ \E args \in Arguments :
       log' = Append(log, [closure     |-> closure,
                           byte_offset |-> (done + B) % M,
                           vector      |-> First(Witnesses),
                           args        |-> args])
  /\ UNCHANGED <<cv, msg, phase, done, output, settings>>

(* A block the handler was told of was given away under the settings of    *)
(* that time; whether its safe hash is wanted is asked now.                *)
Absorb ==
  /\ done' = done + B /\ Ready
  /\ LET after == Compress(cv, NextBlock) IN
       \/ /\ told \/ (handler = NoHandler /\ GivenAway)
          /\ found' = TRUE
          /\ cv' = IF safe
                   THEN Compress(Compress(after, NextBlock), NextBlock)
                   ELSE after
       \/ ~told /\ ~GivenAway /\ cv' = after /\ UNCHANGED found
  /\ told' = FALSE
  /\ UNCHANGED <<msg, phase, log, output, settings>>

(* The result: the hash of the whole padded message, and the verdict. *)
Result ==
  /\ phase = "padded" /\ done = Len(Stream)
  /\ phase' = "finished"
  /\ output' = [hash |-> Digest(cv), collision |-> found]
  /\ UNCHANGED <<cv, found, msg, done, log, told, settings>>

Next == Restart \/ Configure \/ Feed \/ Close \/ Report \/ Absorb \/ Result

Spec == Init /\ [][Next]_vars
===============================================================================
