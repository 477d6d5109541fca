----------------------------- MODULE Sha1dcProofs -----------------------------
(***************************************************************************)
(* Proofs about Sha1dc, for every block size, counter width, compression   *)
(* function, set of vectors and client.                                    *)
(***************************************************************************)
EXTENDS Sha1dc, Sha1Arith, SequenceTheorems

-------------------------------------------------------------------------------
(* The sizes, in the form the lemmas about % ask for. *)
LEMMA Sizes ==
  /\ B \in Nat \ {0} /\ B \in Int /\ B \in Nat
  /\ L \in Nat \ {0} /\ L \in Int /\ L \in Nat
  /\ M \in Nat \ {0} /\ M \in Int /\ M \in Nat /\ M > B /\ M % B = 0
  /\ UCharMod \in Nat \ {0} /\ UCharMod \in Nat /\ UCharMod > B
  /\ BitsPerByte \in Int
  BY SizesAssumption

-------------------------------------------------------------------------------
(* The padding. *)

(* How far the end of the length field is from the next block boundary. *)
Beyond(x) == (x + L) % B

LEMMA BeyondType ==
  ASSUME NEW x \in Int
  PROVE  Beyond(x) \in 0 .. B - 1
  BY DivMod, Sizes, x + L \in Int DEF Beyond

(* The counter's wrapping does not move it. *)
LEMMA BeyondOfCounter ==
  ASSUME NEW x \in Int
  PROVE  Beyond(x % M) = Beyond(x)
<1>1. x % M \in Int
  BY DivMod, Sizes
<1>2. ((x % M) + L) % B = (((x % M) % B) + L) % B
  BY <1>1, ModOfSum, Sizes
<1>3. (x % M) % B = x % B
  BY ModOfMod, Sizes
<1>4. ((x % B) + L) % B = (x + L) % B
  BY ModOfSum, Sizes
<1> QED
  BY <1>2, <1>3, <1>4 DEF Beyond

(* The expression in sha1dc_finish survives both of its modular types. *)
LEMMA PaddingSize ==
  ASSUME NEW b \in 0 .. M - 1
  PROVE  padding_size(b) = B - Beyond(b)
<1> DEFINE x == b + 1 + L + B - 1
           r == Beyond(b)
<1>1. x \in Int /\ b \in Int /\ L \in Int /\ B \in Nat \ {0} /\ M \in Nat \ {0}
  BY SizesAssumption
<1>2. r \in 0 .. B - 1
  BY <1>1, BeyondType
<1>3. (x % M) % B = r
  <2>1. (x % M) % B = x % B
    BY <1>1, ModOfMod, Sizes
  <2>2. x = (b + L) + B * 1
    BY <1>1
  <2>3. ((b + L) + B * 1) % B = (b + L) % B
    <3>1. b + L \in Int /\ 1 \in Int
      BY <1>1
    <3> QED
      BY <1>1, <3>1, ModAddMultiple
  <2> QED
    BY <2>1, <2>2, <2>3 DEF Beyond
<1>4. x % M \in Int
  BY <1>1, DivMod
<1>5. AlignDown(x % M) - b - L = (x % M) + (-(r + b + L))
  BY <1>1, <1>2, <1>3, <1>4 DEF AlignDown
<1>6. -(r + b + L) \in Int
  BY <1>1, <1>2
<1>7. ((x % M) + (-(r + b + L))) % M = (x + (-(r + b + L))) % M
  BY <1>1, <1>6, ModOfSum
<1>8. x + (-(r + b + L)) = B - r
  BY <1>1, <1>2
<1>9. (B - r) % M = B - r
  <2>1. B - r \in 0 .. M - 1
    BY <1>2, SizesAssumption
  <2>2. (M * 0 + (B - r)) % M = B - r
    BY <1>1, <2>1, ModUnique
  <2> QED
    BY <1>1, <1>2, <2>2
<1>10. (B - r) % UCharMod = B - r
  <2>1. B - r \in 0 .. UCharMod - 1 /\ UCharMod \in Nat \ {0}
    BY <1>2, SizesAssumption
  <2>2. (UCharMod * 0 + (B - r)) % UCharMod = B - r
    BY <2>1, ModUnique
  <2> QED
    BY <1>1, <1>2, <2>1, <2>2
<1>11. padding_size(b) = ((AlignDown(x % M) - b - L) % M) % UCharMod
  BY DEF padding_size
<1> HIDE DEF x, r
<1> QED
  BY <1>5, <1>7, <1>8, <1>9, <1>10, <1>11 DEF r

(* The rule of FIPS 180 asks for as many zeros. *)
LEMMA ZeroFillIs ==
  ASSUME NEW len \in Nat
  PROVE  ZeroFill(len) = B - 1 - Beyond(len)
<1> DEFINE r == Beyond(len)
           Ends(k) == (len + 1 + k + L) % B = 0
<1>1. r \in 0 .. B - 1 /\ B \in Nat \ {0} /\ L \in Nat
  BY BeyondType, SizesAssumption
<1>2. ASSUME NEW k \in 0 .. B - 1
      PROVE  Ends(k) <=> k = B - 1 - r
  <2>1. (len + 1 + k + L) % B = (r + (1 + k)) % B
    <3>1. len + 1 + k + L = (len + L) + (1 + k)
      BY <1>1
    <3>2. (((len + L) % B) + (1 + k)) % B = ((len + L) + (1 + k)) % B
      BY <1>1, ModOfSum, len + L \in Int, 1 + k \in Int
    <3> QED
      BY <3>1, <3>2 DEF Beyond
  <2>2. CASE r + (1 + k) < B
    <3>1. (B * 0 + (r + (1 + k))) % B = r + (1 + k)
      BY <1>1, <2>2, ModUnique
    <3>2. B * 0 + (r + (1 + k)) = r + (1 + k)
      BY <1>1
    <3> HIDE DEF r
    <3> QED
      BY <1>1, <2>1, <2>2, <3>1, <3>2
  <2>3. CASE r + (1 + k) >= B
    <3>1. r + (1 + k) - B \in 0 .. B - 1
      BY <1>1, <2>3
    <3>2. (B * 1 + (r + (1 + k) - B)) % B = r + (1 + k) - B
      <4> 1 \in Int
        OBVIOUS
      <4> HIDE DEF r
      <4> QED
        BY <1>1, <3>1, ModUnique
    <3>3. B * 1 + (r + (1 + k) - B) = r + (1 + k)
      BY <1>1
    <3> HIDE DEF r
    <3> QED
      BY <1>1, <2>1, <2>3, <3>2, <3>3
  <2> HIDE DEF r, Ends
  <2> QED
    BY <1>1, <2>2, <2>3
<1>3. B - 1 - r \in 0 .. B - 1
  BY <1>1
<1>4. ZeroFill(len) = CHOOSE k \in 0 .. B - 1 : Ends(k)
  BY DEF ZeroFill
<1> HIDE DEF r, Ends
<1>5. \E k \in 0 .. B - 1 : Ends(k)
  BY <1>2, <1>3
<1>6. ZeroFill(len) \in 0 .. B - 1 /\ Ends(ZeroFill(len))
  BY <1>4, <1>5
<1> QED
  BY <1>2, <1>6 DEF r

(* So sha1dc_finish asks for as much of sha1_padding as the rule wants.    *)
LEMMA PaddingLength ==
  ASSUME NEW len \in Nat
  PROVE  /\ padding_size(len % M) = 1 + ZeroFill(len)
         /\ padding_size(len % M) \in 1 .. B
<1>1. len % M \in 0 .. M - 1 /\ len \in Int
  BY DivMod, Sizes
<1>2. padding_size(len % M) = B - Beyond(len)
  BY <1>1, PaddingSize, BeyondOfCounter
<1>3. ZeroFill(len) = B - 1 - Beyond(len)
  BY ZeroFillIs
<1>4. Beyond(len) \in 0 .. B - 1
  BY <1>1, BeyondType
<1> QED
  BY <1>2, <1>3, <1>4, Sizes

(* What sha1dc_finish sends after a message of some length. *)
PaddingSent(len) == SubSeq(sha1_padding, 1, padding_size(len % M))
LengthSent(len) == LengthField((BitsPerByte * len) % M)

LEMMA PaddingSentProps ==
  ASSUME NEW len \in Nat
  PROVE  /\ PaddingSent(len) \in Seq(Byte)
         /\ Len(PaddingSent(len)) = padding_size(len % M)
         /\ \A k \in 1 .. padding_size(len % M) :
              PaddingSent(len)[k] = IF k = 1 THEN PadByte ELSE 0
<1> DEFINE p == padding_size(len % M)
<1>1. p \in 1 .. B
  BY PaddingLength
<1> HIDE DEF p
<1>2. \A k \in 1 .. p : sha1_padding[k] = (IF k = 1 THEN PadByte ELSE 0)
  BY <1>1, Sizes DEF sha1_padding
<1>3. \A k \in 1 .. p : sha1_padding[k] \in Byte
  BY <1>2, BytesAssumption
<1>4. 1 \in Int /\ p \in Int
  BY <1>1, Sizes
<1>5. /\ SubSeq(sha1_padding, 1, p) \in Seq(Byte)
      /\ Len(SubSeq(sha1_padding, 1, p)) = IF 1 <= p THEN p - 1 + 1 ELSE 0
      /\ \A k \in 1 .. p - 1 + 1 :
           SubSeq(sha1_padding, 1, p)[k] = sha1_padding[1 + k - 1]
  BY <1>3, <1>4, SubSeqProperties
<1>6. Len(SubSeq(sha1_padding, 1, p)) = p
  BY <1>1, <1>5, Sizes
<1>7. \A k \in 1 .. p : SubSeq(sha1_padding, 1, p)[k] = IF k = 1 THEN PadByte ELSE 0
  <2> TAKE k \in 1 .. p
  <2>1. k \in 1 .. p - 1 + 1 /\ 1 + k - 1 = k
    BY <1>1, Sizes
  <2> QED
    BY <2>1, <1>5, <1>2
<1> QED
  BY <1>5, <1>6, <1>7 DEF p, PaddingSent

LEMMA LengthSentProps ==
  ASSUME NEW bits_ \in 0 .. M - 1
  PROVE  /\ LengthField(bits_) \in Seq(Byte)
         /\ Len(LengthField(bits_)) = L
<1>1. LengthField(bits_) \in [1 .. L -> Byte]
  BY BytesAssumption
<1> QED
  BY <1>1, Sizes, SeqDef

(* The padded message is the message and these two, and whole blocks.      *)
LEMMA PaddedProps ==
  ASSUME NEW m \in Seq(Byte)
  PROVE  LET len == Len(m)
             p   == padding_size(len % M)
         IN  /\ Padded(m) \in Seq(Byte)
             /\ Len(Padded(m)) = len + p + L
             /\ Len(Padded(m)) % B = 0
             /\ \A k \in 1 .. len : Padded(m)[k] = m[k]
             /\ \A k \in 1 .. p : Padded(m)[len + k] = PaddingSent(len)[k]
             /\ \A k \in 1 .. L : Padded(m)[len + p + k] = LengthSent(len)[k]
<1> DEFINE len   == Len(m)
           p     == padding_size(len % M)
           zeros == [k \in 1 .. ZeroFill(len) |-> 0]
           first == <<PadByte>> \o zeros
           last  == LengthSent(len)
<1>1. len \in Nat /\ Len(m) = len
  BY LenProperties
<1>2. p \in 1 .. B /\ ZeroFill(len) = p - 1
  <2>1. p = 1 + ZeroFill(len) /\ p \in 1 .. B
    BY <1>1, PaddingLength
  <2>2. ZeroFill(len) = B - 1 - Beyond(len)
    BY <1>1, ZeroFillIs
  <2>3. len \in Int
    BY <1>1
  <2>4. Beyond(len) \in 0 .. B - 1
    BY <2>3, BeyondType
  <2> HIDE DEF p, len
  <2> QED
    BY <2>1, <2>2, <2>4, Sizes
<1>3. last \in Seq(Byte) /\ Len(last) = L
  <2>1. BitsPerByte * len \in Int
    BY <1>1, Sizes
  <2>2. (BitsPerByte * len) % M \in 0 .. M - 1
    BY <2>1, DivMod, Sizes
  <2> QED
    BY <2>2, LengthSentProps DEF LengthSent
<1> HIDE DEF p, len
<1>4. zeros \in Seq(Byte) /\ Len(zeros) = p - 1 /\ \A k \in 1 .. p - 1 : zeros[k] = 0
  <2>1. zeros = [k \in 1 .. p - 1 |-> 0]
    BY <1>2
  <2>2. p - 1 \in Nat /\ 0 \in Byte
    BY <1>2, BytesAssumption
  <2> HIDE DEF zeros
  <2>3. zeros \in [1 .. p - 1 -> Byte]
    BY <2>1, <2>2
  <2>4. zeros \in Seq(Byte) /\ Len(zeros) = p - 1
    BY <2>2, <2>3, SeqDef
  <2> QED
    BY <2>1, <2>4
<1>5. <<PadByte>> \in Seq(Byte) /\ Len(<<PadByte>>) = 1 /\ <<PadByte>>[1] = PadByte
  BY BytesAssumption
<1> HIDE DEF zeros
<1>6. /\ first \in Seq(Byte)
      /\ Len(first) = 1 + (p - 1)
      /\ \A k \in 1 .. 1 + (p - 1) :
           first[k] = IF k <= 1 THEN <<PadByte>>[k] ELSE zeros[k - 1]
  BY <1>4, <1>5, ConcatProperties
<1>7. /\ Len(first) = p
      /\ \A k \in 1 .. p : first[k] = IF k = 1 THEN PadByte ELSE 0
  BY <1>2, <1>4, <1>5, <1>6
<1> HIDE DEF first, last
<1>8. /\ first \o last \in Seq(Byte)
      /\ Len(first \o last) = p + L
      /\ \A k \in 1 .. p + L :
           (first \o last)[k] = IF k <= p THEN first[k] ELSE last[k - p]
  BY <1>3, <1>6, <1>7, ConcatProperties
<1>9. Padded(m) = m \o (first \o last)
  BY DEF Padded, Padding, LengthSent, first, last, zeros, len
<1>10. /\ Padded(m) \in Seq(Byte)
       /\ Len(Padded(m)) = len + (p + L)
       /\ \A k \in 1 .. len + (p + L) :
            Padded(m)[k] = IF k <= len THEN m[k] ELSE (first \o last)[k - len]
  <2> DEFINE t == first \o last
  <2>1. t \in Seq(Byte) /\ Len(t) = p + L
    BY <1>8
  <2> HIDE DEF t
  <2>2. /\ m \o t \in Seq(Byte)
        /\ Len(m \o t) = Len(m) + Len(t)
        /\ \A k \in 1 .. Len(m) + Len(t) :
             (m \o t)[k] = IF k <= Len(m) THEN m[k] ELSE t[k - Len(m)]
    BY <2>1, ConcatProperties
  <2> QED
    BY <1>1, <1>9, <2>1, <2>2 DEF t
<1>11. Len(Padded(m)) = len + p + L
  BY <1>1, <1>2, <1>10, Sizes
<1>12. (len + p + L) % B = 0
  <2>1. p = 1 + ZeroFill(len) /\ ZeroFill(len) = B - 1 - Beyond(len)
        /\ Beyond(len) \in 0 .. B - 1
    BY <1>1, <1>2, ZeroFillIs, BeyondType, Sizes
  <2>2. PICK q \in Int, r \in 0 .. B - 1 : len + L = B * q + r /\ (len + L) % B = r
    BY <1>1, DivMod, Sizes, len + L \in Int
  <2>3. r = Beyond(len)
    BY <2>2 DEF Beyond
  <2>4. len + p + L = (len + L) + (B - r)
    BY <1>1, <2>1, <2>3, Sizes
  <2>5. len + L = B * q + r
    BY <2>2
  <2>6. len + p + L = B * (q + 1) + 0
    BY <2>4, <2>5, Sizes, SMT
  <2>7. q + 1 \in Int /\ 0 \in 0 .. B - 1
    BY Sizes
  <2> QED
    BY <2>6, <2>7, ModUnique, Sizes
<1>13. \A k \in 1 .. len : Padded(m)[k] = m[k]
  BY <1>1, <1>2, <1>10, Sizes
<1>14. \A k \in 1 .. p : Padded(m)[len + k] = PaddingSent(len)[k]
  <2> TAKE k \in 1 .. p
  <2>1. Padded(m)[len + k] = (first \o last)[(len + k) - len]
    <3>1. len + k \in 1 .. len + (p + L) /\ ~(len + k <= len)
      BY <1>1, <1>2, Sizes
    <3> QED
      BY <3>1, <1>10
  <2>2. (len + k) - len = k
    BY <1>1
  <2>3. (first \o last)[k] = first[k]
    BY <1>2, <1>8, Sizes
  <2>4. PaddingSent(len)[k] = IF k = 1 THEN PadByte ELSE 0
    BY <1>1, PaddingSentProps DEF p
  <2> QED
    BY <2>1, <2>2, <2>3, <2>4, <1>7
<1>15. \A k \in 1 .. L : Padded(m)[len + p + k] = LengthSent(len)[k]
  <2> TAKE k \in 1 .. L
  <2>1. Padded(m)[len + p + k] = (first \o last)[(len + p + k) - len]
    <3>1. len + p + k \in 1 .. len + (p + L) /\ ~(len + p + k <= len)
      BY <1>1, <1>2, Sizes
    <3> QED
      BY <3>1, <1>10
  <2>2. (len + p + k) - len = p + k
    BY <1>1, <1>2, Sizes
  <2>3. (first \o last)[p + k] = last[(p + k) - p]
    BY <1>2, <1>8, Sizes
  <2>4. (p + k) - p = k
    BY <1>2, Sizes
  <2> QED
    BY <2>1, <2>2, <2>3, <2>4 DEF last
<1> QED
  BY <1>10, <1>11, <1>12, <1>13, <1>14, <1>15 DEF p, len

-------------------------------------------------------------------------------
(* Where a call is in the stream. *)

LEMMA StreamType ==
  ASSUME TypeOK
  PROVE  Stream \in Seq(Byte) /\ Len(Stream) \in Nat
<1>1. msg \in Seq(Byte)
  BY DEF TypeOK
<1>2. Padded(msg) \in Seq(Byte)
  BY <1>1, PaddedProps
<1>3. Stream \in Seq(Byte)
  BY <1>1, <1>2 DEF Stream
<1> QED
  BY <1>3, LenProperties

(* The counter tells how many bytes of ctx->buffer are in use.             *)
LEMMA CounterPosition ==
  ASSUME TypeOK, CallShape, StreamAccounted
  PROVE  /\ bytes % B = Kept
         /\ Kept \in 0 .. B - 1
         /\ Taken \in Nat
<1>1. done \in Nat /\ done \in Int /\ bytes \in Int /\ held \in 0 .. B - 1
  BY Sizes DEF TypeOK
<1>2. Kept \in 0 .. B - 1
  BY <1>1, DivMod, Sizes DEF Kept
<1>3. Taken \in Nat /\ Taken \in Int
  BY <1>1, <1>2, Sizes DEF Taken
<1>4. bytes % B = Taken % B
  BY <1>3, ModOfMod, Sizes DEF StreamAccounted
<1>5. done % B = 0
  BY DEF StreamAccounted
<1>6. CASE InProcess
  <2>1. Kept = 0 /\ Taken = done + B
    BY <1>6, <1>1, Sizes DEF Kept, Taken, CallShape
  <2>2. (done + B) % B = 0
    BY <1>1, <1>5, ModNextBlock, Sizes
  <2> QED
    BY <1>2, <1>3, <1>4, <2>1, <2>2
<1>7. CASE ~InProcess
  <2>1. Taken = done + Kept
    BY <1>7, <1>1, <1>2, Sizes DEF Taken
  <2>2. (done + Kept) % B = Kept
    BY <1>1, <1>2, <1>5, ModAfterBlocks, Sizes
  <2> QED
    BY <1>2, <1>3, <1>4, <2>1, <2>2
<1> QED
  BY <1>6, <1>7

(* ctx->bytes += k *)
LEMMA CounterAdds ==
  ASSUME TypeOK, CallShape, StreamAccounted, NEW k \in Nat
  PROVE  /\ (bytes + k) % M = (Taken + k) % M
         /\ (bytes + k) % M \in 0 .. M - 1
<1>1. Taken \in Int /\ k \in Int /\ bytes \in Int
  BY CounterPosition, Sizes DEF TypeOK
<1>2. bytes = Taken % M
  BY DEF StreamAccounted
<1>3. ((Taken % M) + k) % M = (Taken + k) % M
  BY <1>1, ModOfSum, Sizes
<1>4. bytes + k \in Int
  BY <1>1
<1>5. (bytes + k) % M \in 0 .. M - 1
  BY <1>4, DivMod, Sizes
<1> QED
  BY <1>2, <1>3, <1>5

LEMMA PaddingInRange ==
  ASSUME NEW b \in 0 .. M - 1
  PROVE  padding_size(b) \in 1 .. B
<1>1. b \in Int
  BY Sizes
<1>2. Beyond(b) \in 0 .. B - 1
  BY <1>1, BeyondType
<1> QED
  BY <1>2, PaddingSize, Sizes

-------------------------------------------------------------------------------
(* Every step keeps the stream accounted for. *)

LEMMA FillKeepsInv ==
  ASSUME StreamInv, ingest_fill
  PROVE  StreamInv'
<1> DEFINE need == B - held
<1>1. /\ TypeOK /\ CopiesInBounds /\ CallShape /\ StreamAccounted
      /\ pc = "fill" /\ InIngest /\ ~InProcess /\ Kept = held
  BY DEF StreamInv, ingest_fill, Fill, InIngest, InProcess, Kept
<1>2. /\ held \in 1 .. B - 1 /\ off \in Nat /\ n \in Nat /\ done \in Nat
      /\ need \in 1 .. B - 1 /\ need <= n /\ off + n = Len(buf)
      /\ buf \in Seq(Byte)
      /\ Taken = done + held
  BY <1>1, Sizes DEF TypeOK, CopiesInBounds, Room, Taken
<1>3. /\ pc' = "process" /\ ret' = ret /\ held' = 0
      /\ off' = off + need /\ n' = n - need /\ buf' = buf
      /\ done' = done /\ msg' = msg /\ phase' = phase /\ bits' = bits
      /\ bytes' = (bytes + need) % M
      /\ buffer' = Copied(buffer, held, buf, off, need) /\ block_W' = buffer'
      /\ UNCHANGED <<cv, found_collision, config, block_in, search, history>>
  BY DEF ingest_fill, Fill, Room, history
<1>4. Stream' = Stream
  BY <1>3 DEF Stream
<1>5. /\ InProcess' /\ ~InIngest' /\ Kept' = 0 /\ Taken' = Taken + need
      /\ LengthPending' = LengthPending
  BY <1>1, <1>2, <1>3, Sizes
  DEF InProcess, InIngest, Kept, Taken, LengthPending
<1>6. /\ bytes' = Taken' % M /\ bytes' \in 0 .. M - 1
  BY <1>1, <1>2, <1>3, <1>5, CounterAdds, Sizes
<1>7. ASSUME NEW k \in 1 .. n
      PROVE  buf[off + k] = Stream[Taken + k] /\ buf[off + k] \in Byte
  <2>1. off + k \in 1 .. Len(buf)
    BY <1>2
  <2> QED
    BY <1>1, <1>2, <2>1, ElementOfSeq DEF StreamAccounted
<1>8. \A k \in 1 .. B :
        buffer'[k] = IF k <= held THEN buffer[k] ELSE buf[off + (k - held)]
  <2> TAKE k \in 1 .. B
  <2>1. DOMAIN buffer = 1 .. B
    BY <1>1 DEF TypeOK
  <2>2. off + k - held = off + (k - held)
    BY <1>2, Sizes
  <2>3. buffer'[k] = IF held < k /\ k <= held + need
                     THEN buf[off + k - held] ELSE buffer[k]
    BY <1>3, <2>1 DEF Copied
  <2>4. k <= held + need /\ (k <= held <=> ~(held < k))
    BY <1>2, Sizes
  <2> QED
    BY <2>2, <2>3, <2>4
<1>9. \A k \in 1 .. B : block_W'[k] = Stream[done + k]
  <2> TAKE k \in 1 .. B
  <2>1. CASE k <= held
    <3>1. k \in 1 .. Kept /\ Taken - Kept + k = done + k
      BY <1>1, <1>2, <2>1
    <3> QED
      BY <1>1, <1>3, <1>8, <2>1, <3>1 DEF StreamAccounted
  <2>2. CASE ~(k <= held)
    <3>1. k - held \in 1 .. n /\ Taken + (k - held) = done + k
      BY <1>2, <2>2, Sizes
    <3> QED
      BY <1>3, <1>7, <1>8, <2>2, <3>1
  <2> QED
    BY <2>1, <2>2
<1>10. TypeOK'
  <2>1. buffer' \in [1 .. B -> Byte \cup {Uninit}]
    <3>1. DOMAIN buffer = 1 .. B /\ \A k \in 1 .. B : buffer[k] \in Byte \cup {Uninit}
      BY <1>1 DEF TypeOK
    <3>2. \A k \in 1 .. B : buffer'[k] \in Byte \cup {Uninit}
      <4> TAKE k \in 1 .. B
      <4>1. ~(k <= held) => k - held \in 1 .. n
        BY <1>2, Sizes
      <4> QED
        BY <1>7, <1>8, <3>1, <4>1
    <3>3. buffer' = [k \in 1 .. B |-> buffer'[k]]
      BY <1>3, <3>1 DEF Copied
    <3> QED
      BY <3>2, <3>3
  <2>2. off' \in Nat /\ n' \in Nat /\ held' \in 0 .. B - 1
    BY <1>2, <1>3, Sizes
  <2> QED
    BY <1>1, <1>3, <1>6, <2>1, <2>2 DEF TypeOK, config, history, search
<1>11. CopiesInBounds'
  BY <1>3, <1>5 DEF CopiesInBounds
<1>12. CallShape'
  BY <1>1, <1>2, <1>3, <1>5, Sizes DEF CallShape
<1>13. BlockIsNextOfStream'
  <2>1. done + B <= Len(Stream)
    BY <1>1, <1>2, StreamType, Sizes DEF StreamAccounted
  <2> QED
    BY <1>3, <1>4, <1>9, <2>1 DEF BlockIsNextOfStream
<1>14. StreamAccounted'
  <2>1. Len(Stream) = Taken' + n' + (IF LengthPending' THEN L ELSE 0)
    BY <1>1, <1>2, <1>3, <1>5, Sizes DEF StreamAccounted
  <2>2. \A k \in 1 .. n' : buf'[off' + k] = Stream[Taken' + k]
    <3> TAKE k \in 1 .. n'
    <3>1. /\ need + k \in 1 .. n /\ off' + k = off + (need + k)
          /\ Taken' + k = Taken + (need + k)
      BY <1>2, <1>3, <1>5, Sizes
    <3> QED
      BY <1>3, <1>7, <3>1
  <2> QED
    BY <1>1, <1>3, <1>4, <1>5, <1>6, <2>1, <2>2 DEF StreamAccounted
<1> QED
  BY <1>10, <1>11, <1>12, <1>13, <1>14 DEF StreamInv

LEMMA BlockKeepsInv ==
  ASSUME StreamInv, ingest_block
  PROVE  StreamInv'
<1>1. /\ TypeOK /\ CopiesInBounds /\ CallShape /\ StreamAccounted
      /\ pc = "loop" /\ InIngest /\ ~InProcess /\ Kept = held
  BY DEF StreamInv, ingest_block, InIngest, InProcess, Kept
<1>2. /\ held = 0 /\ off \in Nat /\ n \in Nat /\ done \in Nat
      /\ B <= n /\ off + n = Len(buf) /\ buf \in Seq(Byte)
      /\ Taken = done
  BY <1>1, Sizes DEF TypeOK, CopiesInBounds, Taken, ingest_block
<1>3. /\ pc' = "process" /\ ret' = ret /\ held' = held
      /\ off' = off + B /\ n' = n - B /\ buf' = buf
      /\ done' = done /\ msg' = msg /\ phase' = phase /\ bits' = bits
      /\ bytes' = (bytes + B) % M
      /\ block_W' = [j \in 1 .. B |-> buf[off + j]]
      /\ buffer' = IF ALLOW_UNALIGNED_ACCESS
                   THEN buffer ELSE Copied(buffer, 0, buf, off, B)
      /\ UNCHANGED <<cv, found_collision, config, block_in, search, history>>
  BY DEF ingest_block, history
<1>4. Stream' = Stream
  BY <1>3 DEF Stream
<1>5. /\ InProcess' /\ ~InIngest' /\ Kept' = 0 /\ Taken' = Taken + B
      /\ LengthPending' = LengthPending
  BY <1>1, <1>2, <1>3, Sizes
  DEF InProcess, InIngest, Kept, Taken, LengthPending
<1>6. /\ bytes' = Taken' % M /\ bytes' \in 0 .. M - 1
  BY <1>1, <1>3, <1>5, CounterAdds, Sizes
<1>7. ASSUME NEW k \in 1 .. n
      PROVE  buf[off + k] = Stream[Taken + k] /\ buf[off + k] \in Byte
  <2>1. off + k \in 1 .. Len(buf)
    BY <1>2
  <2> QED
    BY <1>1, <1>2, <2>1, ElementOfSeq DEF StreamAccounted
<1>8. \A k \in 1 .. B : /\ block_W'[k] = Stream[done + k]
                        /\ block_W'[k] \in Byte
  <2> TAKE k \in 1 .. B
  <2>1. k \in 1 .. n
    BY <1>2, Sizes
  <2> QED
    BY <1>2, <1>3, <1>7, <2>1
<1>9. TypeOK'
  <2>1. buffer' \in [1 .. B -> Byte \cup {Uninit}]
    <3>1. /\ DOMAIN buffer = 1 .. B
          /\ \A k \in 1 .. B : buffer[k] \in Byte \cup {Uninit}
      BY <1>1 DEF TypeOK
    <3>2. CASE ALLOW_UNALIGNED_ACCESS
      BY <1>1, <1>3, <3>2 DEF TypeOK
    <3>3. CASE ~ALLOW_UNALIGNED_ACCESS
      <4>1. buffer' = [k \in 1 .. B |->
                         IF 0 < k /\ k <= 0 + B THEN buf[off + k - 0] ELSE buffer[k]]
        BY <1>3, <3>1, <3>3 DEF Copied
      <4>2. \A k \in 1 .. B : (IF 0 < k /\ k <= 0 + B THEN buf[off + k - 0]
                               ELSE buffer[k]) \in Byte \cup {Uninit}
        <5> TAKE k \in 1 .. B
        <5>1. k \in 1 .. n /\ off + k - 0 = off + k
          BY <1>2, Sizes
        <5> QED
          BY <1>7, <3>1, <5>1
      <4> QED
        BY <4>1, <4>2
    <3> QED
      BY <3>2, <3>3
  <2>2. block_W' \in [1 .. B -> Byte \cup {Uninit}]
    BY <1>3, <1>8
  <2>3. off' \in Nat /\ n' \in Nat
    BY <1>2, <1>3, Sizes
  <2> QED
    BY <1>1, <1>3, <1>6, <2>1, <2>2, <2>3 DEF TypeOK, config, history, search
<1>10. CopiesInBounds'
  BY <1>3, <1>5 DEF CopiesInBounds
<1>11. CallShape'
  BY <1>1, <1>2, <1>3, <1>5, Sizes DEF CallShape
<1>12. BlockIsNextOfStream'
  <2>1. done + B <= Len(Stream)
    BY <1>1, <1>2, StreamType, Sizes DEF StreamAccounted
  <2> QED
    BY <1>3, <1>4, <1>8, <2>1 DEF BlockIsNextOfStream
<1>13. StreamAccounted'
  <2>1. Len(Stream) = Taken' + n' + (IF LengthPending' THEN L ELSE 0)
    BY <1>1, <1>2, <1>3, <1>5, Sizes DEF StreamAccounted
  <2>2. \A k \in 1 .. n' : buf'[off' + k] = Stream[Taken' + k]
    <3> TAKE k \in 1 .. n'
    <3>1. /\ B + k \in 1 .. n /\ off' + k = off + (B + k)
          /\ Taken' + k = Taken + (B + k)
      BY <1>2, <1>3, <1>5, Sizes
    <3> QED
      BY <1>3, <1>7, <3>1
  <2> QED
    BY <1>1, <1>3, <1>4, <1>5, <1>6, <2>1, <2>2 DEF StreamAccounted
<1> QED
  BY <1>9, <1>10, <1>11, <1>12, <1>13 DEF StreamInv

LEMMA TailKeepsInv ==
  ASSUME StreamInv, ingest_tail
  PROVE  StreamInv'
<1>1. /\ TypeOK /\ CopiesInBounds /\ CallShape /\ StreamAccounted
      /\ pc = "loop" /\ InIngest /\ ~InProcess /\ Kept = held
  BY DEF StreamInv, ingest_tail, InIngest, InProcess, Kept
<1>2. /\ held \in 0 .. B - 1 /\ off \in Nat /\ n \in Nat /\ done \in Nat
      /\ n < B /\ held + n < B /\ off + n = Len(buf) /\ buf \in Seq(Byte)
      /\ Taken = done + held
      /\ bytes \in 0 .. M - 1
      /\ ret \in {"idle", "finish_length", "finish_output"}
  BY <1>1, Sizes DEF TypeOK, CopiesInBounds, Taken, ingest_tail
<1>3. /\ pc' = ret /\ ret' = "idle"
      /\ held' = 0 /\ off' = 0 /\ n' = 0 /\ buf' = <<>>
      /\ done' = done /\ msg' = msg /\ phase' = phase /\ bits' = bits
      /\ bytes' = IF n > 0 THEN (bytes + n) % M ELSE bytes
      /\ buffer' = IF n > 0 THEN Copied(buffer, held, buf, off, n) ELSE buffer
      /\ UNCHANGED <<cv, found_collision, config, block_W, block_in,
                     search, history>>
  BY <1>2 DEF ingest_tail, Leave, history
<1>4. Stream' = Stream
  BY <1>3 DEF Stream
<1>5. bytes' = (Taken + n) % M /\ bytes' \in 0 .. M - 1
  <2>1. CASE n > 0
    BY <1>1, <1>2, <1>3, <2>1, CounterAdds
  <2>2. CASE n = 0
    <3>1. Taken + n = Taken
      BY <1>1, <2>2, CounterPosition
    <3> QED
      BY <1>1, <1>2, <1>3, <2>2, <3>1 DEF StreamAccounted
  <2> QED
    BY <1>2, <2>1, <2>2
<1>6. bytes' % B = held + n
  <2>1. Taken + n \in Int /\ Taken + n = done + (held + n)
    BY <1>2, Sizes
  <2>2. ((Taken + n) % M) % B = (Taken + n) % B
    BY <2>1, ModOfMod, Sizes
  <2>3. done % B = 0 /\ done \in Int /\ held + n \in 0 .. B - 1
    BY <1>1, <1>2, Sizes DEF StreamAccounted
  <2>4. (done + (held + n)) % B = held + n
    BY <2>3, ModAfterBlocks, Sizes
  <2> QED
    BY <1>5, <2>1, <2>2, <2>4
<1>7. /\ ~InProcess' /\ ~InIngest' /\ Kept' = held + n /\ Taken' = Taken + n
      /\ LengthPending' = LengthPending
  BY <1>1, <1>2, <1>3, <1>6, Sizes
  DEF InProcess, InIngest, Kept, Taken, LengthPending
<1>8. ASSUME NEW k \in 1 .. n
      PROVE  buf[off + k] = Stream[Taken + k] /\ buf[off + k] \in Byte
  <2>1. off + k \in 1 .. Len(buf)
    BY <1>2
  <2> QED
    BY <1>1, <1>2, <2>1, ElementOfSeq DEF StreamAccounted
<1>9. /\ buffer' \in [1 .. B -> Byte \cup {Uninit}]
      /\ \A k \in 1 .. held + n :
           buffer'[k] = IF k <= held THEN buffer[k] ELSE buf[off + (k - held)]
  <2>1. /\ DOMAIN buffer = 1 .. B
        /\ \A k \in 1 .. B : buffer[k] \in Byte \cup {Uninit}
    BY <1>1 DEF TypeOK
  <2>2. CASE n > 0
    <3>1. buffer' = [k \in 1 .. B |-> IF held < k /\ k <= held + n
                                      THEN buf[off + k - held] ELSE buffer[k]]
      BY <1>3, <2>1, <2>2 DEF Copied
    <3>2. \A k \in 1 .. B : held < k /\ k <= held + n =>
            buf[off + k - held] = buf[off + (k - held)] /\ k - held \in 1 .. n
      BY <1>2, Sizes
    <3>3. \A k \in 1 .. B : (IF held < k /\ k <= held + n
                             THEN buf[off + k - held] ELSE buffer[k])
                            \in Byte \cup {Uninit}
      BY <1>8, <2>1, <3>2
    <3>4. \A k \in 1 .. held + n : k \in 1 .. B /\ (k <= held <=> ~(held < k))
      BY <1>2, Sizes
    <3> QED
      BY <3>1, <3>2, <3>3, <3>4
  <2>3. CASE n = 0
    BY <1>1, <1>2, <1>3, <2>3 DEF TypeOK
  <2> QED
    BY <1>2, <2>2, <2>3
<1>10. \A k \in 1 .. Kept' : buffer'[k] = Stream[Taken' - Kept' + k]
  <2> TAKE k \in 1 .. Kept'
  <2>1. Taken' - Kept' + k = done + k
    BY <1>2, <1>7
  <2>2. CASE k <= held
    <3>1. k \in 1 .. Kept /\ Taken - Kept + k = done + k
      BY <1>1, <1>2, <1>7, <2>2
    <3> QED
      BY <1>1, <1>7, <1>9, <2>1, <2>2, <3>1 DEF StreamAccounted
  <2>3. CASE ~(k <= held)
    <3>1. k - held \in 1 .. n /\ Taken + (k - held) = done + k
      BY <1>2, <1>7, <2>3
    <3> QED
      BY <1>7, <1>8, <1>9, <2>1, <2>3, <3>1
  <2> QED
    BY <2>2, <2>3
<1>11. TypeOK'
  BY <1>1, <1>2, <1>3, <1>5, <1>9, EmptySeq, Sizes
  DEF TypeOK, config, history, search
<1>12. CopiesInBounds'
  BY <1>2, <1>3, <1>5, <1>7, PaddingInRange DEF CopiesInBounds
<1>13. CallShape'
  BY <1>1, <1>2, <1>3, <1>7 DEF CallShape
<1>14. BlockIsNextOfStream'
  BY <1>7 DEF BlockIsNextOfStream
<1>15. StreamAccounted'
  <2>1. Len(Stream) = Taken' + n' + (IF LengthPending' THEN L ELSE 0)
    BY <1>1, <1>2, <1>3, <1>7, Sizes DEF StreamAccounted
  <2>2. \A k \in 1 .. n' : buf'[off' + k] = Stream[Taken' + k]
    BY <1>3
  <2> QED
    BY <1>1, <1>3, <1>4, <1>5, <1>7, <1>10, <2>1, <2>2 DEF StreamAccounted
<1> QED
  BY <1>11, <1>12, <1>13, <1>14, <1>15 DEF StreamInv

(* The steps of process change nothing but what is not among these. *)
Searching ==
  /\ InProcess
  /\ UNCHANGED <<buffer, bytes, config, block_W>>
  /\ UNCHANGED <<ret, buf, off, n, held, bits, msg, phase, messages>>

(* While a block is processed it stays the next one of the stream...       *)
LEMMA SearchKeepsInv ==
  ASSUME StreamInv, Searching, TypeOK', InProcess', done' = done
  PROVE  StreamInv'
<1>1. /\ CopiesInBounds /\ CallShape /\ StreamAccounted /\ BlockIsNextOfStream
      /\ InProcess /\ ~InIngest /\ pc \notin {"idle", "finish_length", "finish_output"}
      /\ ~InIngest' /\ pc' \notin {"idle", "finish_length", "finish_output"}
  BY DEF StreamInv, Searching, InProcess, InIngest
<1>2. /\ Stream' = Stream
      /\ UNCHANGED <<buffer, bytes, block_W, ret, buf, off, n, held, bits, msg,
                     phase, done>>
  BY DEF Stream, Searching
<1>3. Kept' = Kept /\ Taken' = Taken /\ LengthPending' = LengthPending
  BY <1>1, <1>2 DEF Kept, Taken, LengthPending
<1>4. CopiesInBounds'
  BY <1>1 DEF CopiesInBounds, InIngest
<1>5. CallShape'
  BY <1>1, <1>2 DEF CallShape
<1>6. StreamAccounted' /\ BlockIsNextOfStream'
  BY <1>1, <1>2, <1>3 DEF StreamAccounted, BlockIsNextOfStream
<1> QED
  BY <1>4, <1>5, <1>6 DEF StreamInv

(* ... and then counts as processed.                                       *)
LEMMA ProcessedKeepsInv ==
  ASSUME StreamInv, Searching, TypeOK', Processed
  PROVE  StreamInv'
<1>1. /\ TypeOK /\ CallShape /\ StreamAccounted
      /\ InProcess /\ ~InIngest /\ pc \notin {"idle", "finish_length", "finish_output"}
      /\ ~InProcess' /\ InIngest' /\ pc' = "loop"
  BY DEF StreamInv, Searching, Processed, InProcess, InIngest
<1>2. /\ Stream' = Stream
      /\ UNCHANGED <<buffer, bytes, block_W, ret, buf, off, n, held, bits, msg,
                     phase>>
      /\ done' = done + B
  BY DEF Stream, Searching, Processed
<1>3. held = 0 /\ off + n = Len(buf) /\ n \in Nat /\ done \in Nat
  BY <1>1 DEF CallShape, TypeOK
<1>4. /\ Kept = 0 /\ Kept' = 0 /\ Taken = done + B /\ Taken' = Taken
      /\ LengthPending' = LengthPending
  BY <1>1, <1>2, <1>3, Sizes DEF Kept, Taken, LengthPending
<1>5. done' % B = 0
  BY <1>1, <1>2, <1>3, ModNextBlock, Sizes DEF StreamAccounted
<1>6. CopiesInBounds'
  BY <1>1, <1>2, <1>3, Sizes DEF CopiesInBounds
<1>7. CallShape'
  BY <1>1, <1>2 DEF CallShape
<1>8. StreamAccounted' /\ BlockIsNextOfStream'
  BY <1>1, <1>2, <1>4, <1>5 DEF StreamAccounted, BlockIsNextOfStream
<1> QED
  BY <1>6, <1>7, <1>8 DEF StreamInv

(* The block being processed has been written in full.                     *)
LEMMA BlockIsWritten ==
  ASSUME StreamInv, InProcess
  PROVE  block_W \in Block
<1>1. \A k \in 1 .. B : block_W[k] \in Byte
  <2> TAKE k \in 1 .. B
  <2>1. done + k \in 1 .. Len(Stream) /\ block_W[k] = Stream[done + k]
    BY StreamType, Sizes DEF StreamInv, BlockIsNextOfStream, TypeOK
  <2> QED
    BY <2>1, StreamType, ElementOfSeq DEF StreamInv
<1>2. DOMAIN block_W = 1 .. B /\ block_W = [k \in 1 .. B |-> block_W[k]]
  BY DEF StreamInv, TypeOK
<1> QED
  BY <1>1, <1>2 DEF Block

LEMMA ProcessKeepsInv ==
  ASSUME StreamInv, process
  PROVE  StreamInv'
<1>1. TypeOK /\ InProcess /\ Searching
  BY DEF StreamInv, process, Searching, InProcess
<1>2. block_W \in Block /\ 0 \in DV
  BY <1>1, BlockIsWritten, SizesAssumption DEF DV
<1>3. Candidates \subseteq DV
  BY <1>2, UbcAssumption DEF Candidates
<1>4. cv' \in CV /\ block_in' \in CV
  BY <1>1, <1>2, HashAssumption DEF process, TypeOK
<1>5. CASE detect_coll /\ Candidates # {}
  <2>1. dvs' = Candidates /\ i' = 0 /\ pc' = "test" /\ done' = done
    BY <1>5 DEF process
  <2>2. TypeOK'
    BY <1>1, <1>2, <1>3, <1>4, <2>1 DEF process, TypeOK, config
  <2> QED
    BY <1>1, <2>1, <2>2, SearchKeepsInv DEF InProcess
<1>6. CASE ~(detect_coll /\ Candidates # {})
  <2>1. Processed
    BY <1>6 DEF process
  <2>2. done' \in Nat
    BY <1>1, <2>1, Sizes DEF Processed, TypeOK
  <2>3. TypeOK'
    BY <1>1, <1>2, <1>4, <2>1, <2>2 DEF process, Processed, TypeOK, config
  <2> QED
    BY <1>1, <2>1, <2>3, ProcessedKeepsInv
<1> QED
  BY <1>5, <1>6

LEMMA SafeHashType ==
  ASSUME StreamInv, InProcess, SafeHash
  PROVE  cv' \in CV
<1>1. block_W \in Block /\ cv \in CV
  BY BlockIsWritten DEF StreamInv, TypeOK
<1>2. Compress(cv, block_W) \in CV
  BY <1>1, HashAssumption
<1>3. Compress(Compress(cv, block_W), block_W) \in CV
  BY <1>1, <1>2, HashAssumption
<1> QED
  BY <1>1, <1>3 DEF SafeHash

LEMMA HitKeepsInv ==
  ASSUME StreamInv, test_hit
  PROVE  StreamInv'
<1>1. TypeOK /\ InProcess /\ Searching
  BY DEF StreamInv, test_hit, Searching, InProcess
<1>2. CASE collision # NoHandler
  <2>1. pc' = "handler" /\ UNCHANGED <<cv, dvs, i, done>>
    BY <1>2 DEF test_hit
  <2>2. TypeOK'
    BY <1>1, <2>1 DEF test_hit, TypeOK, config
  <2> QED
    BY <1>1, <2>1, <2>2, SearchKeepsInv DEF InProcess
<1>3. CASE collision = NoHandler
  <2>1. Processed /\ SafeHash
    BY <1>3 DEF test_hit, AfterHit
  <2>2. cv' \in CV /\ 0 \in DV
    BY <1>1, <2>1, SafeHashType, SizesAssumption DEF DV
  <2>3. done' \in Nat
    BY <1>1, <2>1, Sizes DEF Processed, TypeOK
  <2>4. TypeOK'
    BY <1>1, <2>1, <2>2, <2>3 DEF test_hit, Processed, TypeOK, config
  <2> QED
    BY <1>1, <2>1, <2>4, ProcessedKeepsInv
<1> QED
  BY <1>2, <1>3

LEMMA HandlerReturnKeepsInv ==
  ASSUME StreamInv, handler_returns
  PROVE  StreamInv'
<1>1. TypeOK /\ InProcess /\ Searching /\ Processed /\ SafeHash
  BY DEF StreamInv, handler_returns, AfterHit, Searching, InProcess
<1>2. cv' \in CV /\ 0 \in DV
  BY <1>1, SafeHashType, SizesAssumption DEF DV
<1>3. done' \in Nat
  BY <1>1, Sizes DEF Processed, TypeOK
<1>4. TypeOK'
  BY <1>1, <1>2, <1>3 DEF handler_returns, Processed, TypeOK, config
<1> QED
  BY <1>1, <1>4, ProcessedKeepsInv

LEMMA MissKeepsInv ==
  ASSUME StreamInv, test_miss
  PROVE  StreamInv'
<1>1. TypeOK /\ InProcess /\ Searching /\ UNCHANGED ctx
  BY DEF StreamInv, test_miss, Searching, InProcess, ctx, config
<1>2. 0 \in DV
  BY SizesAssumption DEF DV
<1>3. CASE IsVector(i + 1)
  <2>1. i' = i + 1 /\ pc' = "test" /\ dvs' = dvs /\ done' = done
    BY <1>3 DEF test_miss, AfterMiss, NextVector
  <2>2. i' \in DV
    BY <1>1, <1>3, <2>1, SizesAssumption DEF IsVector, DV, TypeOK
  <2>3. TypeOK'
    BY <1>1, <2>1, <2>2 DEF test_miss, TypeOK, ctx
  <2> QED
    BY <1>1, <2>1, <2>3, SearchKeepsInv DEF InProcess
<1>4. CASE ~IsVector(i + 1)
  <2>1. Processed
    BY <1>4 DEF test_miss, AfterMiss, NextVector
  <2>2. done' \in Nat
    BY <1>1, <2>1, Sizes DEF Processed, TypeOK
  <2>3. TypeOK'
    BY <1>1, <1>2, <2>1, <2>2 DEF test_miss, Processed, TypeOK, ctx
  <2> QED
    BY <1>1, <2>1, <2>3, ProcessedKeepsInv
<1> QED
  BY <1>3, <1>4

(* Entering sha1dc_ingest with some bytes. *)
LEMMA EnterEffect ==
  ASSUME TypeOK, CallShape, StreamAccounted, pc \in {"idle", "finish_length"},
         NEW data \in Seq(Byte), Len(data) # 0,
         NEW return, Enter(data, return), UNCHANGED <<bytes, done>>
  PROVE  /\ pc' \in {"fill", "loop"} /\ ret' = return
         /\ buf' = data /\ off' = 0 /\ n' = Len(data) /\ held' \in 0 .. B - 1
         /\ InIngest' /\ ~InProcess'
         /\ Kept' = Kept /\ Taken' = Taken
         /\ CopiesInBounds'
<1>1. /\ pc' = IF Completes(bytes % B, Len(data)) THEN "fill" ELSE "loop"
      /\ ret' = return
      /\ buf' = data /\ off' = 0 /\ n' = Len(data)
      /\ held' = bytes % B
  BY DEF Enter
<1>2. InIngest' /\ ~InProcess' /\ pc' \in {"fill", "loop"}
  BY <1>1 DEF InIngest, InProcess
<1>3. bytes % B = Kept /\ Kept \in 0 .. B - 1
  BY CounterPosition
<1>4. Kept' = Kept
  BY <1>1, <1>2, <1>3 DEF Kept
<1>5. Taken' = Taken
  BY <1>2, <1>4 DEF Taken, InProcess
<1>6. Len(data) \in Nat
  BY LenProperties
<1>7. CopiesInBounds'
  <2> DEFINE k == Len(data)
  <2>1. Kept \in 0 .. B - 1 /\ k \in Nat
    BY <1>3, <1>6
  <2> HIDE DEF k
  <2>2. pc' = IF Kept # 0 /\ k >= B - Kept THEN "fill" ELSE "loop"
    BY <1>1, <1>3 DEF Completes, Room, k
  <2>3. off' + n' = Len(buf') /\ held' = Kept /\ n' = k
    BY <1>1, <1>3, <1>6 DEF k
  <2>4. CASE Kept # 0 /\ k >= B - Kept
    <3>1. pc' = "fill" /\ Kept > 0
      BY <2>1, <2>2, <2>4, Sizes
    <3> QED
      BY <2>3, <2>4, <3>1 DEF CopiesInBounds, Room
  <2>5. CASE ~(Kept # 0 /\ k >= B - Kept)
    <3>1. pc' = "loop"
      BY <2>2, <2>5
    <3>2. (k < B => Kept + k < B) /\ (k >= B => Kept = 0)
      BY <2>1, <2>5, Sizes
    <3> QED
      BY <2>3, <3>1, <3>2 DEF CopiesInBounds, Room
  <2> QED
    BY <2>4, <2>5
<1> QED
  BY <1>1, <1>2, <1>3, <1>4, <1>5, <1>7

LEMMA IngestKeepsInv ==
  ASSUME StreamInv, NEW data \in Chunks, sha1dc_ingest(data)
  PROVE  StreamInv'
<1> DEFINE m == msg \o data
<1>1. /\ TypeOK /\ CopiesInBounds /\ CallShape /\ StreamAccounted
      /\ pc = "idle" /\ phase = "open" /\ ~InIngest /\ ~InProcess
  BY DEF StreamInv, sha1dc_ingest, InIngest, InProcess
<1>2. /\ data \in Seq(Byte) /\ Len(data) \in Nat
      /\ msg \in Seq(Byte) /\ Len(msg) \in Nat
  BY <1>1, ClientAssumption, LenProperties DEF TypeOK
<1>3. /\ msg' = msg \o data /\ phase' = phase /\ UNCHANGED <<bytes, done>>
      /\ Enter(data, "idle")
      /\ UNCHANGED <<ctx, bits, search, done, log, output, messages>>
  BY <1>1 DEF sha1dc_ingest, ctx
<1>4. Stream = msg /\ Stream' = m /\ msg' = m
  BY <1>1, <1>3 DEF Stream
<1>5. /\ m \in Seq(Byte) /\ Len(m) = Len(msg) + Len(data)
      /\ \A k \in 1 .. Len(msg) + Len(data) :
           m[k] = IF k <= Len(msg) THEN msg[k] ELSE data[k - Len(msg)]
  BY <1>2, ConcatProperties
<1> HIDE DEF m
<1>6. ret = "idle" /\ n = 0 /\ Len(msg) = Taken /\ ~LengthPending
  BY <1>1, <1>4, CounterPosition DEF CallShape, StreamAccounted, LengthPending
<1>7. Kept \in 0 .. B - 1 /\ Taken \in Nat /\ Kept <= Taken
  BY <1>1, CounterPosition, Sizes DEF Taken, TypeOK
<1>8. \A k \in 1 .. Kept : buffer[k] = m[Taken - Kept + k]
  <2> TAKE k \in 1 .. Kept
  <2>1. /\ Taken - Kept + k \in 1 .. Len(msg) + Len(data)
        /\ Taken - Kept + k <= Len(msg)
    BY <1>2, <1>6, <1>7, Sizes
  <2> QED
    BY <1>1, <1>4, <1>5, <2>1 DEF StreamAccounted
<1>9. CASE Len(data) = 0
  <2>1. /\ pc' = pc /\ ret' = ret /\ buf' = buf /\ off' = off
        /\ n' = n /\ held' = held
    BY <1>1, <1>3, <1>6, <1>9 DEF Enter
  <2>2. /\ ~InIngest' /\ ~InProcess' /\ Kept' = Kept /\ Taken' = Taken
        /\ LengthPending' = LengthPending
    BY <1>1, <1>3, <2>1 DEF InIngest, InProcess, Kept, Taken, LengthPending
  <2>3. TypeOK'
    BY <1>1, <1>3, <1>4, <1>5, <2>1 DEF TypeOK, ctx, search
  <2>4. CopiesInBounds' /\ CallShape'
    BY <1>1, <1>3, <2>1, <2>2 DEF CopiesInBounds, CallShape
  <2>5. BlockIsNextOfStream'
    BY <2>2 DEF BlockIsNextOfStream
  <2>6. Len(m) = Taken' + n'
    BY <1>2, <1>5, <1>6, <1>7, <1>9, <2>1, <2>2
  <2>7. \A k \in 1 .. n' : buf'[off' + k] = Stream'[Taken' + k]
    BY <1>6, <2>1
  <2>8. StreamAccounted'
    BY <1>1, <1>3, <1>4, <1>6, <1>7, <1>8, <2>1, <2>2, <2>6, <2>7
    DEF StreamAccounted, ctx
  <2> QED
    BY <2>3, <2>4, <2>5, <2>8 DEF StreamInv
<1>10. CASE Len(data) # 0
  <2>1. /\ pc' \in {"fill", "loop"} /\ ret' = "idle"
        /\ buf' = data /\ off' = 0 /\ n' = Len(data) /\ held' \in 0 .. B - 1
        /\ InIngest' /\ ~InProcess'
        /\ Kept' = Kept /\ Taken' = Taken
        /\ CopiesInBounds'
    BY <1>1, <1>2, <1>3, <1>10, EnterEffect
  <2>2. TypeOK'
    BY <1>1, <1>2, <1>3, <1>4, <1>5, <2>1 DEF TypeOK, ctx, search
  <2>3. CallShape'
    BY <1>1, <1>3, <2>1 DEF CallShape
  <2>4. BlockIsNextOfStream'
    BY <2>1 DEF BlockIsNextOfStream
  <2>5. ~LengthPending'
    BY <2>1 DEF LengthPending
  <2>6. Len(m) = Taken' + n'
    BY <1>5, <1>6, <2>1
  <2>7. \A k \in 1 .. Len(data) : buf'[off' + k] = m[Taken' + k]
    <3> TAKE k \in 1 .. Len(data)
    <3> DEFINE j == Taken + k
    <3>1. /\ j \in 1 .. Len(msg) + Len(data)
          /\ ~(j <= Len(msg)) /\ j - Len(msg) = k
      BY <1>2, <1>6, <1>7
    <3>2. Taken' + k = j /\ off' + k = k
      BY <1>7, <2>1
    <3> HIDE DEF j
    <3>3. m[j] = data[j - Len(msg)]
      BY <3>1, <1>5
    <3> QED
      BY <2>1, <3>1, <3>2, <3>3
  <2>8. n' = Len(data)
    BY <2>1
  <2>9. StreamAccounted'
    <3>1. done' % B = 0 /\ bytes' = Taken' % M
      BY <1>1, <1>3, <2>1 DEF StreamAccounted
    <3>2. buffer' = buffer /\ phase' # "padded"
      BY <1>1, <1>3 DEF ctx
    <3>3. \A k \in 1 .. Kept' : buffer'[k] = m[Taken' - Kept' + k]
      BY <1>8, <2>1, <3>2
    <3> QED
      <4>1. Len(m) = Taken' + n' + (IF LengthPending' THEN L ELSE 0)
        BY <1>2, <1>7, <2>1, <2>5, <2>6, <2>8
      <4> QED
        BY <1>4, <2>7, <2>8, <3>1, <3>2, <3>3, <4>1 DEF StreamAccounted
  <2> QED
    BY <2>1, <2>2, <2>3, <2>4, <2>9 DEF StreamInv
<1> QED
  BY <1>9, <1>10

(* Both calls of ingest in sha1dc_finish: the stream ends with what is sent *)
(* and, after the padding proper, the length field.                         *)
LEMMA FinishKeepsInv ==
  ASSUME StreamInv, sha1dc_finish
  PROVE  StreamInv'
<1> DEFINE len == Len(msg)
           p   == padding_size(len % M)
<1>1. /\ TypeOK /\ CallShape /\ StreamAccounted
      /\ pc = "idle" /\ phase = "open" /\ ~InIngest /\ ~InProcess
  BY DEF StreamInv, sha1dc_finish, InIngest, InProcess
<1>2. /\ msg \in Seq(Byte) /\ len \in Nat
      /\ Stream = msg /\ n = 0 /\ ret = "idle" /\ ~LengthPending
      /\ len = Taken /\ bytes = len % M
  BY <1>1, LenProperties, CounterPosition
  DEF TypeOK, Stream, CallShape, LengthPending, StreamAccounted
<1>3. /\ phase' = "padded" /\ msg' = msg /\ UNCHANGED <<bytes, done>>
      /\ bits' = (BitsPerByte * bytes) % M
      /\ Enter(PaddingSent(len), "finish_length")
      /\ UNCHANGED <<ctx, search, log, output, messages>>
  BY <1>2 DEF sha1dc_finish, PaddingSent, ctx
<1>4. /\ p \in 1 .. B
      /\ PaddingSent(len) \in Seq(Byte) /\ Len(PaddingSent(len)) = p
  BY <1>2, PaddingLength, PaddingSentProps
<1>5. Stream' = Padded(msg)
  BY <1>3 DEF Stream
<1>6. /\ Len(Padded(msg)) = len + p + L
      /\ \A k \in 1 .. len : Padded(msg)[k] = msg[k]
      /\ \A k \in 1 .. p : Padded(msg)[len + k] = PaddingSent(len)[k]
  BY <1>2, PaddedProps
<1>7. bits' = (BitsPerByte * len) % M /\ bits' \in 0 .. M - 1
  <2>1. BitsPerByte \in Int /\ len \in Int
    BY <1>2, Sizes
  <2>2. BitsPerByte * len \in Int
    BY <2>1
  <2>3. (BitsPerByte * len) % M \in 0 .. M - 1
    BY <2>2, DivMod, Sizes
  <2>4. (BitsPerByte * (len % M)) % M = (BitsPerByte * len) % M
    BY <2>1, ModOfProduct, Sizes
  <2> QED
    BY <1>2, <1>3, <2>3, <2>4
<1> HIDE DEF p, len
<1>8. /\ pc' \in {"fill", "loop"} /\ ret' = "finish_length"
      /\ buf' = PaddingSent(len) /\ off' = 0 /\ n' = p
      /\ held' \in 0 .. B - 1
      /\ InIngest' /\ ~InProcess'
      /\ Kept' = Kept /\ Taken' = Taken
      /\ CopiesInBounds'
  <2>1. Len(PaddingSent(len)) # 0
    BY <1>4, Sizes
  <2> QED
    BY <1>1, <1>3, <1>4, <2>1, EnterEffect
<1>9. Kept \in 0 .. B - 1 /\ Taken \in Nat /\ Kept <= Taken
  BY <1>1, CounterPosition, Sizes DEF Taken, TypeOK
<1>10. TypeOK'
  BY <1>1, <1>3, <1>4, <1>7, <1>8, Sizes DEF TypeOK, ctx, search
<1>11. CallShape'
  BY <1>1, <1>3, <1>8 DEF CallShape
<1>12. BlockIsNextOfStream'
  BY <1>8 DEF BlockIsNextOfStream
<1>13. LengthPending'
  BY <1>8 DEF LengthPending
<1>14. \A k \in 1 .. Kept : buffer[k] = Padded(msg)[Taken - Kept + k]
  <2> TAKE k \in 1 .. Kept
  <2>1. Taken - Kept + k \in 1 .. len
    BY <1>2, <1>9, Sizes DEF len
  <2> QED
    BY <1>1, <1>2, <1>6, <2>1 DEF StreamAccounted
<1>15. \A k \in 1 .. n' : buf'[off' + k] = Padded(msg)[Taken' + k]
  <2> TAKE k \in 1 .. n'
  <2>1. off' + k = k /\ Taken' = len /\ k \in 1 .. p
    BY <1>2, <1>4, <1>8, Sizes DEF len
  <2> QED
    BY <1>6, <1>8, <2>1
<1>16. Len(Padded(msg)) = Taken' + n' + L
  BY <1>2, <1>6, <1>8 DEF len
<1>17. done' % B = 0 /\ bytes' = Taken' % M
  BY <1>1, <1>3, <1>8 DEF StreamAccounted
<1>18. buffer' = buffer
  BY <1>3 DEF ctx
<1>19. StreamAccounted'
  BY <1>3, <1>5, <1>7, <1>8, <1>13, <1>14, <1>15, <1>16, <1>17, <1>18
  DEF StreamAccounted, len
<1> QED
  BY <1>8, <1>10, <1>11, <1>12, <1>19 DEF StreamInv

LEMMA LengthKeepsInv ==
  ASSUME StreamInv, finish_length
  PROVE  StreamInv'
<1> DEFINE len == Len(msg)
           p   == padding_size(len % M)
<1>1. /\ TypeOK /\ CallShape /\ StreamAccounted
      /\ pc = "finish_length" /\ phase = "padded" /\ ~InIngest /\ ~InProcess
  BY DEF StreamInv, finish_length, InIngest, InProcess, CallShape
<1>2. /\ msg \in Seq(Byte) /\ len \in Nat
      /\ Stream = Padded(msg) /\ n = 0 /\ LengthPending
      /\ bits = (BitsPerByte * len) % M /\ bits \in 0 .. M - 1
  BY <1>1, LenProperties
  DEF TypeOK, Stream, CallShape, LengthPending, StreamAccounted
<1>3. /\ UNCHANGED <<phase, msg, bytes, done, bits, buffer>>
      /\ Enter(LengthField(bits), "finish_output")
      /\ UNCHANGED <<ctx, search, history>>
  BY DEF finish_length, ctx, history
<1>4. LengthField(bits) \in Seq(Byte) /\ Len(LengthField(bits)) = L
  BY <1>2, LengthSentProps
<1>5. Stream' = Stream
  BY <1>3 DEF Stream
<1>6. /\ Len(Padded(msg)) = len + p + L
      /\ \A k \in 1 .. L : Padded(msg)[len + p + k] = LengthSent(len)[k]
      /\ p \in 1 .. B
  BY <1>2, PaddedProps, PaddingLength
<1>7. LengthField(bits) = LengthSent(len)
  BY <1>2 DEF LengthSent
<1> HIDE DEF p, len
<1>8. Kept \in 0 .. B - 1 /\ Taken \in Nat
  BY <1>1, CounterPosition
<1>9. Taken = len + p
  <2>1. Len(Padded(msg)) = Taken + n + L
    BY <1>1, <1>2 DEF StreamAccounted
  <2> QED
    BY <1>2, <1>6, <1>8, <2>1, Sizes
<1>10. /\ pc' \in {"fill", "loop"} /\ ret' = "finish_output"
       /\ buf' = LengthSent(len) /\ off' = 0 /\ n' = L
       /\ held' \in 0 .. B - 1
       /\ InIngest' /\ ~InProcess'
       /\ Kept' = Kept /\ Taken' = Taken
       /\ CopiesInBounds'
  <2>1. Len(LengthField(bits)) # 0
    BY <1>4, Sizes
  <2> QED
    BY <1>1, <1>3, <1>4, <1>7, <2>1, EnterEffect
<1>11. TypeOK'
  BY <1>1, <1>3, <1>4, <1>7, <1>10, Sizes DEF TypeOK, ctx, search, history
<1>12. CallShape'
  BY <1>1, <1>3, <1>10 DEF CallShape
<1>13. BlockIsNextOfStream'
  BY <1>10 DEF BlockIsNextOfStream
<1>14. ~LengthPending'
  BY <1>10 DEF LengthPending
<1>15. \A k \in 1 .. n' : buf'[off' + k] = Stream[Taken' + k]
  <2> TAKE k \in 1 .. n'
  <2>1. off' + k = k /\ Taken' = len + p /\ k \in 1 .. L
    BY <1>9, <1>10, Sizes
  <2> QED
    BY <1>2, <1>6, <1>10, <2>1
<1>16. Len(Stream) = Taken' + n'
  BY <1>2, <1>6, <1>9, <1>10
<1>17. Taken' \in Nat /\ n' \in Nat
  BY <1>8, <1>10, Sizes
<1>18. StreamAccounted'
  BY <1>1, <1>3, <1>5, <1>10, <1>14, <1>15, <1>16, <1>17 DEF StreamAccounted
<1> QED
  BY <1>10, <1>11, <1>12, <1>13, <1>18 DEF StreamInv

LEMMA OutputKeepsInv ==
  ASSUME StreamInv, finish_output
  PROVE  StreamInv'
<1>1. /\ TypeOK /\ CallShape /\ StreamAccounted
      /\ pc = "finish_output" /\ phase = "padded" /\ ~InIngest /\ ~InProcess
      /\ ret = "idle" /\ n = 0
  BY DEF StreamInv, finish_output, InIngest, InProcess, CallShape
<1>2. /\ pc' = "idle" /\ phase' = "finished" /\ bits' = 0
      /\ UNCHANGED <<ctx, ret, buf, off, n, held, search>>
      /\ UNCHANGED <<msg, done, log, messages>>
  BY DEF finish_output
<1>3. Stream' = Stream
  BY <1>1, <1>2 DEF Stream
<1>4. /\ ~InIngest' /\ ~InProcess' /\ ~LengthPending /\ ~LengthPending'
      /\ Kept' = Kept /\ Taken' = Taken
  BY <1>1, <1>2 DEF InIngest, InProcess, LengthPending, Kept, Taken, ctx
<1>5. TypeOK'
  BY <1>1, <1>2, Sizes DEF TypeOK, ctx, search
<1>6. CopiesInBounds' /\ CallShape'
  BY <1>1, <1>2, <1>4, <1>5, PaddingInRange DEF CopiesInBounds, CallShape, TypeOK
<1>7. BlockIsNextOfStream' /\ StreamAccounted'
  BY <1>1, <1>2, <1>3, <1>4 DEF BlockIsNextOfStream, StreamAccounted, ctx
<1> QED
  BY <1>5, <1>6, <1>7 DEF StreamInv

LEMMA InitHoldsInv ==
  ASSUME Init
  PROVE  StreamInv
<1>1. /\ bytes = 0 /\ done = 0 /\ n = 0 /\ held = 0 /\ off = 0 /\ buf = <<>>
      /\ pc = "idle" /\ ret = "idle" /\ phase = "open" /\ msg = <<>>
      /\ Stream = <<>>
  BY DEF Init, Stream
<1>2. 0 % B = 0 /\ 0 % M = 0
  BY DivMod, Sizes, SMT
<1>3. TypeOK
  <2>1. 0 \in DV /\ 0 \in 0 .. M - 1 /\ 0 \in 0 .. B - 1
    BY Sizes, SizesAssumption DEF DV
  <2>2. buffer \in [1 .. B -> Byte \cup {Uninit}]
    BY DEF Init
  <2>3. cv \in CV /\ block_in \in CV
    BY HashAssumption DEF Init
  <2>4. buf \in Seq(Byte) /\ msg \in Seq(Byte)
    BY <1>1, EmptySeq
  <2> QED
    <3>1. /\ found_collision \in BOOLEAN /\ do_safe_hash \in BOOLEAN
          /\ detect_coll \in BOOLEAN /\ ubc_check \in BOOLEAN
          /\ reduced_round_coll \in BOOLEAN
      BY ClientAssumption, Zenon DEF Init
    <3>2. block_W = buffer /\ bits = 0 /\ dvs = {} /\ i = 0 /\ messages = 1
          /\ collision = NoHandler /\ collision_closure = Uninit
      BY DEF Init
    <3> QED
      BY <1>1, <2>1, <2>2, <2>3, <2>4, <3>1, <3>2 DEF TypeOK
<1>4. ~InIngest /\ ~InProcess /\ ~LengthPending /\ Kept = 0 /\ Taken = 0
  BY <1>1, <1>2 DEF InIngest, InProcess, LengthPending, Kept, Taken
<1>5. CopiesInBounds /\ CallShape
  BY <1>1, <1>3, <1>4, PaddingInRange DEF CopiesInBounds, CallShape, TypeOK
<1>6. Len(Stream) = 0
  BY <1>1
<1>7. BlockIsNextOfStream /\ StreamAccounted
  BY <1>1, <1>2, <1>4, <1>6 DEF BlockIsNextOfStream, StreamAccounted
<1> QED
  BY <1>3, <1>5, <1>7 DEF StreamInv

(* sha1dc_init may interrupt a message and reuse what is in the context.   *)
LEMMA ReinitKeepsInv ==
  ASSUME StreamInv, sha1dc_init
  PROVE  StreamInv'
<1>1. /\ bytes' = 0 /\ done' = 0 /\ pc' = "idle" /\ phase' = "open"
      /\ msg' = <<>> /\ Stream' = <<>>
      /\ n' = 0 /\ off' = 0 /\ buf' = <<>> /\ ret' = "idle"
      /\ UNCHANGED <<held, bits, search, buffer, block_W, block_in>>
      /\ TypeOK
  BY DEF sha1dc_init, NewHash, Stream, call, search, StreamInv, CallShape,
         InIngest, InProcess
<1>2. 0 % B = 0 /\ 0 % M = 0
  BY DivMod, Sizes, SMT
<1>3. TypeOK'
  <2>1. 0 \in 0 .. M - 1
    BY Sizes
  <2>2. cv' \in CV
    BY HashAssumption DEF sha1dc_init, NewHash
  <2>3. buf' \in Seq(Byte) /\ msg' \in Seq(Byte)
    BY <1>1, EmptySeq
  <2>4. messages' \in Nat
    BY <1>1 DEF TypeOK, sha1dc_init
  <2> QED
    <3>1. /\ found_collision' \in BOOLEAN /\ do_safe_hash' \in BOOLEAN
          /\ detect_coll' \in BOOLEAN /\ ubc_check' \in BOOLEAN
          /\ reduced_round_coll' \in BOOLEAN
      BY ClientAssumption, Zenon DEF sha1dc_init, NewHash, DefaultSettings
    <3>2. collision' = NoHandler /\ collision_closure' = collision_closure
      BY DEF sha1dc_init, DefaultSettings
    <3> QED
      BY <1>1, <2>1, <2>2, <2>3, <2>4, <3>1, <3>2 DEF TypeOK, search
<1>4. ~InIngest' /\ ~InProcess' /\ ~LengthPending' /\ Kept' = 0 /\ Taken' = 0
  BY <1>1, <1>2 DEF InIngest, InProcess, LengthPending, Kept, Taken
<1>5. CopiesInBounds' /\ CallShape'
  BY <1>1, <1>3, <1>4, PaddingInRange DEF CopiesInBounds, CallShape, TypeOK
<1>6. Len(Stream') = 0
  BY <1>1
<1>7. BlockIsNextOfStream' /\ StreamAccounted'
  BY <1>1, <1>2, <1>4, <1>6 DEF BlockIsNextOfStream, StreamAccounted
<1> QED
  BY <1>3, <1>5, <1>7 DEF StreamInv

Setter ==
  \/ \E v \in BOOLEAN : \/ sha1dc_set_do_safe_hash(v)
                        \/ sha1dc_set_use_ubc(v)
                        \/ sha1dc_set_detect_coll(v)
                        \/ sha1dc_set_detect_reduced_round_coll(v)
  \/ \E h \in Handlers \cup {NoHandler}, c \in Closures :
       sha1dc_set_callback(h, c)

(* What has nothing to do with the stream leaves it as it is.              *)
LEMMA QuietKeepsInv ==
  ASSUME StreamInv, TypeOK',
         UNCHANGED <<buffer, bytes, block_W, call, msg, phase, done>>
  PROVE  StreamInv'
<1>1. /\ UNCHANGED <<Stream, InIngest, InProcess, Kept, Taken, LengthPending>>
      /\ UNCHANGED <<buffer, bytes, block_W, pc, ret, buf, off, n, held, bits>>
      /\ UNCHANGED <<msg, phase, done>>
  BY DEF Stream, InIngest, InProcess, Kept, Taken, LengthPending, call
<1>2. CopiesInBounds' /\ CallShape'
  BY <1>1 DEF StreamInv, CopiesInBounds, CallShape
<1>3. BlockIsNextOfStream' /\ StreamAccounted'
  BY <1>1 DEF StreamInv, BlockIsNextOfStream, StreamAccounted
<1> QED
  BY <1>2, <1>3 DEF StreamInv

LEMMA SetterKeepsInv ==
  ASSUME StreamInv, Setter
  PROVE  StreamInv'
<1>1. UNCHANGED <<buffer, bytes, cv, found_collision, block_W, block_in,
                  call, search, history>>
  BY DEF Setter, SetterReturns, sha1dc_set_do_safe_hash, sha1dc_set_use_ubc,
         sha1dc_set_detect_coll, sha1dc_set_detect_reduced_round_coll,
         sha1dc_set_callback
<1>2. /\ do_safe_hash' \in BOOLEAN /\ ubc_check' \in BOOLEAN
      /\ detect_coll' \in BOOLEAN /\ reduced_round_coll' \in BOOLEAN
      /\ collision' \in Handlers \cup {NoHandler}
      /\ collision_closure' \in Closures \cup {Uninit}
  BY DEF Setter, sha1dc_set_do_safe_hash, sha1dc_set_use_ubc,
         sha1dc_set_detect_coll, sha1dc_set_detect_reduced_round_coll,
         sha1dc_set_callback, StreamInv, TypeOK
<1>3. TypeOK'
  BY <1>1, <1>2 DEF StreamInv, TypeOK, call, search, history
<1> QED
  BY <1>1, <1>3, QuietKeepsInv DEF history

LEMMA StutterKeepsInv ==
  ASSUME StreamInv, UNCHANGED vars
  PROVE  StreamInv'
<1>1. TypeOK'
  BY DEF StreamInv, TypeOK, vars, ctx, call, search, history
<1> QED
  BY <1>1, QuietKeepsInv DEF vars, ctx, history

LEMMA NextKeepsInv ==
  ASSUME StreamInv, [Next]_vars
  PROVE  StreamInv'
<1>1. CASE sha1dc_init
  BY <1>1, ReinitKeepsInv
<1>2. CASE Setter
  BY <1>2, SetterKeepsInv
<1>3. CASE \E data \in Chunks : sha1dc_ingest(data)
  BY <1>3, IngestKeepsInv
<1>4. CASE sha1dc_finish
  BY <1>4, FinishKeepsInv
<1>5. CASE finish_length
  BY <1>5, LengthKeepsInv
<1>6. CASE finish_output
  BY <1>6, OutputKeepsInv
<1>7. CASE ingest_fill
  BY <1>7, FillKeepsInv
<1>8. CASE ingest_block
  BY <1>8, BlockKeepsInv
<1>9. CASE ingest_tail
  BY <1>9, TailKeepsInv
<1>10. CASE process
  BY <1>10, ProcessKeepsInv
<1>11. CASE test_hit
  BY <1>11, HitKeepsInv
<1>12. CASE test_miss
  BY <1>12, MissKeepsInv
<1>13. CASE handler_returns
  BY <1>13, HandlerReturnKeepsInv
<1>14. CASE UNCHANGED vars
  BY <1>14, StutterKeepsInv
<1> QED
  BY <1>1, <1>2, <1>3, <1>4, <1>5, <1>6, <1>7, <1>8, <1>9, <1>10, <1>11, <1>12,
     <1>13, <1>14
  DEF Next, Client, Library, Setter

-------------------------------------------------------------------------------
(***************************************************************************)
(* The inductive invariant holds of every behaviour of the library.        *)
(***************************************************************************)
THEOREM StreamInvariant == Spec => []StreamInv
<1>1. Init => StreamInv
  BY InitHoldsInv
<1>2. StreamInv /\ [Next]_vars => StreamInv'
  BY NextKeepsInv
<1> QED
  BY <1>1, <1>2, PTL DEF Spec

(* No field of the context and no local ever leaves its type: in           *)
(* particular no unwritten byte is ever compressed, and every chaining     *)
(* value is one.                                                           *)
THEOREM TypeCorrect == Spec => []TypeOK
<1>1. StreamInv => TypeOK
  BY DEF StreamInv
<1> QED
  BY <1>1, StreamInvariant, PTL

(* The copies of sha1dc_ingest and the padding of sha1dc_finish stay       *)
(* within their arrays.                                                    *)
THEOREM CopiesStayInBounds == Spec => []CopiesInBounds
<1>1. StreamInv => CopiesInBounds
  BY DEF StreamInv
<1> QED
  BY <1>1, StreamInvariant, PTL

(* However the message is cut into chunks, process is given its blocks,    *)
(* one after the other.                                                    *)
THEOREM BlocksAreInOrder == Spec => []BlockIsNextOfStream
<1>1. StreamInv => BlockIsNextOfStream
  BY DEF StreamInv
<1> QED
  BY <1>1, StreamInvariant, PTL

(* At every step of every call the stream is accounted for, byte by byte.  *)
THEOREM EveryByteIsAccountedFor == Spec => []StreamAccounted
<1>1. StreamInv => StreamAccounted
  BY DEF StreamInv
<1> QED
  BY <1>1, StreamInvariant, PTL

(* Nothing taken from a client is lost between its calls.                  *)
THEOREM NothingIsLost == Spec => []UnprocessedIsBuffered
<1>1. ASSUME StreamInv, pc = "idle", phase = "open"
      PROVE  /\ Len(msg) = done + (bytes % B) /\ done % B = 0
             /\ bytes = Len(msg) % M
             /\ \A k \in 1 .. bytes % B : buffer[k] = msg[done + k]
  <2>1. /\ TypeOK /\ CallShape /\ StreamAccounted
        /\ ~InIngest /\ ~InProcess /\ ~LengthPending /\ n = 0 /\ Stream = msg
    BY <1>1 DEF StreamInv, InIngest, InProcess, CallShape, LengthPending, Stream
  <2>2. bytes % B = Kept /\ Kept \in 0 .. B - 1 /\ Taken \in Nat
    BY <2>1, CounterPosition
  <2>3. done \in Nat /\ Taken = done + Kept
    BY <2>1, <2>2, Sizes DEF TypeOK, Taken
  <2>4. Len(msg) = Taken
    BY <2>1, <2>2 DEF StreamAccounted
  <2>5. \A k \in 1 .. Kept : Taken - Kept + k = done + k
    BY <2>2, <2>3
  <2>6. \A k \in 1 .. Kept : buffer[k] = msg[done + k]
    BY <2>1, <2>5 DEF StreamAccounted
  <2>7. bytes = Len(msg) % M /\ done % B = 0
    BY <2>1, <2>4 DEF StreamAccounted
  <2> QED
    BY <2>2, <2>3, <2>4, <2>6, <2>7
<1>2. StreamInv => UnprocessedIsBuffered
  BY <1>1 DEF UnprocessedIsBuffered
<1> QED
  BY <1>2, StreamInvariant, PTL

(* When sha1dc_finish reads the result out, all of the stream is processed. *)
LEMMA StreamIsDone ==
  ASSUME StreamInv, pc = "finish_output"
  PROVE  bytes % B = 0 /\ done = Len(Padded(msg))
<1>1. /\ TypeOK /\ CallShape /\ StreamAccounted
      /\ ~InIngest /\ ~InProcess /\ ~LengthPending /\ n = 0
      /\ Stream = Padded(msg)
  BY DEF StreamInv, InIngest, InProcess, CallShape, LengthPending, Stream
<1>2. bytes % B = Kept /\ Kept \in 0 .. B - 1 /\ Taken \in Nat
  BY <1>1, CounterPosition
<1>3. done \in Nat /\ Taken = done + Kept /\ done % B = 0
  BY <1>1, <1>2, Sizes DEF TypeOK, Taken, StreamAccounted
<1>4. Len(Padded(msg)) = Taken
  BY <1>1, <1>2 DEF StreamAccounted
<1>5. Taken % B = 0
  BY <1>1, <1>4, PaddedProps DEF TypeOK
<1>6. (done + Kept) % B = Kept
  <2>1. Kept \in 0 .. B - 1 /\ done \in Nat /\ done % B = 0
    BY <1>2, <1>3
  <2>2. B \in Nat \ {0}
    BY Sizes
  <2> QED
    BY <2>1, <2>2, ModAfterBlocks
<1>7. Kept = 0
  BY <1>3, <1>5, <1>6
<1> QED
  BY <1>2, <1>3, <1>4, <1>7

(* sha1dc_finish has hashed the padded message, whole, when it reads the   *)
(* result out, and the unreachable() before that is.                       *)
THEOREM FinishHashesPadded == Spec => []FinishIsPadded
<1>1. StreamInv => FinishIsPadded
  BY StreamIsDone DEF FinishIsPadded
<1> QED
  BY <1>1, StreamInvariant, PTL

-------------------------------------------------------------------------------
(***************************************************************************)
(* The library implements SafeSha1: each step of Sha1dc is, seen through   *)
(* the refinement mapping, a step of SafeSha1 or none.  On top of the      *)
(* stream invariant this needs to know what the search has established:    *)
(* that no vector before the current one gives the block away, and none    *)
(* that the bit conditions left out.                                       *)
(***************************************************************************)

(* Vector d gives away the block being searched. *)
GivesAway(d) == Collides(d, reduced_round_coll, block_in, cv, block_W)

(* What the search for the first vector that gives the block away knows. *)
SearchState ==
  /\ pc \in {"test", "handler"} => cv = Compress(block_in, block_W)
  /\ pc = "handler" => found_collision
  /\ pc = "test" =>
       /\ detect_coll
       /\ \A d \in DV : GivesAway(d) => d \in dvs /\ i <= d

(***************************************************************************)
(* The definitions that SafeSha1 shares with Sha1dc.                       *)
(***************************************************************************)
LEMMA SafePadded ==
  Safe!Padded(msg) = Padded(msg)
  BY DEF Safe!Padded, Safe!Padding, Safe!ZeroFill, Padded, Padding, ZeroFill

LEMMA SafeStream ==
  Safe!Stream = Stream
  BY SafePadded DEF Safe!Stream, Stream

(* The block being processed is the next one of the stream. *)
LEMMA SafeNextBlock ==
  ASSUME StreamInv, InProcess
  PROVE  Safe!Ready /\ Safe!NextBlock = block_W
<1>1. /\ done + B <= Len(Stream)
      /\ \A k \in 1 .. B : block_W[k] = Stream[done + k]
  BY DEF StreamInv, BlockIsNextOfStream
<1>2. block_W \in [1 .. B -> Byte \cup {Uninit}]
  BY DEF StreamInv, TypeOK
<1>3. block_W = [k \in 1 .. B |-> Stream[done + k]]
  BY <1>1, <1>2
<1> QED
  BY <1>1, <1>3, SafeStream DEF Safe!Ready, Safe!NextBlock

(* Between calls of the client every whole block has been absorbed. *)
LEMMA SafeQuiet ==
  ASSUME StreamInv, pc = "idle"
  PROVE  Safe!Quiet
<1>1. /\ TypeOK /\ CallShape /\ StreamAccounted
      /\ ~InIngest /\ ~InProcess /\ ~LengthPending /\ n = 0 /\ phase # "padded"
  BY DEF StreamInv, InIngest, InProcess, CallShape, LengthPending
<1>2. Kept \in 0 .. B - 1 /\ Taken = done + Kept /\ done \in Nat
  BY <1>1, CounterPosition, Sizes DEF Taken, TypeOK
<1>3. Len(Stream) = Taken
  BY <1>1, <1>2, Sizes DEF StreamAccounted
<1>4. ~(done + B <= Len(Stream))
  BY <1>2, <1>3, Sizes
<1> QED
  BY <1>1, <1>4, SafeStream DEF Safe!Quiet, Safe!Ready

-------------------------------------------------------------------------------
(***************************************************************************)
(* The search.  The candidates are all the vectors that matter, with the   *)
(* bit conditions and without.                                             *)
(***************************************************************************)
LEMMA CandidatesMatter ==
  ASSUME StreamInv, pc = "process", NEW reduced \in BOOLEAN, NEW d \in DV,
         Collides(d, reduced, cv, Compress(cv, block_W), block_W)
  PROVE  d \in Candidates
<1>1. block_W \in Block /\ cv \in CV
  BY BlockIsWritten DEF StreamInv, TypeOK, InProcess
<1>2. Collides(d, TRUE, cv, Compress(cv, block_W), block_W)
  BY DEF Collides
<1> QED
  BY <1>1, <1>2, UbcAssumption DEF Candidates

LEMMA ProcessKeepsSearch ==
  ASSUME StreamInv, process
  PROVE  SearchState'
<1>1. /\ pc = "process" /\ block_in' = cv /\ cv' = Compress(cv, block_W)
      /\ UNCHANGED <<block_W, reduced_round_coll, detect_coll>>
      /\ reduced_round_coll \in BOOLEAN
  BY DEF process, config, StreamInv, TypeOK
<1>2. CASE detect_coll /\ Candidates # {}
  <2>1. dvs' = Candidates /\ i' = 0 /\ pc' = "test"
    BY <1>2 DEF process
  <2>2. ASSUME NEW d \in DV, GivesAway(d)'
        PROVE  d \in dvs' /\ i' <= d
    <3>1. Collides(d, reduced_round_coll, cv, Compress(cv, block_W), block_W)
      BY <1>1, <2>2 DEF GivesAway
    <3>2. 0 <= d
      BY DEF DV
    <3> QED
      BY <1>1, <2>1, <3>1, <3>2, CandidatesMatter
  <2> QED
    BY <1>1, <1>2, <2>1, <2>2 DEF SearchState
<1>3. CASE ~(detect_coll /\ Candidates # {})
  BY <1>3 DEF process, Processed, SearchState
<1> QED
  BY <1>2, <1>3

LEMMA HitKeepsSearch ==
  ASSUME SearchState, test_hit
  PROVE  SearchState'
  BY DEF SearchState, test_hit, AfterHit, Processed

LEMMA MissKeepsSearch ==
  ASSUME StreamInv, SearchState, test_miss
  PROVE  SearchState'
<1>1. /\ pc = "test" /\ i \in DV
      /\ UNCHANGED <<cv, block_W, block_in, reduced_round_coll, detect_coll>>
  BY DEF test_miss, ctx, config, StreamInv, TypeOK
<1>2. CASE IsVector(i + 1)
  <2>1. i' = i + 1 /\ pc' = "test" /\ dvs' = dvs
    BY <1>2 DEF test_miss, AfterMiss, NextVector
  <2>2. ASSUME NEW d \in DV, GivesAway(d)'
        PROVE  d \in dvs' /\ i' <= d
    <3>1. GivesAway(d)
      BY <1>1, <2>2 DEF GivesAway
    <3>2. d \in dvs /\ i <= d
      BY <1>1, <3>1 DEF SearchState
    <3>3. d # i
      BY <3>1, <3>2 DEF test_miss, Hit, GivesAway
    <3> QED
      BY <1>1, <2>1, <3>2, <3>3 DEF DV
  <2> QED
    BY <1>1, <2>1, <2>2 DEF SearchState
<1>3. CASE ~IsVector(i + 1)
  BY <1>3 DEF test_miss, AfterMiss, NextVector, Processed, SearchState
<1> QED
  BY <1>2, <1>3

(* The other steps of the library find no search and start none. *)
LEMMA EnterStartsNone ==
  ASSUME NEW data, NEW return \in {"idle", "finish_length", "finish_output"},
         Enter(data, return)
  PROVE  pc' \notin {"process", "test", "handler"}
  BY DEF Enter

LEMMA SetterKeepsSearch ==
  ASSUME SearchState, Setter
  PROVE  SearchState'
<1>1. pc \in {"idle", "handler"} /\ UNCHANGED <<cv, block_in, block_W, pc, found_collision>>
  BY DEF Setter, SetterReturns, InClient, call, sha1dc_set_do_safe_hash,
         sha1dc_set_use_ubc, sha1dc_set_detect_coll,
         sha1dc_set_detect_reduced_round_coll, sha1dc_set_callback
<1> QED
  BY <1>1 DEF SearchState

LEMMA NextKeepsSearch ==
  ASSUME StreamInv, SearchState, [Next]_vars
  PROVE  SearchState'
<1>1. CASE sha1dc_init
  BY <1>1 DEF sha1dc_init, call, SearchState
<1>2. CASE Setter
  BY <1>2, SetterKeepsSearch
<1>3. CASE \E data \in Chunks : sha1dc_ingest(data)
  <2>1. pc' \notin {"test", "handler"}
    BY <1>3, EnterStartsNone DEF sha1dc_ingest
  <2> QED
    BY <2>1 DEF SearchState
<1>4. CASE sha1dc_finish \/ finish_length
  <2>1. pc' \notin {"test", "handler"}
    BY <1>4, EnterStartsNone DEF sha1dc_finish, finish_length
  <2> QED
    BY <2>1 DEF SearchState
<1>5. CASE finish_output \/ ingest_fill \/ ingest_block
  BY <1>5 DEF finish_output, ingest_fill, Fill, ingest_block, SearchState
<1>6. CASE ingest_tail
  <2>1. pc' \in {"idle", "finish_length", "finish_output"}
    BY <1>6 DEF ingest_tail, Leave, StreamInv, TypeOK
  <2> QED
    BY <2>1 DEF SearchState
<1>7. CASE process
  BY <1>7, ProcessKeepsSearch
<1>8. CASE test_hit
  BY <1>8, HitKeepsSearch
<1>9. CASE handler_returns
  BY <1>9 DEF handler_returns, AfterHit, Processed, SearchState
<1>10. CASE test_miss
  BY <1>10, MissKeepsSearch
<1>11. CASE UNCHANGED vars
  BY <1>11 DEF vars, ctx, config, call, search, SearchState, GivesAway
<1> QED
  BY <1>1, <1>2, <1>3, <1>4, <1>5, <1>6, <1>7, <1>8, <1>9, <1>10, <1>11
  DEF Next, Client, Library, Setter

-------------------------------------------------------------------------------
(***************************************************************************)
(* The steps.  A call of the client is one of the abstract client; inside  *)
(* a call nothing happens until a block is done with.                      *)
(***************************************************************************)
LEMMA ReinitIsRestart ==
  ASSUME StreamInv, sha1dc_init
  PROVE  Safe!Restart
<1>1. Safe!Quiet
  BY SafeQuiet DEF sha1dc_init
<1> QED
  BY <1>1 DEF sha1dc_init, NewHash, DefaultSettings, call, Safe!Restart

LEMMA SetterIsConfigure ==
  ASSUME StreamInv, Setter
  PROVE  Safe!Configure
<1>1. /\ pc \in {"idle", "handler"}
      /\ UNCHANGED <<cv, block_in, found_collision, pc, msg, phase, done, log, output>>
      /\ do_safe_hash' \in BOOLEAN /\ detect_coll' \in BOOLEAN
      /\ reduced_round_coll' \in BOOLEAN
      /\ \/ UNCHANGED <<collision, collision_closure>>
         \/ collision' \in Handlers \cup {NoHandler} /\ collision_closure' \in Closures
  BY DEF Setter, SetterReturns, InClient, call, history, StreamInv, TypeOK,
         sha1dc_set_do_safe_hash, sha1dc_set_use_ubc, sha1dc_set_detect_coll,
         sha1dc_set_detect_reduced_round_coll, sha1dc_set_callback
<1>2. pc = "idle" => Safe!Quiet
  BY SafeQuiet
<1> QED
  BY <1>1, <1>2 DEF Safe!Configure

LEMMA IngestIsFeed ==
  ASSUME StreamInv, NEW data \in Chunks, sha1dc_ingest(data)
  PROVE  Safe!Feed
<1>1. /\ pc = "idle" /\ phase = "open" /\ msg' = msg \o data
      /\ UNCHANGED <<ctx, phase, done, log, output>>
      /\ pc' \notin {"test", "handler"}
  BY EnterStartsNone DEF sha1dc_ingest
<1>2. Safe!Quiet
  BY <1>1, SafeQuiet
<1> QED
  BY <1>1, <1>2 DEF Safe!Feed, Safe!settings, ctx, config

LEMMA FinishIsClose ==
  ASSUME StreamInv, sha1dc_finish
  PROVE  Safe!Close
<1>1. /\ pc = "idle" /\ phase = "open" /\ phase' = "padded"
      /\ UNCHANGED <<ctx, msg, done, log, output>>
      /\ pc' \notin {"test", "handler"}
  BY EnterStartsNone DEF sha1dc_finish
<1>2. Safe!Quiet
  BY <1>1, SafeQuiet
<1> QED
  BY <1>1, <1>2 DEF Safe!Close, Safe!settings, ctx, config

LEMMA OutputIsResult ==
  ASSUME StreamInv, finish_output
  PROVE  Safe!Result
<1>1. /\ pc = "finish_output" /\ phase = "padded" /\ Stream = Padded(msg)
  BY DEF finish_output, StreamInv, CallShape, Stream
<1>2. done = Len(Stream)
  BY <1>1, StreamIsDone
<1> QED
  BY <1>1, <1>2, SafeStream
  DEF finish_output, ctx, config, Safe!Result, Safe!settings

LEMMA CopyIsStutter ==
  ASSUME StreamInv, finish_length \/ ingest_fill \/ ingest_block \/ ingest_tail
  PROVE  UNCHANGED Safe!vars
<1>1. /\ pc \notin {"test", "handler"}
      /\ UNCHANGED <<cv, found_collision, config, history>>
  BY DEF finish_length, ingest_fill, Fill, ingest_block, ingest_tail, ctx, config
<1>2. pc' \notin {"test", "handler"}
  <2>1. CASE finish_length
    BY <2>1, EnterStartsNone DEF finish_length
  <2>2. CASE ingest_tail
    BY <2>2 DEF ingest_tail, Leave, StreamInv, TypeOK
  <2> QED
    BY <2>1, <2>2 DEF ingest_fill, Fill, ingest_block
<1> QED
  BY <1>1, <1>2 DEF config, history, Safe!vars, Safe!settings

-------------------------------------------------------------------------------
(***************************************************************************)
(* The block processor.                                                    *)
(***************************************************************************)

(* A block that no vector gives away is absorbed as SHA-1 absorbs it. *)
LEMMA NothingFoundIsAbsorb ==
  ASSUME StreamInv, InProcess, pc # "handler", ~Safe!GivenAway, Processed,
         (IF pc = "test" THEN block_in ELSE cv) \in CV,
         cv' = Compress(IF pc = "test" THEN block_in ELSE cv, block_W),
         UNCHANGED <<found_collision, config, msg, phase, log, output>>
  PROVE  Safe!Absorb
<1>1. Safe!Ready /\ Safe!NextBlock = block_W
  BY SafeNextBlock
<1>2. pc' = "loop" /\ done' = done + B
  BY DEF Processed
<1> QED
  BY <1>1, <1>2 DEF Safe!Absorb, Safe!settings, config

(* What gives a block away, seen from the search. *)
LEMMA SafeWitnesses ==
  ASSUME StreamInv, SearchState, pc = "test"
  PROVE  Safe!Witnesses = {d \in DV : GivesAway(d)}
<1>1. Safe!NextBlock = block_W /\ cv = Compress(block_in, block_W)
  BY SafeNextBlock DEF InProcess, SearchState
<1> QED
  BY <1>1 DEF Safe!Witnesses, Safe!DV, DV, Safe!Collides, Collides, GivesAway

LEMMA ProcessIsAbsorbOrStutter ==
  ASSUME StreamInv, process
  PROVE  Safe!Absorb \/ UNCHANGED Safe!vars
<1>1. /\ pc = "process" /\ InProcess /\ block_in' = cv /\ cv' = Compress(cv, block_W)
      /\ UNCHANGED <<found_collision, config, msg, phase, log, output>>
      /\ cv \in CV /\ reduced_round_coll \in BOOLEAN
  BY DEF process, InProcess, StreamInv, TypeOK
<1>2. CASE detect_coll /\ Candidates # {}
  <2>1. pc' = "test" /\ UNCHANGED <<done, messages>>
    BY <1>2 DEF process
  <2> QED
    BY <1>1, <2>1 DEF Safe!vars, Safe!settings, config
<1>3. CASE ~(detect_coll /\ Candidates # {})
  <2>1. Safe!NextBlock = block_W
    BY <1>1, SafeNextBlock
  <2>2. Candidates = {} => Safe!Witnesses = {}
    BY <1>1, <2>1, CandidatesMatter
    DEF Safe!Witnesses, Safe!DV, DV, Safe!Collides, Collides
  <2>3. ~Safe!GivenAway
    BY <1>3, <2>2 DEF Safe!GivenAway
  <2>4. Processed
    BY <1>3 DEF process
  <2> QED
    BY <1>1, <2>3, <2>4, NothingFoundIsAbsorb
<1> QED
  BY <1>2, <1>3

(* The current vector is the first that gives the block away. *)
LEMMA HitIsFirst ==
  ASSUME StreamInv, SearchState, pc = "test", Hit
  PROVE  Safe!GivenAway /\ Safe!First(Safe!Witnesses) = i
<1> DEFINE S == {d \in DV : GivesAway(d)}
<1>1. i \in S /\ detect_coll /\ \A d \in S : i <= d
  BY DEF Hit, GivesAway, SearchState, StreamInv, TypeOK
<1>2. \A d \in S : (\A e \in S : d <= e) => d = i
  BY <1>1 DEF DV
<1>3. Safe!First(S) = i
  BY <1>1, <1>2 DEF Safe!First
<1> QED
  BY <1>1, <1>3, SafeWitnesses DEF Safe!GivenAway

LEMMA HitIsReportOrAbsorb ==
  ASSUME StreamInv, SearchState, test_hit
  PROVE  Safe!Report \/ Safe!Absorb
<1>1. /\ pc = "test" /\ Hit /\ InProcess /\ found_collision' = TRUE
      /\ cv = Compress(block_in, block_W)
      /\ UNCHANGED <<config, block_in, msg, phase, output>>
  BY DEF test_hit, InProcess, SearchState
<1>2. Safe!Ready /\ Safe!NextBlock = block_W
  BY <1>1, SafeNextBlock
<1>3. Safe!GivenAway /\ Safe!First(Safe!Witnesses) = i
  BY <1>1, HitIsFirst
<1>4. CASE collision # NoHandler
  <2>1. /\ pc' = "handler" /\ UNCHANGED <<cv, done>>
        /\ log' = Append(log, [closure     |-> collision_closure,
                               byte_offset |-> bytes,
                               vector      |-> i,
                               args        |-> HandlerArguments])
    BY <1>4 DEF test_hit
  <2>2. bytes = (done + B) % M
    BY <1>1, Sizes DEF StreamInv, StreamAccounted, Taken, Kept, CallShape, InProcess,
                       TypeOK
  <2> QED
    BY <1>1, <1>2, <1>3, <1>4, <2>1, <2>2 DEF Safe!Report, Safe!settings, config
<1>5. CASE collision = NoHandler
  <2>1. SafeHash /\ pc' = "loop" /\ done' = done + B /\ UNCHANGED log
    BY <1>5 DEF test_hit, AfterHit, Processed
  <2> QED
    BY <1>1, <1>2, <1>3, <1>5, <2>1 DEF SafeHash, Safe!Absorb, Safe!settings, config
<1> QED
  BY <1>4, <1>5

LEMMA HandlerReturnIsAbsorb ==
  ASSUME StreamInv, SearchState, handler_returns
  PROVE  Safe!Absorb
<1>1. /\ pc = "handler" /\ InProcess /\ SafeHash /\ pc' = "loop" /\ done' = done + B
      /\ cv = Compress(block_in, block_W)
      /\ UNCHANGED <<config, found_collision, msg, phase, log, output>>
  BY DEF handler_returns, AfterHit, Processed, InProcess, SearchState
<1>2. Safe!Ready /\ Safe!NextBlock = block_W
  BY <1>1, SafeNextBlock
<1>3. found_collision
  BY <1>1 DEF SearchState
<1> QED
  BY <1>1, <1>2, <1>3 DEF SafeHash, Safe!Absorb, Safe!settings, config

LEMMA MissIsAbsorbOrStutter ==
  ASSUME StreamInv, SearchState, test_miss
  PROVE  Safe!Absorb \/ UNCHANGED Safe!vars
<1>1. /\ pc = "test" /\ InProcess /\ ~Hit /\ i \in DV
      /\ UNCHANGED <<cv, block_in, found_collision, config, msg, phase, log, output>>
      /\ cv = Compress(block_in, block_W) /\ block_in \in CV
  BY DEF test_miss, ctx, config, InProcess, SearchState, StreamInv, TypeOK
<1>2. CASE IsVector(i + 1)
  <2>1. pc' = "test" /\ UNCHANGED done
    BY <1>2 DEF test_miss, AfterMiss, NextVector
  <2> QED
    BY <1>1, <2>1 DEF Safe!vars, Safe!settings, config
<1>3. CASE ~IsVector(i + 1)
  <2>1. ASSUME NEW d \in DV, GivesAway(d)
        PROVE  FALSE
    <3>1. d \in dvs /\ i <= d
      BY <1>1, <2>1 DEF SearchState
    <3>2. d = i
      BY <1>1, <1>3, <3>1, SizesAssumption DEF IsVector, DV
    <3> QED
      BY <1>1, <2>1, <3>1, <3>2 DEF Hit, GivesAway
  <2>2. ~Safe!GivenAway
    BY <1>1, <2>1, SafeWitnesses DEF Safe!GivenAway
  <2>3. Processed
    BY <1>3 DEF test_miss, AfterMiss, NextVector
  <2> QED
    BY <1>1, <2>2, <2>3, NothingFoundIsAbsorb
<1> QED
  BY <1>2, <1>3

-------------------------------------------------------------------------------
LEMMA InitIsSafeInit ==
  ASSUME Init
  PROVE  Safe!Init
  BY DEF Init, Safe!Init

LEMMA NextIsSafeNext ==
  ASSUME StreamInv, SearchState, [Next]_vars
  PROVE  [Safe!Next]_(Safe!vars)
<1>1. CASE sha1dc_init
  BY <1>1, ReinitIsRestart DEF Safe!Next
<1>2. CASE Setter
  BY <1>2, SetterIsConfigure DEF Safe!Next
<1>3. CASE \E data \in Chunks : sha1dc_ingest(data)
  BY <1>3, IngestIsFeed DEF Safe!Next
<1>4. CASE sha1dc_finish
  BY <1>4, FinishIsClose DEF Safe!Next
<1>5. CASE finish_output
  BY <1>5, OutputIsResult DEF Safe!Next
<1>6. CASE finish_length \/ ingest_fill \/ ingest_block \/ ingest_tail
  BY <1>6, CopyIsStutter
<1>7. CASE process
  BY <1>7, ProcessIsAbsorbOrStutter DEF Safe!Next
<1>8. CASE test_hit
  BY <1>8, HitIsReportOrAbsorb DEF Safe!Next
<1>9. CASE handler_returns
  BY <1>9, HandlerReturnIsAbsorb DEF Safe!Next
<1>10. CASE test_miss
  BY <1>10, MissIsAbsorbOrStutter DEF Safe!Next
<1>11. CASE UNCHANGED vars
  BY <1>11 DEF vars, ctx, config, call, search, history, Safe!vars, Safe!settings
<1> QED
  BY <1>1, <1>2, <1>3, <1>4, <1>5, <1>6, <1>7, <1>8, <1>9, <1>10, <1>11
  DEF Next, Client, Library, Setter

(***************************************************************************)
(* Whatever the client and its handler do, and however the message is cut, *)
(* the library does what SafeSha1 says: it reports a block if and only if  *)
(* a vector gives it away, hashes as it should, and hands out the verdict. *)
(***************************************************************************)
THEOREM Implementation == Spec => ImplementsSafeSha1
<1>1. Init => Safe!Init /\ SearchState
  BY InitIsSafeInit DEF Init, SearchState
<1>2. StreamInv /\ SearchState /\ [Next]_vars => SearchState'
  BY NextKeepsSearch
<1>3. StreamInv /\ SearchState /\ [Next]_vars => [Safe!Next]_(Safe!vars)
  BY NextIsSafeNext
<1> QED
  BY <1>1, <1>2, <1>3, StreamInvariant, PTL DEF Spec, ImplementsSafeSha1, Safe!Spec

-------------------------------------------------------------------------------
(***************************************************************************)
(* What the handler hears, as long as the counter does not wrap.           *)
(***************************************************************************)
NoWrap == MaxMessage \in Nat /\ MaxMessage + B + L < M

Call == [closure : Closures \cup {Uninit}, byte_offset : Nat, vector : DV,
         args : {HandlerArguments}]

(* Whole blocks, in order, none but those done and the one being told of.  *)
InOrder(calls, end) ==
  \A k \in 1 .. Len(calls) :
    /\ calls[k].byte_offset % B = 0
    /\ calls[k].byte_offset > IF k = 1 THEN 0 ELSE calls[k - 1].byte_offset
    /\ calls[k].byte_offset <= end

LogInv ==
  /\ Len(msg) <= MaxMessage
  /\ log \in Seq(Call)
  /\ InOrder(log, IF pc = "handler" THEN done + B ELSE done)

LEMMA OffsetsAreNumbers ==
  ASSUME NEW calls \in Seq(Call), NEW k \in 1 .. Len(calls)
  PROVE  calls[k].byte_offset \in Nat
<1>1. \A c \in Call : c.byte_offset \in Nat
  BY DEF Call
<1>2. calls[k] \in Call
  OBVIOUS
<1> QED
  BY <1>1, <1>2

LEMMA InOrderExtends ==
  ASSUME NEW calls \in Seq(Call), NEW end \in Nat, InOrder(calls, end),
         NEW call_ \in Call, call_.byte_offset > end, call_.byte_offset % B = 0
  PROVE  InOrder(Append(calls, call_), call_.byte_offset)
<1> DEFINE more == Append(calls, call_)
           offset == call_.byte_offset
<1>1. /\ Len(more) = Len(calls) + 1 /\ Len(calls) \in Nat /\ offset \in Nat
      /\ more[Len(calls) + 1] = call_
      /\ \A k \in 1 .. Len(calls) : more[k] = calls[k] /\ calls[k].byte_offset \in Nat
  <2>1. offset \in Nat
    BY DEF Call
  <2>2. \A k \in 1 .. Len(calls) : calls[k].byte_offset \in Nat
    BY OffsetsAreNumbers
  <2> QED
    BY <2>1, <2>2
<1>2. ASSUME NEW k \in 1 .. Len(calls)
      PROVE  /\ more[k].byte_offset % B = 0
             /\ more[k].byte_offset > IF k = 1 THEN 0 ELSE more[k - 1].byte_offset
             /\ more[k].byte_offset <= offset
  <2>1. k # 1 => k - 1 \in 1 .. Len(calls)
    BY <1>1
  <2>2. /\ calls[k].byte_offset % B = 0
        /\ calls[k].byte_offset > IF k = 1 THEN 0 ELSE calls[k - 1].byte_offset
        /\ calls[k].byte_offset <= end
    BY DEF InOrder
  <2> QED
    BY <1>1, <2>1, <2>2
<1>3. offset > IF Len(more) = 1 THEN 0 ELSE more[Len(more) - 1].byte_offset
  <2>1. CASE Len(calls) = 0
    BY <1>1, <2>1
  <2>2. CASE Len(calls) # 0
    <3>1. Len(calls) \in 1 .. Len(calls) /\ Len(more) # 1 /\ Len(more) - 1 = Len(calls)
      BY <1>1, <2>2
    <3>2. calls[Len(calls)].byte_offset <= end
      BY <3>1 DEF InOrder
    <3> QED
      BY <1>1, <3>1, <3>2
  <2> QED
    BY <2>1, <2>2
<1>4. ASSUME NEW k \in 1 .. Len(more)
      PROVE  k \in 1 .. Len(calls) \/ k = Len(more)
  BY <1>1
<1> QED
  BY <1>1, <1>2, <1>3, <1>4 DEF InOrder

LEMMA InOrderWeakens ==
  ASSUME NEW calls \in Seq(Call), NEW end \in Nat, NEW later \in Nat, end <= later,
         InOrder(calls, end)
  PROVE  InOrder(calls, later)
<1>1. \A k \in 1 .. Len(calls) : calls[k].byte_offset \in Nat
  BY OffsetsAreNumbers
<1> QED
  BY <1>1 DEF InOrder

(* No more is taken than the message and its padding. *)
LEMMA TakenIsShort ==
  ASSUME NoWrap, StreamInv, LogInv, InProcess
  PROVE  bytes = done + B
<1>1. /\ TypeOK /\ CallShape /\ StreamAccounted /\ held = 0 /\ msg \in Seq(Byte)
      /\ Len(msg) \in Nat /\ done \in Nat /\ n \in Nat /\ done + B <= Len(Stream)
  BY DEF StreamInv, CallShape, TypeOK, BlockIsNextOfStream
<1>2. Taken = done + B /\ bytes = Taken % M
  BY <1>1, Sizes DEF Taken, Kept, StreamAccounted
<1>3. Len(Padded(msg)) = Len(msg) + padding_size(Len(msg) % M) + L
  BY <1>1, PaddedProps
<1>4. padding_size(Len(msg) % M) \in 1 .. B
  BY <1>1, PaddingLength
<1>5. Len(Stream) <= MaxMessage + B + L
  BY <1>1, <1>3, <1>4, Sizes DEF Stream, LogInv, NoWrap
<1>6. done + B \in 0 .. M - 1
  BY <1>1, <1>5, Sizes DEF NoWrap
<1> QED
  BY <1>2, <1>6, Sizes

LEMMA HitKeepsLog ==
  ASSUME NoWrap, StreamInv, LogInv, test_hit
  PROVE  LogInv'
<1>1. /\ pc = "test" /\ InProcess /\ UNCHANGED msg
      /\ done \in Nat /\ i \in DV /\ done % B = 0
      /\ collision_closure \in Closures \cup {Uninit}
  BY DEF test_hit, InProcess, StreamInv, TypeOK, StreamAccounted
<1>2. log \in Seq(Call) /\ InOrder(log, done)
  BY <1>1 DEF LogInv
<1>3. CASE collision # NoHandler
  <2> DEFINE new == [closure |-> collision_closure, byte_offset |-> bytes,
                     vector |-> i, args |-> HandlerArguments]
  <2>1. pc' = "handler" /\ log' = Append(log, new) /\ done' = done
    BY <1>3 DEF test_hit
  <2>2. bytes = done + B
    BY <1>1, TakenIsShort
  <2>3. new \in Call /\ new.byte_offset = done + B /\ new.byte_offset > done
    BY <1>1, <2>2, Sizes DEF Call
  <2>4. (done + B) % B = 0
    BY <1>1, done \in Int, Sizes, ModNextBlock
  <2> HIDE DEF new
  <2>5. InOrder(Append(log, new), done + B)
    BY <1>1, <1>2, <2>3, <2>4, InOrderExtends
  <2>6. Append(log, new) \in Seq(Call)
    BY <1>2, <2>3
  <2> QED
    BY <1>1, <2>1, <2>5, <2>6 DEF LogInv
<1>4. CASE collision = NoHandler
  <2>1. pc' = "loop" /\ UNCHANGED log /\ done' = done + B
    BY <1>4 DEF test_hit, AfterHit, Processed
  <2>2. InOrder(log, done + B)
    BY <1>1, <1>2, InOrderWeakens, Sizes
  <2> QED
    BY <1>1, <1>2, <2>1, <2>2 DEF LogInv
<1> QED
  BY <1>3, <1>4

LEMMA ProcessedKeepsLog ==
  ASSUME StreamInv, LogInv, InProcess, Processed, UNCHANGED <<msg, log>>
  PROVE  LogInv'
<1>1. /\ done \in Nat /\ pc' = "loop" /\ done' = done + B
  BY DEF Processed, StreamInv, TypeOK
<1>2. InOrder(log, done + B)
  BY <1>1, InOrderWeakens, Sizes DEF LogInv
<1> QED
  BY <1>1, <1>2 DEF LogInv

LEMMA NextKeepsLog ==
  ASSUME NoWrap, StreamInv, LogInv, [Next]_vars
  PROVE  LogInv'
<1>1. CASE sha1dc_init
  <2>1. msg' = <<>> /\ log' = <<>> /\ MaxMessage \in Nat
    BY <1>1 DEF sha1dc_init, NoWrap
  <2> QED
    BY <2>1 DEF LogInv, InOrder
<1>2. CASE Setter
  <2>1. UNCHANGED <<pc, msg, log, done>>
    BY <1>2 DEF Setter, SetterReturns, call, history, sha1dc_set_do_safe_hash,
                sha1dc_set_use_ubc, sha1dc_set_detect_coll,
                sha1dc_set_detect_reduced_round_coll, sha1dc_set_callback
  <2> QED
    BY <2>1 DEF LogInv
<1>3. CASE \E data \in Chunks : sha1dc_ingest(data)
  <2>1. PICK data \in Chunks : sha1dc_ingest(data)
    BY <1>3
  <2>2. /\ msg \in Seq(Byte) /\ data \in Seq(Byte) /\ msg' = msg \o data
        /\ Len(msg) + Len(data) <= MaxMessage
        /\ pc = "idle" /\ UNCHANGED <<log, done>>
    BY <2>1, ClientAssumption DEF sha1dc_ingest, StreamInv, TypeOK
  <2>3. pc' # "handler"
    BY <2>1, EnterStartsNone DEF sha1dc_ingest
  <2>4. Len(msg') = Len(msg) + Len(data)
    BY <2>2
  <2> QED
    BY <2>2, <2>3, <2>4 DEF LogInv
<1>4. CASE sha1dc_finish \/ finish_length
  <2>1. pc' # "handler" /\ pc # "handler" /\ UNCHANGED <<msg, log, done>>
    BY <1>4, EnterStartsNone DEF sha1dc_finish, finish_length, history
  <2> QED
    BY <2>1 DEF LogInv
<1>5. CASE finish_output \/ ingest_fill \/ ingest_block
  BY <1>5 DEF finish_output, ingest_fill, Fill, ingest_block, history, LogInv
<1>6. CASE ingest_tail
  <2>1. pc' \in {"idle", "finish_length", "finish_output"}
    BY <1>6 DEF ingest_tail, Leave, StreamInv, TypeOK
  <2> QED
    BY <1>6, <2>1 DEF ingest_tail, history, LogInv
<1>7. CASE process \/ test_miss
  <2>1. pc \in {"process", "test"} /\ InProcess /\ UNCHANGED <<msg, log>>
    BY <1>7 DEF process, test_miss, InProcess
  <2>2. Processed \/ (pc' = "test" /\ UNCHANGED done)
    BY <1>7 DEF process, test_miss, AfterMiss, NextVector
  <2> QED
    BY <2>1, <2>2, ProcessedKeepsLog DEF LogInv
<1>8. CASE test_hit
  BY <1>8, HitKeepsLog
<1>9. CASE handler_returns
  <2>1. /\ pc = "handler" /\ pc' = "loop" /\ done' = done + B
        /\ UNCHANGED <<msg, log>>
    BY <1>9 DEF handler_returns, AfterHit, Processed
  <2> QED
    BY <2>1 DEF LogInv
<1>10. CASE UNCHANGED vars
  BY <1>10 DEF vars, call, history, LogInv
<1> QED
  BY <1>1, <1>2, <1>3, <1>4, <1>5, <1>6, <1>7, <1>8, <1>9, <1>10
  DEF Next, Client, Library, Setter

(***************************************************************************)
(* A block is reported at most once, and the offsets the handler is told   *)
(* increase, in every message that does not make the counter wrap.         *)
(***************************************************************************)
THEOREM ReportsAreInOrder ==
  ASSUME NoWrap
  PROVE  Spec => []EachBlockReportedOnce
<1>1. Init => LogInv
  BY DEF Init, LogInv, InOrder, NoWrap
<1>2. StreamInv /\ LogInv /\ [Next]_vars => LogInv'
  BY NextKeepsLog
<1>3. StreamInv /\ LogInv => EachBlockReportedOnce
  <2> SUFFICES ASSUME StreamInv, LogInv
               PROVE  EachBlockReportedOnce
    OBVIOUS
  <2>1. /\ TypeOK /\ CallShape /\ StreamAccounted /\ done \in Nat
        /\ log \in Seq(Call)
    BY DEF StreamInv, TypeOK, LogInv
  <2>2. Kept \in 0 .. B - 1
    BY <2>1, CounterPosition
  <2>3. /\ Taken \in Nat /\ done <= Taken
        /\ pc = "handler" => done + B <= Taken
    BY <2>1, <2>2, Sizes DEF Taken, InProcess
  <2>4. InOrder(log, Taken)
    BY <2>1, <2>3, InOrderWeakens, Sizes DEF LogInv
  <2> QED
    BY <2>4 DEF InOrder, EachBlockReportedOnce
<1> QED
  BY <1>1, <1>2, <1>3, StreamInvariant, PTL DEF Spec

-------------------------------------------------------------------------------
(***************************************************************************)
(* The hash.  As long as nothing was found, the chaining value is what     *)
(* SHA-1 has after the blocks absorbed so far.  Everything about blocks is *)
(* read off the steps of SafeSha1.                                         *)
(***************************************************************************)

(* The chaining value after the blocks absorbed: the cv of SafeSha1. *)
Absorbed == IF pc \in {"test", "handler"} THEN block_in ELSE cv

(* h has the chaining values of SHA-1 over the first k blocks of s. *)
Chain(h, s, k) ==
  h[0] = IV /\ \A j \in 1 .. k : h[j] = Compress(h[j - 1], BlockOf(s, j))

(* They lead to c, and `length' bytes have been absorbed. *)
Reaches(s, length, c) ==
  \E h \in [Nat -> CV], k \in Nat : length = B * k /\ Chain(h, s, k) /\ h[k] = c

HashInv ==
  /\ ~found_collision => Reaches(Stream, done, Absorbed)
  /\ SafeHashIsSha1WithoutCollision

LEMMA Monotone ==
  ASSUME NEW k \in Nat, NEW j \in 1 .. k
  PROVE  B * (j - 1) \in Nat /\ B * (j - 1) + B = B * j /\ B * j <= B * k
<1>1. k - j \in Nat /\ j - 1 \in Nat /\ j \in Nat /\ B \in Nat
  BY Sizes
<1>2. B * (k - j) \in Nat /\ B * (j - 1) \in Nat /\ B * j \in Nat /\ B * k \in Nat
  BY <1>1
<1>3. B * k = B * j + B * (k - j) /\ B * (j - 1) + B = B * j
  BY <1>1
<1> QED
  BY <1>2, <1>3

(* More of the stream does not change the blocks that are complete. *)
LEMMA ReachesInLonger ==
  ASSUME NEW s \in Seq(Byte), NEW r, NEW length \in Nat, length <= Len(s), NEW c,
         \A j \in 1 .. Len(s) : r[j] = s[j], Reaches(s, length, c)
  PROVE  Reaches(r, length, c)
<1>1. PICK h \in [Nat -> CV], k \in Nat : length = B * k /\ Chain(h, s, k) /\ h[k] = c
  BY DEF Reaches
<1>2. ASSUME NEW j \in 1 .. k
      PROVE  BlockOf(r, j) = BlockOf(s, j)
  <2>1. B * (j - 1) \in Nat /\ B * (j - 1) + B <= B * k
    BY Monotone
  <2>2. \A l \in 1 .. B : B * (j - 1) + l \in 1 .. Len(s)
    BY <1>1, <2>1, Sizes
  <2> QED
    BY <2>2 DEF BlockOf
<1>3. Chain(h, r, k)
  BY <1>1, <1>2 DEF Chain
<1> QED
  BY <1>1, <1>3 DEF Reaches

(* One block more. *)
LEMMA ReachesNext ==
  ASSUME NEW s, NEW length \in Nat, NEW c \in CV, Reaches(s, length, c),
         NEW b \in Block, \A l \in 1 .. B : b[l] = s[length + l]
  PROVE  Reaches(s, length + B, Compress(c, b))
<1>1. PICK h \in [Nat -> CV], k \in Nat : length = B * k /\ Chain(h, s, k) /\ h[k] = c
  BY DEF Reaches
<1> DEFINE g == [h EXCEPT ![k + 1] = Compress(c, b)]
<1>2. g \in [Nat -> CV]
  BY HashAssumption
<1>3. g[k + 1] = Compress(c, b) /\ \A j \in 0 .. k : g[j] = h[j]
  OBVIOUS
<1>4. BlockOf(s, k + 1) = b
  <2>1. B * ((k + 1) - 1) = length
    BY <1>1
  <2>2. BlockOf(s, k + 1) = [l \in 1 .. B |-> s[length + l]]
    BY <2>1 DEF BlockOf
  <2> QED
    BY <2>2 DEF Block
<1>5. Chain(g, s, k + 1)
  <2>1. g[0] = IV
    BY <1>1, <1>3 DEF Chain
  <2>2. ASSUME NEW j \in 1 .. k + 1
        PROVE  g[j] = Compress(g[j - 1], BlockOf(s, j))
    <3>1. CASE j = k + 1
      BY <1>1, <1>3, <1>4, <3>1
    <3>2. CASE j \in 1 .. k
      BY <1>1, <1>3, <3>2 DEF Chain
    <3> QED
      BY <3>1, <3>2
  <2> QED
    BY <2>1, <2>2 DEF Chain
<1>6. length + B = B * (k + 1) /\ k + 1 \in Nat
  BY <1>1, Sizes
<1> QED
  BY <1>2, <1>3, <1>5, <1>6 DEF Reaches

(* All the blocks of a padded message lead to its SHA-1. *)
LEMMA ReachesSha1 ==
  ASSUME NEW m \in Seq(Byte), NEW c, Reaches(Padded(m), Len(Padded(m)), c)
  PROVE  SHA1(m) = Digest(c)
<1> DEFINE s == Padded(m)
           N == Len(s) \div B
           body(f) == [j \in 0 .. N |-> IF j = 0 THEN IV ELSE Compress(f[j - 1], BlockOf(s, j))]
           after == CHOOSE f : f = body(f)
<1>1. PICK h \in [Nat -> CV], k \in Nat : Len(s) = B * k /\ Chain(h, s, k) /\ h[k] = c
  BY DEF Reaches
<1>2. N = k
  BY <1>1, Sizes
<1>3. [j \in 0 .. k |-> h[j]] = body([j \in 0 .. k |-> h[j]])
  BY <1>1, <1>2 DEF Chain
<1>4. after = body(after)
  <2>1. \E f : f = body(f)
    BY <1>3
  <2> HIDE DEF body
  <2> QED
    BY <2>1
<1> HIDE DEF after
<1> DEFINE S == {j \in Nat : after[j] = h[j]}
<1>5. 0 .. k \subseteq S
  <2>1. 0 \in S
    <3>1. 0 \in 0 .. N
      BY <1>2
    <3>2. after[0] = IV
      <4> HIDE DEF N
      <4> QED
        BY <1>4, <3>1
    <3> QED
      BY <1>1, <3>2 DEF Chain
  <2>2. ASSUME NEW j \in 0 .. k - 1, j \in S PROVE j + 1 \in S
    <3>1. after[j + 1] = Compress(after[j], BlockOf(s, j + 1))
      <4>1. j + 1 \in 0 .. N /\ j + 1 # 0 /\ (j + 1) - 1 = j
        BY <1>2
      <4> HIDE DEF N
      <4> QED
        BY <1>4, <4>1
    <3>2. h[j + 1] = Compress(h[j], BlockOf(s, j + 1))
      BY <1>1 DEF Chain
    <3> QED
      BY <2>2, <3>1, <3>2
  <2> HIDE DEF S
  <2> QED
    BY <2>1, <2>2, IntervalInduction
<1>6. after[N] = c
  <2>1. k \in S
    BY <1>5
  <2> QED
    BY <1>1, <1>2, <2>1
<1>7. SHA1(m) = Digest(after[N])
  BY DEF SHA1, after
<1> QED
  BY <1>6, <1>7

LEMMA StreamIsBytes ==
  ASSUME StreamInv
  PROVE  /\ msg \in Seq(Byte) /\ Stream \in Seq(Byte)
         /\ done \in Nat /\ done <= Len(Stream) /\ Absorbed \in CV
         /\ Len(Stream) \in Nat
<1>1. msg \in Seq(Byte) /\ done \in Nat /\ n \in Nat /\ Absorbed \in CV
  BY DEF StreamInv, TypeOK, Absorbed
<1>2. Stream \in Seq(Byte)
  BY <1>1, PaddedProps DEF Stream
<1>3. Kept \in 0 .. B - 1 /\ Taken \in Nat
  BY CounterPosition DEF StreamInv
<1>4. done <= Taken /\ Taken <= Len(Stream)
  BY <1>1, <1>3, Sizes DEF Taken, StreamInv, StreamAccounted
<1> QED
  BY <1>1, <1>2, <1>3, <1>4

LEMMA SafeNextKeepsHash ==
  ASSUME StreamInv, HashInv, [Safe!Next]_(Safe!vars)
  PROVE  HashInv'
<1>0. /\ msg \in Seq(Byte) /\ Stream \in Seq(Byte)
      /\ done \in Nat /\ done <= Len(Stream) /\ Absorbed \in CV
  BY StreamIsBytes
<1>1. CASE Safe!Restart
  <2>1. done' = 0 /\ Absorbed' = IV /\ phase' = "open"
    BY <1>1 DEF Safe!Restart, Absorbed
  <2>2. Chain([j \in Nat |-> IV], Stream', 0) /\ [j \in Nat |-> IV] \in [Nat -> CV]
    BY HashAssumption DEF Chain
  <2>3. 0 = B * 0
    BY Sizes
  <2>4. Reaches(Stream', done', Absorbed')
    BY <2>1, <2>2, <2>3 DEF Reaches
  <2> QED
    BY <2>1, <2>4 DEF HashInv, SafeHashIsSha1WithoutCollision
<1>2. CASE Safe!Configure \/ UNCHANGED Safe!vars
  <2>1. UNCHANGED <<Absorbed, found_collision, msg, phase, done, output>>
    BY <1>2 DEF Safe!Configure, Safe!vars, Absorbed
  <2> QED
    BY <2>1 DEF HashInv, SafeHashIsSha1WithoutCollision, Stream
<1>3. CASE Safe!Feed
  <2>1. PICK data \in Chunks : msg' = msg \o data
    BY <1>3 DEF Safe!Feed
  <2>2. /\ UNCHANGED <<Absorbed, found_collision, phase, done>>
        /\ phase = "open" /\ Stream = msg /\ Stream' = msg \o data
    BY <1>3, <2>1 DEF Safe!Feed, Absorbed, Stream
  <2>3. \A j \in 1 .. Len(msg) : (msg \o data)[j] = msg[j]
    BY <1>0, ClientAssumption
  <2>4. Reaches(Stream, done, Absorbed) => Reaches(Stream', done, Absorbed)
    BY <1>0, <2>2, <2>3, ReachesInLonger
  <2> QED
    BY <2>2, <2>4 DEF HashInv, SafeHashIsSha1WithoutCollision
<1>4. CASE Safe!Close
  <2>1. /\ UNCHANGED <<Absorbed, found_collision, done>>
        /\ phase = "open" /\ phase' = "padded" /\ Stream = msg /\ Stream' = Padded(msg)
    BY <1>4 DEF Safe!Close, Absorbed, Stream
  <2>2. \A j \in 1 .. Len(msg) : Padded(msg)[j] = msg[j]
    BY <1>0, PaddedProps
  <2>3. Reaches(Stream, done, Absorbed) => Reaches(Stream', done, Absorbed)
    BY <1>0, <2>1, <2>2, ReachesInLonger
  <2> QED
    BY <2>1, <2>3 DEF HashInv, SafeHashIsSha1WithoutCollision
<1>5. CASE Safe!Report
  <2>1. found_collision' /\ UNCHANGED <<msg, phase, output>>
    BY <1>5 DEF Safe!Report
  <2> QED
    BY <2>1 DEF HashInv, SafeHashIsSha1WithoutCollision
<1>6. CASE Safe!Absorb
  <2>1. /\ Safe!Ready /\ done' = done + B /\ UNCHANGED <<msg, phase, output>>
        /\ \/ found_collision'
           \/ /\ Absorbed' = Compress(Absorbed, Safe!NextBlock)
              /\ UNCHANGED found_collision
    BY <1>6 DEF Safe!Absorb, Absorbed
  <2>2. Safe!NextBlock \in Block /\ \A l \in 1 .. B : Safe!NextBlock[l] = Stream[done + l]
    BY <1>0, <2>1, SafeStream, Sizes DEF Safe!Ready, Safe!NextBlock, Block
  <2>3. Reaches(Stream, done, Absorbed)
          => Reaches(Stream, done + B, Compress(Absorbed, Safe!NextBlock))
    BY <1>0, <2>2, ReachesNext
  <2>4. Stream' = Stream
    BY <2>1 DEF Stream
  <2> QED
    BY <2>1, <2>3, <2>4 DEF HashInv, SafeHashIsSha1WithoutCollision
<1>7. CASE Safe!Result
  <2>1. /\ phase = "padded" /\ done = Len(Stream) /\ phase' = "finished"
        /\ output' = [hash |-> Digest(Absorbed), collision |-> found_collision]
        /\ UNCHANGED <<Absorbed, found_collision, msg, done>>
    BY <1>7, SafeStream DEF Safe!Result, Absorbed
  <2>2. Stream = Padded(msg) /\ Stream' = Stream
    BY <2>1 DEF Stream
  <2>3. ~found_collision => Digest(Absorbed) = SHA1(msg)
    BY <1>0, <2>1, <2>2, ReachesSha1 DEF HashInv
  <2> QED
    BY <2>1, <2>2, <2>3 DEF HashInv, SafeHashIsSha1WithoutCollision
<1> QED
  BY <1>1, <1>2, <1>3, <1>4, <1>5, <1>6, <1>7 DEF Safe!Next

(***************************************************************************)
(* The hash handed out for a message in which no collision was found is    *)
(* the SHA-1 of the message, whatever the chunks, settings and earlier     *)
(* messages, and however long the message is.                              *)
(***************************************************************************)
THEOREM SafeHashIsSha1 == Spec => []SafeHashIsSha1WithoutCollision
<1>1. Init => HashInv /\ SearchState
  <2> SUFFICES ASSUME Init
               PROVE  HashInv /\ SearchState
    OBVIOUS
  <2>1. Chain([j \in Nat |-> IV], Stream, 0) /\ [j \in Nat |-> IV] \in [Nat -> CV]
    BY HashAssumption DEF Chain
  <2>2. done = B * 0 /\ Absorbed = IV /\ phase = "open" /\ pc = "idle"
    BY Sizes DEF Init, Absorbed
  <2>3. Reaches(Stream, done, Absorbed)
    BY <2>1, <2>2 DEF Reaches
  <2> QED
    BY <2>2, <2>3 DEF HashInv, SafeHashIsSha1WithoutCollision, SearchState
<1>2. StreamInv /\ SearchState /\ [Next]_vars => SearchState'
  BY NextKeepsSearch
<1>3. StreamInv /\ SearchState /\ HashInv /\ [Next]_vars => HashInv'
  BY NextIsSafeNext, SafeNextKeepsHash
<1>4. HashInv => SafeHashIsSha1WithoutCollision
  BY DEF HashInv
<1> QED
  BY <1>1, <1>2, <1>3, <1>4, StreamInvariant, PTL DEF Spec
===============================================================================
