------------------------------- MODULE MCSha1dc -------------------------------
(***************************************************************************)
(* Small instances of Sha1dc for TLC.  Bytes have three bits, a block has  *)
(* four bytes; the length field has MCL of them.  The chaining values are  *)
(* residues, and the twins are chosen so that every verdict occurs:        *)
(*   vector 0  gives away blocks that begin with 5, by their end;          *)
(*   vector 1  gives away blocks whose second byte is 5 or that begin with *)
(*             5, but those of the former kind only as a reduced collision;*)
(*   vector 2  is a candidate of many blocks and gives none away.          *)
(***************************************************************************)
EXTENDS Sha1dc

CONSTANTS ClientByte, MaxChunk

MCByte == 0 .. 7
MCCV   == 0 .. 6

MCChunks == UNION {[1 .. k -> ClientByte] : k \in 0 .. MaxChunk}

MCCompress(c, b) == (3 * c + b[1] + 2 * b[2] + 4 * b[3] + 5 * b[4] + 1) % 7
MCDigest(c)      == <<c \div 4, c % 4>>

(* The big-endian digits of x in base 8. *)
MCLengthField(x) ==
  [k \in 1 .. L |-> (x \div (8 ^ (L - k))) % 8]

MCTwinOut(d, c, b) ==
  IF d < 2 /\ b[1] = 5 THEN MCCompress(c, b) ELSE (MCCompress(c, b) + 1 + d) % 7
MCTwinIn(d, c, b) ==
  IF d = 1 /\ b[2] = 5 THEN c ELSE (c + 2 + d) % 7

MCUbc(b) ==
  {d \in DV : CASE d = 0 -> b[1] = 5
                [] d = 1 -> 5 \in {b[1], b[2]}
                [] d = 2 -> b[3] # 0}
===============================================================================
