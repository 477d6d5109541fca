------------------------------ MODULE MCAddBlock -------------------------------
(***************************************************************************)
(* AddBlock with words of three bits: all the steps of SHA-1, its rounds   *)
(* and its expansion, with the operations of Sha1Bits.                     *)
(***************************************************************************)
EXTENDS AddBlock

MCWordBits == 3
MCWordMod  == 8

MCRoundConstant == [k \in 0 .. 3 |-> <<1, 3, 6, 5>>[k + 1]]

Bits == INSTANCE Sha1Bits WITH WordBits <- MCWordBits, RoundConstant <- MCRoundConstant

MCrotate_left(x, s) == Bits!sha1_rotate_left(x, s)
MCXor(x, y)         == Bits!BitXor(x, y)
MCfk(b, c, d, t)    == Bits!sha1_fk(b, c, d, t)

MCcv(k)    == [A |-> (3 * k + 1) % 8, B |-> (5 * k + 6) % 8, C |-> (k + 3) % 8,
               D |-> (7 * k + 2) % 8, E |-> (3 * k + 4) % 8]
MCblock(k) == [t \in 0 .. 15 |-> ((t * t * (3 * k + 1)) \div 2 + 5 * k) % 8]

MCInputs == {<<MCcv(k), MCblock(k)>> : k \in 0 .. 5}

(* Every state that the version for the SHA extensions can save, the ones   *)
(* that the program needs (58 and 65) among them.                           *)
MCall == [t \in 0 .. Steps |-> IF t % 4 = 3 THEN -1 ELSE t - (t + 1) \div 4]
===============================================================================
