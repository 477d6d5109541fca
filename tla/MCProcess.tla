------------------------------- MODULE MCProcess -------------------------------
(***************************************************************************)
(* Process with twenty steps, five to a round, on words of three bits, and *)
(* four vectors.  The masks were searched for: at the first chaining value *)
(* the first block collides with its twins of vectors 1 and 2, which start *)
(* from other chaining values; the mask of vector 3 leaves the words       *)
(* before its quiet step alone, so that every block has a twin that starts *)
(* from the same chaining value; vector 0 gives nothing away.              *)
(***************************************************************************)
EXTENDS SafeProcess, DisturbanceVectors

MCWordBits == 3
MCWordMod  == 8
MCRoundConstant == [k \in 0 .. 3 |-> <<1, 3, 6, 5>>[k + 1]]

Bits == INSTANCE Sha1Bits WITH WordBits <- MCWordBits, RoundConstant <- MCRoundConstant

(* The operations, tabulated. *)
Word3   == 0 .. 7
Rotated == [x \in Word3, s \in 0 .. 5 |-> Bits!sha1_rotate_left(x, s)]
Xored   == [x, y \in Word3 |-> Bits!BitXor(x, y)]
FkTable == [b, c, d \in Word3, r \in 0 .. 3 |-> Bits!sha1_fk(b, c, d, 20 * r)]

MCrotate_left(x, s) == Rotated[x, s]
MCXor(x, y)         == Xored[x, y]
MCfk(b, c, d, q)    == FkTable[b, c, d, q \div 5]

MCIV     == [A |-> 5, B |-> 2, C |-> 2, D |-> 3, E |-> 3]
MCfirst  == Expand(<<5, 2, 6, 0, 1, 1, 5, 0, 3, 0, 1, 6, 6, 1, 3, 1>>)
MCsecond == Expand(<<6, 0, 1, 3, 0, 6, 0, 3, 0, 2, 4, 6, 2, 1, 4, 2>>)
MCBlocks == {MCfirst, MCsecond}

MCmessage_mask ==
  [d \in DV |-> Expand(<< <<3, 0, 3, 5, 4, 7, 1, 2, 4, 0, 4, 1, 1, 2, 6, 0>>,
                          <<4, 5, 4, 6, 6, 0, 1, 6, 3, 7, 0, 5, 7, 1, 0, 0>>,
                          <<7, 2, 6, 2, 6, 0, 5, 0, 2, 1, 1, 2, 4, 7, 4, 4>>,
                          <<0, 0, 0, 0, 0, 0, 0, 0, 0, 0, 0, 0, 0, 0, 5, 4>> >>[d + 1])]
MCtest_state == [d \in DV |-> <<8, 14, 8, 14>>[d + 1]]
MCneed_state == [q \in 0 .. Steps |-> CASE q = 8 -> 0 [] q = 14 -> 1 [] OTHER -> -1]

MCUbc(b) == IF b = MCfirst THEN {1, 2, 3} ELSE {0, 3}

Setting(safe, detect, ubc, reduced, handler) ==
  [safe |-> safe, detect |-> detect, ubc |-> ubc, reduced |-> reduced,
   collision |-> handler]

MCSettings == {Setting(TRUE, TRUE, FALSE, FALSE, TRUE), Setting(FALSE, TRUE, TRUE, TRUE, TRUE),
               Setting(TRUE, TRUE, TRUE, TRUE, FALSE), Setting(TRUE, FALSE, FALSE, TRUE, FALSE)}
===============================================================================
