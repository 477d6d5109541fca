------------------------------ MODULE MCUbcCheck ------------------------------
(***************************************************************************)
(* UbcCheck with the program's own tables, and with smaller ones.          *)
(***************************************************************************)
EXTENDS UbcCheck, BitConditions

(* A message is given by its bits that are 1. *)
MessageOf(ones) == [w \in 0 .. 79 |-> [b \in 0 .. 31 |-> <<w, b>> \in ones]]

-------------------------------------------------------------------------------
(* Messages for the program's tables.  Bits that meet the conditions of    *)
(* vectors 0 and 30, of 15, and of 30 alone; all of these but one; and     *)
(* messages that rule all vectors out, before and after the early return.  *)

MCMeet == {{<<37, 4>>, <<40, 29>>, <<41, 4>>, <<44, 29>>, <<58, 0>>, <<62, 6>>},
           {<<38, 4>>, <<48, 4>>, <<51, 29>>, <<52, 4>>, <<55, 29>>, <<56, 29>>},
           {<<39, 4>>, <<42, 29>>}}
MCMiss == {{<<48, 29>>, <<51, 29>>, <<53, 29>>}, {}}

MCProgramMessages ==
  {MessageOf(ones) :
     ones \in MCMeet \cup MCMiss \cup UNION {{ones \ {x} : x \in ones} : ones \in MCMeet}}

-------------------------------------------------------------------------------
(* Other tables, laid out like the program's: the first 65 conditions      *)
(* (indices 0 to 64) concern several vectors each and the others few.      *)

MCWords == <<35, 50, 66>>
MCBits  == <<4, 29>>

MCAt(s, k) == s[(k % (IF s = MCWords THEN 3 ELSE 2)) + 1]

(* Early conditions look at the first two words, late ones at all of them. *)
MCubc ==
  [k \in 0 .. N - 1 |->
     [a |-> IF k > 64 THEN 66 ELSE 35 + 15 * (k % 2),
      b |-> IF k > 64 THEN MCAt(MCWords, k) ELSE 50,
      i |-> MCAt(MCBits, k), j |-> MCAt(MCBits, k \div 3),
      c |-> IF k % 7 = 0 /\ k > 7 THEN -1 ELSE 0,
      dvmask |-> IF k > 64 THEN {(5 * k) % n_disturbance_vectors,
                                 (7 * k + 1) % n_disturbance_vectors}
                 ELSE {d \in DV : (d + k) % 11 = 0}]]

MCas == [k \in InVectors |-> IF k < N THEN ByteOf(MCubc[k].a, MCubc[k].i) ELSE 0]
MCbs == [k \in InVectors |-> IF k < N THEN ByteOf(MCubc[k].b, MCubc[k].j) ELSE 0]
MCms == [k \in InVectors |-> IF k < N THEN {MCubc[k].i % 8} ELSE {}]
MCns == [k \in InVectors |-> IF k < N THEN {MCubc[k].j % 8} ELSE {}]
MCcs == {k \in 0 .. N - 1 : MCubc[k].c = -1}
MCdvmasks == [k \in InVectors |-> IF k < N THEN MCubc[k].dvmask ELSE {}]

MCMessages ==
  {MessageOf(ones) : ones \in SUBSET {<<35, 29>>, <<50, 4>>, <<50, 29>>, <<66, 4>>}}
===============================================================================
