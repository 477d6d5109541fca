------------------------------ MODULE MCSha1Words ------------------------------
(* Words of four bits, in four bytes of one bit. *)
EXTENDS Sha1Words

MCRoundConstant == [k \in 0 .. 3 |-> 0]
===============================================================================
