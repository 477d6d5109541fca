----------------------------- MODULE MCSha1dcsum ------------------------------
(***************************************************************************)
(* Small instances of Sha1dcsum: up to three arguments, files of up to two *)
(* buffers and a bit.  A digest is the message itself, so that no two      *)
(* messages share one.                                                     *)
(***************************************************************************)
EXTENDS Sha1dcsum

CONSTANTS MaxArguments

MCCommandLines == UNION {[1 .. k -> Names] : k \in 0 .. MaxArguments}
MCContents     == {<<>>, <<1>>, <<1, 2>>, <<1, 2, 3, 4, 5>>}
MCDigest(m, reduced) == <<m, reduced>>
===============================================================================
