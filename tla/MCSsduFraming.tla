--------------------------- MODULE MCSsduFraming ---------------------------
(***************************************************************************)
(* A small frame format for TLC: a magic of three bytes, the first two of  *)
(* them equal as in "SSDU", and room for a whole frame in a payload.       *)
(***************************************************************************)
EXTENDS SsduFraming

MCMagic    == <<1, 1, 2>>
MCPayloads == {<<>>, <<1>>}
===========================================================================
