----------------------------- MODULE MCHandOff -----------------------------
(***************************************************************************)
(* Both chips in small, with windows of four pages of four bytes.  The S3  *)
(* has an instruction and a data window over the same pages, and its       *)
(* on-chip memory on the data bus (48 to 59) and the instruction bus (64   *)
(* to 75), the jump zone being cells 52 to 55.  The P4 has evict_buf at 54 *)
(* and 55, the stack at 56 and its variables at 64.                        *)
(***************************************************************************)
EXTENDS HandOff

Windows == [P4 |-> {<<16, 32>>}, S3 |-> {<<16, 32>>, <<32, 48>>}]
OnChip  == [P4 |-> {<<48, 60>>, <<64, 68>>}, S3 |-> {<<48, 60>>, <<64, 76>>}]
Zones   == [P4 |-> <<0, 0>>, S3 |-> <<68, 72>>]
Loads   == [P4 |-> {17, 19, 24, 49, 51, 60, 64}, S3 |-> {17, 24, 39, 44, 49, 66, 67}]
Cells   == [P4 |-> (48..59) \cup (64..67), S3 |-> 48..59]
IBus    == [P4 |-> <<0, 0>>, S3 |-> <<64, 76>>]
IBusOnly == [P4 |-> {}, S3 |-> {<<64, 76>>}]
EvictBufCells == [P4 |-> {54, 55}, S3 |-> {}]
OwnCells == [P4 |-> {56, 64}, S3 |-> 52..55]
===========================================================================
