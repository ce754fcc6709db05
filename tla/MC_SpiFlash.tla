---------------------------- MODULE MC_SpiFlash ----------------------------
(* Model-checking instance of SpiFlash: a 16-byte part in two "banks" of  *)
(* 8 (so the 4-byte read opcodes and the extended address register are   *)
(* used) and an 8-byte part (3-byte addressing), pages of 2, subsectors   *)
(* of 4, sectors of 8.                                                    *)
EXTENDS SpiFlash

(* One initial content, with period 3 so that no page, subsector or bank *)
(* boundary lines up with it: a cell read, written or erased at the wrong *)
(* address shows.                                                          *)
MCInitMems == { [x \in 0..MaxSize-1 |-> IF x % 3 = 0 THEN 0 ELSE 1] }
=============================================================================
