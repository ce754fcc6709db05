-------------------------- MODULE MC_SpiFlashInit --------------------------
(* Every READ_ID answer with manufacturer 0x00, 0x20 (Micron), 0xC2       *)
(* (Macronix), 0x01 (another vendor) or 0xFF and any capacity byte; the   *)
(* memory-type byte only feeds a diagnostic and is fixed to 0x20.         *)
EXTENDS SpiFlashInit

MCIds == [mfr : {0, 1, MICRON, MACRONIX, 255}, type : {32}, cap : 0..255]

(* The READ_ID answers of the scenarios of spec.md 8: S1 Micron 20 BA 19, *)
(* S2 Macronix C2 20 19 and C2 20 3A, S3 dead bus FF FF FF.               *)
MCSpecIds == { [mfr |-> MICRON, type |-> 186, cap |-> 25],
               [mfr |-> MACRONIX, type |-> 32, cap |-> 25],
               [mfr |-> MACRONIX, type |-> 32, cap |-> 58],
               [mfr |-> 255, type |-> 255, cap |-> 255] }
=============================================================================
