--------------------------- MODULE MC_SpiBitBang ---------------------------
(* Every byte value in every protocol spi_flash_read and spi_flash_write  *)
(* use (STR, QUAD_STR) and the unused DUAL_STR branch, with no dummy      *)
(* cycles and with a few.                                                 *)
EXTENDS SpiBitBang
=============================================================================
