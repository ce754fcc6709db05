----------------------------- MODULE MC_RegBlock -----------------------------
(* Register contents for checking RegBlock: three header slots 16 bytes  *)
(* apart in a 48-byte window, each next pointing at a slot, at 0 or at    *)
(* the end of the window, so that chains of every length, loops, self    *)
(* loops and back-pointers to the first block all occur.                  *)
EXTENDS RegBlock

MCHeaders == [type : Types, version : Versions, next : Offsets \cup {0, Size}]

MCLayouts == [Offsets -> MCHeaders]

MCGarbage == {[type |-> 1, version |-> 1, next |-> 0]}

(* A straight chain through every slot, ending at the end of the window. *)
MCLinear == { [o \in Offsets |-> [type |-> 1, version |-> 1, next |-> o + 16]] }

MCOffsets3 == {0, 16, 32}
MCOffsets8 == {16 * i : i \in 0..7}
====
