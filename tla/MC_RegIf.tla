------------------------------- MODULE MC_RegIf -------------------------------
(* Three reg_if structs over a 16-byte raw window: enough for a raw window,  *)
(* a view and a view of the view, with offsets and sizes at, inside and  *)
(* past every window edge.                                                 *)
EXTENDS RegIf

MCIds == {1, 2, 3}
====
