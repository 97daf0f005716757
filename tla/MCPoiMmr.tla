------------------------------ MODULE MCPoiMmr ------------------------------
(* Values of the constants of PoiMmr for TLC. *)
EXTENDS PoiMmr

SomeHeights == {2, 4, 5, 7}   \* a gap before, between and after the rows
=============================================================================
