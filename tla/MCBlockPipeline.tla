-------------------------- MODULE MCBlockPipeline ---------------------------
(* Values of the constants of BlockPipeline for TLC. *)
EXTENDS BlockPipeline

AllHeights   == 1 .. MaxHeight          \* every block holds a match: range mode
SparseBlocks == {2, 4, 5, 6}            \* matches the dictionary reports
FewBlocks    == {2, 5}
TemplateBlocks == {3, 4}
OldBlocks    == {2, 4, 5, 7}         \* what is asked for before a reset at 4 ...
NewBlocks    == {3, 6}               \* ... and what its new source adds, 6 in between
NoBlocks     == {}
ThirdBlock   == {3}
FourthBlock  == {4}
SecondBlock  == {2}
=============================================================================
