------------------------------- MODULE MCAvl -------------------------------
(* Values of the tree's constants for TLC.                                 *)
EXTENDS Avl

\* The most that a tree of four levels needs to be out of balance nowhere
\* and yet have a hole above its last row.
SevenKeys == 1 .. 7

FourKeys == 1 .. 4

TwoKeys == 1 .. 2

=============================================================================
