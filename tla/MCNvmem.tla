------------------------------ MODULE MCNvmem ------------------------------
(* Values of the store's constants for TLC.                                *)
EXTENDS Nvmem

\* In a store of 72 bytes: the longest splits it and leaves what a second
\* one fits exactly, and the shorter ones split what a longer one freed.
SomeLens == {0, 1, 4, 32}

OneLen == {32}

Letters == {88, 90}

OneLetter == {88}

=============================================================================
