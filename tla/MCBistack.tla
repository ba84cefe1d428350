----------------------------- MODULE MCBistack -----------------------------
(* Instances of Bistack for TLC. *)
EXTENDS Bistack

\* With two-byte pointers in a small buffer, odd request sizes make fills and
\* marks of the two stacks meet at every alignment.
SmallRequests == {0, 3}

=============================================================================
