---------------------------- MODULE ScopedArena ----------------------------
(***************************************************************************)
(* What a BISTACK promises its clients, without addresses, marks in        *)
(* memory or a bit register: two stacks of scopes that draw on one budget  *)
(* of bytes.  A scope is the number of bytes charged since its mark, the   *)
(* mark's own word included.                                               *)
(***************************************************************************)
EXTENDS Integers, Sequences

CONSTANTS
  MarkSize,   \* bytes a mark takes
  Capacity,   \* bytes of the buffer past its header
  Requests    \* the sizes clients ask for

VARIABLES
  Fscopes, Bscopes,   \* the bytes of each scope of either side, outermost first
  free,               \* bytes charged to no scope
  outcome             \* the error the last call threw, or "none"

vars == <<Fscopes, Bscopes, free, outcome>>

Init ==
  /\ Fscopes = <<MarkSize>> /\ Bscopes = <<MarkSize>>
  /\ free = Capacity - 2 * MarkSize
  /\ outcome = "none"

Innermost(scopes) == scopes[Len(scopes)]
Outer(scopes)     == SubSeq(scopes, 1, Len(scopes) - 1)
Charge(scopes, n) == [scopes EXCEPT ![Len(scopes)] = @ + n]

Throw(err) == outcome' = err /\ UNCHANGED <<Fscopes, Bscopes, free>>

\* Op changes only one side; the budget pays for it or gets it back.
OnOneSide(Op(_, _)) ==
  \/ Op(Fscopes, Fscopes') /\ UNCHANGED Bscopes
  \/ Op(Bscopes, Bscopes') /\ UNCHANGED Fscopes

Alloc(n) ==
  \/ /\ n <= free
     /\ OnOneSide(LAMBDA s, t : t = Charge(s, n))
     /\ free' = free - n /\ outcome' = "none"
  \/ n > free /\ Throw("BISTACK_OUT_OF_MEMORY")

Mark ==
  \/ /\ MarkSize <= free
     /\ OnOneSide(LAMBDA s, t : t = Append(s, MarkSize))
     /\ free' = free - MarkSize /\ outcome' = "none"
  \/ MarkSize > free /\ Throw("BISTACK_OUT_OF_MEMORY")

Rewind ==
  \/ /\ OnOneSide(LAMBDA s, t : /\ Len(s) > 1 /\ t = Outer(s)
                                /\ free' = free + Innermost(s))
     /\ outcome' = "none"
  \/ /\ Len(Fscopes) = 1 \/ Len(Bscopes) = 1
     /\ Throw("BISTACK_REWIND_TOO_FAR")

DropMark ==
  \/ /\ OnOneSide(LAMBDA s, t : /\ Len(s) > 1
                                /\ t = Charge(Outer(s), Innermost(s)))
     /\ outcome' = "none" /\ UNCHANGED free
  \/ /\ Len(Fscopes) = 1 \/ Len(Bscopes) = 1
     /\ Throw("BISTACK_DROPMARK_TOO_FAR")

\* Direction changes, and calls that only touch the contents of memory.
Other == outcome' \in {"none", "abort"} /\ UNCHANGED <<Fscopes, Bscopes, free>>

Next ==
  \/ \E n \in Requests : Alloc(n)
  \/ Mark
  \/ Rewind
  \/ DropMark
  \/ Other

Spec == Init /\ [][Next]_vars

=============================================================================
