----------------------------- MODULE BistackOps -----------------------------
(***************************************************************************)
(* The two-ended arena of bistack.c and bistack.h, as operators over one   *)
(* BISTACK record.  A forward stack grows up from the header, a backward   *)
(* stack grows down from the end of the buffer, and each keeps its own     *)
(* chain of marks INSIDE the memory it hands out: a mark is one pointer,   *)
(* stored at the top of its stack, that holds the address of the mark      *)
(* made before it.                                                         *)
(*                                                                         *)
(* Addresses are offsets from the start of the buffer, so the header       *)
(* occupies 0 .. HDR-1 and no mark can have the address NULL.  The field   *)
(* mem holds only the pointers that are stored in the buffer: overwriting  *)
(* any byte of a pointer with other data removes it from mem, and so does  *)
(* giving its memory back.  Reading a pointer that is not in mem is the    *)
(* use of a clobbered or freed mark, and yields GARBAGE.                   *)
(***************************************************************************)
EXTENDS Integers

CONSTANTS
  HDR,    \* sizeof(BISTACK)
  PTR,    \* sizeof(void *)
  DirBits \* width of direction_stack, 8 in the code; bit 0 is the current direction

ASSUME SizesAssumption ==
  HDR \in Nat \ {0} /\ PTR \in Nat \ {0} /\ DirBits \in Nat \ {0}

NULL == 0

GARBAGE == -1    \* what a word holds that is not a stored pointer

BS_FORWARD  == 0
BS_BACKWARD == 1

-----------------------------------------------------------------------------
(* Pointers stored in the buffer.                                          *)

\* Does the pointer stored at a share a byte with lo .. hi-1?
Overlaps(a, lo, hi) == a < hi /\ lo < a + PTR

\* The stored pointers left after bytes lo .. hi-1 are overwritten.
Scrub(mem, lo, hi) ==
  [a \in {x \in DOMAIN mem : ~Overlaps(x, lo, hi)} |-> mem[a]]

StorePtr(mem, at, val) ==
  [a \in {x \in DOMAIN mem : ~Overlaps(x, at, at + PTR)} \cup {at} |->
     IF a = at THEN val ELSE mem[a]]

\* The word stored at a.
Deref(bs, a) == IF a \in DOMAIN bs.mem THEN bs.mem[a] ELSE GARBAGE

-----------------------------------------------------------------------------
(* Allocation: one bounds test for both directions, made before any state  *)
(* changes.                                                                *)

\* Fault: no bounds test.
CanAllocAlways(bs, n) == TRUE

CanAlloc(bs, n) == bs.fptr + n <= bs.bptr

bistack_freemem(bs) == bs.bptr - bs.fptr

bistack_allocf(bs, n) == [bs EXCEPT !.fptr = bs.fptr + n]

bistack_allocb(bs, n) == [bs EXCEPT !.bptr = bs.bptr - n]

-----------------------------------------------------------------------------
(* Marks.                                                                  *)

bistack_markf(bs) ==
  [bs EXCEPT !.fptr  = bs.fptr + PTR,
             !.fmark = bs.fptr,
             !.mem   = StorePtr(bs.mem, bs.fptr, bs.fmark)]

\* Fault: copied from bistack_markf, it chains the backward mark to the
\* forward ones.
bistack_markb_crossed(bs) ==
  [bs EXCEPT !.bptr  = bs.bptr - PTR,
             !.bmark = bs.bptr - PTR,
             !.mem   = StorePtr(bs.mem, bs.bptr - PTR, bs.fmark)]

bistack_markb(bs) ==
  [bs EXCEPT !.bptr  = bs.bptr - PTR,
             !.bmark = bs.bptr - PTR,
             !.mem   = StorePtr(bs.mem, bs.bptr - PTR, bs.bmark)]

\* The condition rewind and dropmark assert: the chain's first mark stays.
HasMark(bs, mark) == mark # NULL /\ Deref(bs, mark) # NULL

bistack_rewindf(bs) ==
  [bs EXCEPT !.fptr  = bs.fmark,
             !.fmark = Deref(bs, bs.fmark),
             !.mem   = Scrub(bs.mem, bs.fmark, bs.fptr)]

\* Fault: the memory of the mark itself is not given back.
bistack_rewindb_short(bs) ==
  [bs EXCEPT !.bptr  = bs.bmark,
             !.bmark = Deref(bs, bs.bmark)]

bistack_rewindb(bs) ==
  [bs EXCEPT !.bptr  = bs.bmark + PTR,
             !.bmark = Deref(bs, bs.bmark),
             !.mem   = Scrub(bs.mem, bs.bptr, bs.bmark + PTR)]

\* Fault: dropping a mark frees what was allocated since.
bistack_dropmarkf_frees(bs) ==
  [bs EXCEPT !.fptr = bs.fmark, !.fmark = Deref(bs, bs.fmark)]

bistack_dropmarkf(bs) == [bs EXCEPT !.fmark = Deref(bs, bs.fmark)]

bistack_dropmarkb(bs) == [bs EXCEPT !.bmark = Deref(bs, bs.bmark)]

bistack_zero(bs) == [bs EXCEPT !.mem = Scrub(bs.mem, bs.fptr, bs.bptr)]

-----------------------------------------------------------------------------
(* The direction register: a uint8_t used as a stack of bits.              *)

bistack_dir(bs) == bs.dir[0]

\* Fault: the ninth push is let through.
CanPushDirAlways(bs) == TRUE

CanPushDir(bs) == bs.dir[DirBits - 1] = 0    \* the assert of bistack_pushdir

bistack_pushdir(bs, d) ==
  [bs EXCEPT !.dir = [i \in 0 .. DirBits - 1 |->
                        IF i = 0 THEN d ELSE bs.dir[i - 1]]]

bistack_popdir(bs) ==
  [bs EXCEPT !.dir = [i \in 0 .. DirBits - 1 |->
                        IF i = DirBits - 1 THEN 0 ELSE bs.dir[i + 1]]]

\* The operations that follow the current direction.
Forward(bs) == bistack_dir(bs) = BS_FORWARD

bistack_alloc(bs, n) ==
  IF Forward(bs) THEN bistack_allocf(bs, n) ELSE bistack_allocb(bs, n)

bistack_mark(bs) ==
  IF Forward(bs) THEN bistack_markf(bs) ELSE bistack_markb(bs)

CanRewind(bs) == HasMark(bs, IF Forward(bs) THEN bs.fmark ELSE bs.bmark)

bistack_rewind(bs) ==
  IF Forward(bs) THEN bistack_rewindf(bs) ELSE bistack_rewindb(bs)

\* The address bistack_mark and bistack_rewind return: the one a later
\* rewind of the same mark has to return again.
StackTop(bs) == IF Forward(bs) THEN bs.fptr ELSE bs.bptr

-----------------------------------------------------------------------------
(* bistack_init marks both stacks, so that neither chain is ever empty.    *)

bistack_init(size) ==
  bistack_markb(bistack_markf(
    [fptr |-> HDR, fmark |-> NULL, bptr |-> size, bmark |-> NULL,
     dir |-> [i \in 0 .. DirBits - 1 |-> BS_FORWARD],
     mem |-> [a \in {} |-> NULL]]))

=============================================================================
