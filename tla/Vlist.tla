------------------------------- MODULE Vlist -------------------------------
(***************************************************************************)
(* The VLIST of vlist.c: numbers put on and taken off at the front, and    *)
(* reached by index.  They fill sublists from their end; a full one gets   *)
(* one of twice its size in front of it.  Sublists come from the arena,    *)
(* yet one that is empty is passed to the C library's free.                *)
(***************************************************************************)
EXTENDS Integers, Sequences, SequencesExt

CONSTANTS
  Values,    \* the numbers
  Junk,      \* what memory that was just allocated holds: none of them
  Room,      \* how many sublists and numbers the arena has room for
  WORD_BITS  \* the width of a size_t

VARIABLES
  sublists,        \* the chain from head on, each of them the places of its buf
  last_size, ofs,  \* the size of the first one, and where its numbers begin
  used,            \* the memory the arena has given
  ret,             \* what the last call returned
  aborted          \* did free end the program?

memory == <<sublists, last_size, ofs, used>>
vars   == <<memory, ret, aborted>>

Word(n) == n % 2 ^ WORD_BITS

sublist_new(size) == [i \in 0 .. size - 1 |-> Junk]

\* vlist_new: a sublist of one place, that no number is ever put in.
Init ==
  /\ sublists = <<sublist_new(1)>>
  /\ last_size = 1 /\ ofs = 0
  /\ used = 2 /\ ret = Junk /\ aborted = FALSE

vlist_size == Word(last_size * 2 - ofs - 2)

\* Where the arena has no room it throws before anything is written.
vlist_unshift(x) ==
  LET fresh == ofs = 0
      size  == IF fresh THEN 2 * last_size ELSE last_size
      chain == IF fresh THEN <<sublist_new(size)>> \o sublists ELSE sublists
      place == (IF fresh THEN size ELSE ofs) - 1
  IN /\ ~aborted
     /\ fresh => used + 1 + size <= Room
     /\ used' = IF fresh THEN used + 1 + size ELSE used
     /\ last_size' = size /\ ofs' = place
     /\ sublists' = [chain EXCEPT ![1][place] = x]
     /\ ret' = x /\ UNCHANGED aborted

\* The guard of vlist_shift: with one place the offset is always zero.
OnEmpty == last_size = 1 /\ ofs = 1

\* Fault: the sublist goes when its last number is still to be taken.
EmptiesEarly == ofs + 2 = last_size

Empties == ofs + 1 = last_size

\* free is given a pointer into the arena.  The library may find that out and
\* abort, or not find it out.
vlist_shift ==
  /\ ~aborted /\ ~OnEmpty
  /\ ret' = sublists[1][ofs]
  /\ UNCHANGED used
  /\ \/ /\ Empties /\ last_size > 1
        /\ sublists' = Tail(sublists)
        /\ last_size' = last_size \div 2 /\ ofs' = 0
        /\ UNCHANGED aborted
     \/ /\ Empties /\ last_size = 1
        /\ ofs' = 0
        /\ UNCHANGED <<sublists, last_size, aborted>>
     \/ /\ ~Empties
        /\ ofs' = ofs + 1
        /\ UNCHANGED <<sublists, last_size, aborted>>

FreeAborts ==
  /\ ~aborted /\ ~OnEmpty /\ Empties /\ last_size > 1
  /\ aborted' = TRUE
  /\ UNCHANGED <<memory, ret>>

Next == (\E x \in Values : vlist_unshift(x)) \/ vlist_shift \/ FreeAborts

Spec == Init /\ [][Next]_vars

-----------------------------------------------------------------------------
(* vlist_address, and the number it leads to.                              *)

Refused == "VLIST_INDEX_ERROR"

\* i ^= top, for a top that is a power of two.
Flip(i, top) == IF (i \div top) % 2 = 1 THEN i - top ELSE i + top

\* Fault: the test leaves out that one place is never used.
OutOfRangeLate(i) == i + 1 >= 2 * last_size

\* The sum wraps around as the code's does.
OutOfRange(i) == Word(i + 2) >= Word(2 * last_size)

vlist_element(idx) ==
  LET walk[n \in 1 .. Len(sublists) + 1, i \in 0 .. 2 ^ WORD_BITS - 1] ==
        LET top == last_size \div 2 ^ (n - 1) IN
        IF n > Len(sublists) THEN Junk
        ELSE IF i >= top THEN walk[n + 1, Flip(i, top)]
        ELSE sublists[n][i]
      start == Word(idx + ofs)
  IN IF OutOfRange(start) THEN Refused ELSE walk[1, start]

-----------------------------------------------------------------------------
\* The numbers, as the layout of the sublists has them.
Items ==
  FlattenSeq([n \in 1 .. Len(sublists) - 1 |->
                LET first == IF n = 1 THEN ofs ELSE 0
                    size  == last_size \div 2 ^ (n - 1)
                IN [i \in 1 .. size - first |-> sublists[n][first + i - 1]]])

Abstract == INSTANCE Deque WITH items <- Items, NULL <- Junk

\* The code has a guard against it ("vlist_shift called on empty array",
\* vlist.c:78), which is never true: what is returned is no number.
ShiftsEmpty == Items = <<>> /\ Items' = <<>>

\* Used at its front a VLIST is the sequence that a LIST is: however the
\* sublists come and go, a number is taken off as it was put on.  Two things
\* are excepted, in which the code does not do as it says: a shift of an empty
\* one, which should throw (vlist.c:106, "boom"), and a free of the arena's
\* memory that ends the program (vlist.c:87), which is a stutter here.
VlistSpec ==
  /\ Abstract!Init
  /\ [][Abstract!Next \/ ShiftsEmpty]_<<Items, ret>>

\* The size is the number of numbers, each index below it leads to its number
\* through the sublists, and each other index is refused, but for the last
\* few of all, whose sum with the offset comes round to zero.
VlistIndexed ==
  /\ vlist_size = Len(Items)
  /\ \A idx \in 0 .. 2 ^ WORD_BITS - 3 - ofs :
       vlist_element(idx) = IF idx < Len(Items) THEN Items[idx + 1] ELSE Refused

=============================================================================
