-------------------------------- MODULE Heap --------------------------------
(***************************************************************************)
(* The HEAP of heap.c, from which the BISTACK was made: one end, marks     *)
(* that lie in the memory they mark, and asserts in place of errors.       *)
(***************************************************************************)
EXTENDS Integers, Sequences, SequencesExt, FiniteSetsExt

CONSTANTS
  Size,     \* what heap_new is asked for
  MARK,     \* sizeof(MARK)
  Requests  \* the sizes clients ask for

VARIABLES
  ptr,       \* how many bytes are in use
  lastmark,
  marks,     \* the MARKs that lie in the memory, by address
  aborted    \* did an assert fail?

vars == <<ptr, lastmark, marks, aborted>>

NoMark == -1

Init == ptr = 0 /\ lastmark = NoMark /\ marks = [a \in {} |-> NoMark] /\ aborted = FALSE

Fits(n) == ptr + n <= Size

Abort == aborted' = TRUE /\ UNCHANGED <<ptr, lastmark, marks>>

\* What lies in memory that is given out again is no mark any more.
Overwrite(lo, hi) ==
  [a \in {x \in DOMAIN marks : x + MARK <= lo \/ hi <= x} |-> marks[a]]

heap_alloc(n) ==
  /\ ~aborted
  /\ IF ~Fits(n) THEN Abort
     ELSE /\ ptr' = ptr + n
          /\ marks' = Overwrite(ptr, ptr + n)
          /\ UNCHANGED <<lastmark, aborted>>

\* Fault: the mark itself is not given back.
MarkedAbove == ptr + MARK

Marked == ptr

heap_mark ==
  /\ ~aborted
  /\ IF ~Fits(MARK) THEN Abort
     ELSE /\ ptr' = ptr + MARK
          /\ marks' = [a \in DOMAIN Overwrite(ptr, ptr + MARK) \cup {ptr} |->
                         IF a = ptr THEN [ptr |-> Marked, next |-> lastmark] ELSE marks[a]]
          /\ lastmark' = ptr
          /\ UNCHANGED aborted

heap_rewind ==
  /\ ~aborted
  /\ IF lastmark = NoMark THEN Abort
     ELSE /\ ptr' = marks[lastmark].ptr
          /\ lastmark' = marks[lastmark].next
          /\ UNCHANGED <<marks, aborted>>

Next == (\E n \in Requests : heap_alloc(n)) \/ heap_mark \/ heap_rewind

Spec == Init /\ [][Next]_vars

-----------------------------------------------------------------------------
\* The marks from the one at address m back to the first.
Back(m) ==
  LET on[a \in Int] == IF a \notin DOMAIN marks THEN <<>> ELSE <<a>> \o on[marks[a].next]
  IN on[m]

\* The bytes of each scope, the one before the first mark included.  The
\* arena of two ends has two marks of its own, which a HEAP does not take.
Scopes ==
  LET from == <<0>> \o Reverse(Back(lastmark)) \o <<ptr>>
  IN [i \in 1 .. Len(from) - 1 |-> from[i + 1] - from[i] + IF i = 1 THEN MARK ELSE 0]

Abstract == INSTANCE ScopedArena
  WITH Fscopes <- Scopes, Bscopes <- <<MARK>>, free <- Size - ptr,
       outcome <- IF aborted THEN "abort" ELSE "none",
       MarkSize <- MARK, Capacity <- Size + 2 * MARK

\* A HEAP is an arena of which one end is used: a rewind gives back the bytes
\* allocated since the mark, and the mark's, and the chain of marks that lies
\* in this memory survives each.
HeapSpec == Abstract!Spec

=============================================================================
