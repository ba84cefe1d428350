---------------------------- MODULE MCContainers ----------------------------
(* The containers that lie in an arena, and the arena's ancestor, for TLC: *)
(* a behaviour uses one of them.                                           *)
EXTENDS List, Multistring

CONSTANTS
  a, b,
  Numbers, Words, WORD_BITS,  \* of Vlist, its Room being Words
  Size, MARK, Requests        \* of Heap

VARIABLES
  uses,  \* the container that is used
  sublists, last_size, ofs, used, got_number, aborted,
  ptr, lastmark, marks, failed

V == INSTANCE Vlist
       WITH Values <- Numbers, Junk <- NULL, Room <- Words, ret <- got_number
H == INSTANCE Heap WITH aborted <- failed

TwoValues == {a, b}

multistring == <<stringbufs, totallen, bufpos, char_index, buf, text, got>>
vlist == <<sublists, last_size, ofs, used, got_number, aborted>>
heap == <<ptr, lastmark, marks, failed>>

all == <<uses, vars, multistring, vlist, heap>>

ContainersInit ==
  /\ uses \in {"list", "multistring", "vlist", "heap"}
  /\ Init /\ MsInit /\ V!Init /\ H!Init

ContainersNext ==
  /\ UNCHANGED uses
  /\ \/ uses = "list" /\ Next /\ UNCHANGED <<multistring, vlist, heap>>
     \/ uses = "multistring" /\ MsNext /\ UNCHANGED <<vars, vlist, heap>>
     \/ uses = "vlist" /\ V!Next /\ UNCHANGED <<vars, multistring, heap>>
     \/ uses = "heap" /\ H!Next /\ UNCHANGED <<vars, multistring, vlist>>

ContainersSpec == ContainersInit /\ [][ContainersNext]_all

-----------------------------------------------------------------------------
\* A vlist used at its front is the sequence that a list is, but for what a
\* shift of an empty one returns and a free that aborts.
VlistSpec == V!VlistSpec

\* A vlist's indexes lead to its numbers, and the others are refused.
VlistIndexed == V!VlistIndexed

\* A heap is an arena of which one end is used.
HeapSpec == H!HeapSpec

=============================================================================
