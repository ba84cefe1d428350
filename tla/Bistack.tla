------------------------------ MODULE Bistack ------------------------------
(***************************************************************************)
(* The arena of bistack.c under an arbitrary client: any order of          *)
(* allocations, marks, rewinds, dropped marks and direction changes, on    *)
(* both stacks, with calls that throw in between.  lerror unwinds to the   *)
(* client's setjmp with longjmp and undoes nothing, so after a throw the   *)
(* client goes on with the arena as it was when the call gave up.          *)
(*                                                                         *)
(* bs is the BISTACK.  The other variables are the client's: what it was   *)
(* given and still owns.  The properties compare the two.                  *)
(***************************************************************************)
EXTENDS BistackOps, Sequences

CONSTANTS
  Size,      \* bytes of the buffer given to bistack_init
  Requests,  \* the sizes clients ask for (uint16_t)
  MaxDirs    \* bound of the model: directions pushed and not yet popped

ASSUME ArenaAssumption ==
  /\ Size \in Nat /\ HDR + 2 * PTR <= Size
  /\ \A n \in Requests : n \in Nat /\ n < 65536
  /\ MaxDirs \in Nat

VARIABLES
  bs,      \* the BISTACK
  fmarks,  \* what bistack_markf returned, for the marks not yet undone
  bmarks,  \* what bistack_markb returned, for the marks not yet undone
  live,    \* the blocks the client may use
  dirs,    \* the directions pushed and not yet popped
  thrown,  \* the error the last call threw, "abort" for a failed assert
  ret      \* the address the last call returned

vars   == <<bs, fmarks, bmarks, live, dirs, thrown, ret>>
client == <<fmarks, bmarks, live, dirs>>

Errors == {"BISTACK_OUT_OF_MEMORY", "BISTACK_REWIND_TOO_FAR",
           "BISTACK_DROPMARK_TOO_FAR"}

\* bistack_init's own marks are the first of each chain.
Init ==
  /\ bs     = bistack_init(Size)
  /\ fmarks = <<HDR>>
  /\ bmarks = <<Size>>
  /\ live   = {}
  /\ dirs   = <<>>
  /\ thrown = "none"
  /\ ret    = NULL

-----------------------------------------------------------------------------
Return(r) == thrown' = "none" /\ ret' = r

Throw(err) == thrown' = err /\ ret' = NULL /\ UNCHANGED <<bs, client>>

Top(marks) == marks[Len(marks)]

Pop(marks) == SubSeq(marks, 1, Len(marks) - 1)

\* The blocks allocated on a side since its mark number d was made.
Scope(side, d) == {b \in live : b.side = side /\ b.depth = d}

-----------------------------------------------------------------------------
AllocF(n) ==
  \/ /\ CanAlloc(bs, n)
     /\ bs' = bistack_allocf(bs, n)
     /\ live' = live \cup {[side |-> BS_FORWARD, depth |-> Len(fmarks),
                            lo |-> bs.fptr, hi |-> bs.fptr + n]}
     /\ Return(bs.fptr)
     /\ UNCHANGED <<fmarks, bmarks, dirs>>
  \/ ~CanAlloc(bs, n) /\ Throw("BISTACK_OUT_OF_MEMORY")

AllocB(n) ==
  \/ /\ CanAlloc(bs, n)
     /\ bs' = bistack_allocb(bs, n)
     /\ live' = live \cup {[side |-> BS_BACKWARD, depth |-> Len(bmarks),
                            lo |-> bs.bptr - n, hi |-> bs.bptr]}
     /\ Return(bs.bptr - n)
     /\ UNCHANGED <<fmarks, bmarks, dirs>>
  \/ ~CanAlloc(bs, n) /\ Throw("BISTACK_OUT_OF_MEMORY")

MarkF ==
  \/ /\ CanAlloc(bs, PTR)
     /\ bs' = bistack_markf(bs)
     /\ fmarks' = Append(fmarks, bs.fptr)
     /\ Return(bs.fptr)
     /\ UNCHANGED <<bmarks, live, dirs>>
  \/ ~CanAlloc(bs, PTR) /\ Throw("BISTACK_OUT_OF_MEMORY")

MarkB ==
  \/ /\ CanAlloc(bs, PTR)
     /\ bs' = bistack_markb(bs)
     /\ bmarks' = Append(bmarks, bs.bptr)
     /\ Return(bs.bptr)
     /\ UNCHANGED <<fmarks, live, dirs>>
  \/ ~CanAlloc(bs, PTR) /\ Throw("BISTACK_OUT_OF_MEMORY")

RewindF ==
  \/ /\ HasMark(bs, bs.fmark)
     /\ bs' = bistack_rewindf(bs)
     /\ live' = live \ Scope(BS_FORWARD, Len(fmarks))
     /\ fmarks' = Pop(fmarks)
     /\ Return(bs'.fptr)
     /\ UNCHANGED <<bmarks, dirs>>
  \/ ~HasMark(bs, bs.fmark) /\ Throw("BISTACK_REWIND_TOO_FAR")

RewindB ==
  \/ /\ HasMark(bs, bs.bmark)
     /\ bs' = bistack_rewindb(bs)
     /\ live' = live \ Scope(BS_BACKWARD, Len(bmarks))
     /\ bmarks' = Pop(bmarks)
     /\ Return(bs'.bptr)
     /\ UNCHANGED <<fmarks, dirs>>
  \/ ~HasMark(bs, bs.bmark) /\ Throw("BISTACK_REWIND_TOO_FAR")

\* The blocks of a scope whose mark is dropped join the scope before it.
Merge(side, d) ==
  (live \ Scope(side, d)) \cup {[b EXCEPT !.depth = d - 1] : b \in Scope(side, d)}

DropMarkF ==
  \/ /\ HasMark(bs, bs.fmark)
     /\ bs' = bistack_dropmarkf(bs)
     /\ live' = Merge(BS_FORWARD, Len(fmarks))
     /\ fmarks' = Pop(fmarks)
     /\ Return(bs.fmark)
     /\ UNCHANGED <<bmarks, dirs>>
  \/ ~HasMark(bs, bs.fmark) /\ Throw("BISTACK_DROPMARK_TOO_FAR")

DropMarkB ==
  \/ /\ HasMark(bs, bs.bmark)
     /\ bs' = bistack_dropmarkb(bs)
     /\ live' = Merge(BS_BACKWARD, Len(bmarks))
     /\ bmarks' = Pop(bmarks)
     /\ Return(bs.bmark)
     /\ UNCHANGED <<fmarks, dirs>>
  \/ ~HasMark(bs, bs.bmark) /\ Throw("BISTACK_DROPMARK_TOO_FAR")

-----------------------------------------------------------------------------
(* The calls that follow the current direction.                            *)

Alloc(n) == IF Forward(bs) THEN AllocF(n) ELSE AllocB(n)

Mark == IF Forward(bs) THEN MarkF ELSE MarkB

Rewind == IF Forward(bs) THEN RewindF ELSE RewindB

DropMark == IF Forward(bs) THEN DropMarkF ELSE DropMarkB

PushDir(d) ==
  \/ /\ CanPushDir(bs) /\ Len(dirs) < MaxDirs
     /\ bs' = bistack_pushdir(bs, d)
     /\ dirs' = Append(dirs, d)
     /\ Return(NULL)
     /\ UNCHANGED <<fmarks, bmarks, live>>
  \/ ~CanPushDir(bs) /\ Throw("abort")

\* Popping with nothing pushed leaves the direction bistack_init set.
PopDir ==
  /\ bs' = bistack_popdir(bs)
  /\ dirs' = IF dirs = <<>> THEN <<>> ELSE Pop(dirs)
  /\ Return(NULL)
  /\ UNCHANGED <<fmarks, bmarks, live>>

\* bistack_zero erases what lies between the two stacks.
Zero ==
  /\ bs' = bistack_zero(bs)
  /\ Return(NULL)
  /\ UNCHANGED client

\* The client fills a block it owns.
Fill(b) ==
  /\ bs' = [bs EXCEPT !.mem = Scrub(bs.mem, b.lo, b.hi)]
  /\ Return(NULL)
  /\ UNCHANGED client

Next ==
  /\ thrown # "abort"
  /\ \/ \E n \in Requests : AllocF(n) \/ AllocB(n) \/ Alloc(n)
     \/ MarkF \/ MarkB \/ Mark
     \/ RewindF \/ RewindB \/ Rewind
     \/ DropMarkF \/ DropMarkB \/ DropMark
     \/ \E d \in {BS_FORWARD, BS_BACKWARD} : PushDir(d)
     \/ PopDir
     \/ Zero
     \/ \E b \in live : Fill(b)

Spec == Init /\ [][Next]_vars

-----------------------------------------------------------------------------
Addr == 0 .. Size

Block == [side : {BS_FORWARD, BS_BACKWARD}, depth : Nat, lo : Addr, hi : Addr]

ArenaRec(M) ==
  [fptr : Addr, fmark : Addr, bptr : Addr, bmark : Addr,
   dir : [0 .. DirBits - 1 -> {BS_FORWARD, BS_BACKWARD}], mem : M]

\* The variables have their types: every address the arena holds or hands
\* out lies in the buffer, and the direction register has its eight bits.
TypeOK ==
  /\ bs \in ArenaRec({bs.mem})
  /\ fmarks \in Seq(Addr) /\ bmarks \in Seq(Addr)
  /\ live \subseteq Block
  /\ dirs \in Seq({BS_FORWARD, BS_BACKWARD})
  /\ thrown \in Errors \cup {"none", "abort"}
  /\ ret \in Addr

\* The chains of marks that live inside the memory being handed out are
\* exactly the marks the client made and did not undo: no allocation, fill
\* or rewind on either stack, in any order, breaks a link, so that the
\* NULL that stops bistack_rewind and bistack_dropmark is only ever read
\* at the marks of bistack_init.
MarkChain ==
  /\ fmarks # <<>> /\ bs.fmark = Top(fmarks)
  /\ bmarks # <<>> /\ bs.bmark = Top(bmarks) - PTR
  /\ \A i \in 1 .. Len(fmarks) :
       Deref(bs, fmarks[i]) = IF i = 1 THEN NULL ELSE fmarks[i - 1]
  /\ \A i \in 1 .. Len(bmarks) :
       Deref(bs, bmarks[i] - PTR) =
         IF i = 1 THEN NULL ELSE bmarks[i - 1] - PTR

Apart(lo1, hi1, lo2, hi2) == hi1 <= lo2 \/ hi2 <= lo1

\* No two blocks the client owns share a byte, whichever stack they came
\* from, and none shares a byte with a mark, the header, or the gap that
\* bistack_zero erases and the next allocation is cut from.
LiveDisjoint ==
  /\ HDR <= bs.fptr /\ bs.fptr <= bs.bptr /\ bs.bptr <= Size
  /\ \A b \in live :
       /\ HDR <= b.lo /\ b.lo <= b.hi /\ b.hi <= Size
       /\ Apart(b.lo, b.hi, bs.fptr, bs.bptr)
       /\ \A c \in live : b # c => Apart(b.lo, b.hi, c.lo, c.hi)
       /\ \A i \in 1 .. Len(fmarks) :
            Apart(b.lo, b.hi, fmarks[i], fmarks[i] + PTR)
       /\ \A i \in 1 .. Len(bmarks) :
            Apart(b.lo, b.hi, bmarks[i] - PTR, bmarks[i])

\* The direction in force is the last one pushed and not yet popped,
\* however deep the pushes go: the eight bits of the register may lose
\* BS_FORWARDs at the bottom, which popping brings back, and never a
\* BS_BACKWARD.
DirectionFaithful ==
  /\ \A i \in 0 .. DirBits - 1 :
       bs.dir[i] = IF i < Len(dirs) THEN dirs[Len(dirs) - i] ELSE BS_FORWARD
  /\ \A i \in 1 .. Len(dirs) - DirBits : dirs[i] = BS_FORWARD

\* A rewind returns, and sets the stack back to, the very address that the
\* matching mark returned, whatever the client did on either stack in
\* between (the asserts "rewound marked-f failed" and "rewound marked-b
\* failed" of bistack.c's test_alloc); nothing else takes memory back, and
\* the other stack does not move.
RewindReturnsMark ==
  [][/\ bs'.fptr < bs.fptr =>
          /\ ret' = Top(fmarks) /\ bs'.fptr = Top(fmarks)
          /\ fmarks' = Pop(fmarks) /\ bs'.bptr = bs.bptr
     /\ bs'.bptr > bs.bptr =>
          /\ ret' = Top(bmarks) /\ bs'.bptr = Top(bmarks)
          /\ bmarks' = Pop(bmarks) /\ bs'.fptr = bs.fptr]_vars

-----------------------------------------------------------------------------
(* What the arena promises, stated without addresses: ScopedArena.         *)

Used(marks, top) ==
  [i \in 1 .. Len(marks) |->
     IF i < Len(marks) THEN marks[i + 1] - marks[i] ELSE top - marks[i]]

Neg(marks) == [i \in 1 .. Len(marks) |-> -marks[i]]

Arena == INSTANCE ScopedArena WITH
  MarkSize  <- PTR,
  Capacity  <- Size - HDR,
  Fscopes   <- Used(fmarks, bs.fptr),
  Bscopes   <- Used(Neg(bmarks), -bs.bptr),
  free      <- bistack_freemem(bs),
  outcome   <- thrown

\* The arena implements two stacks of scopes over one budget of bytes: each
\* allocation charges the innermost scope of its own side, undoing a mark
\* gives back exactly what that scope was charged, and a call runs out of
\* memory exactly when the budget left is smaller than the request.
ArenaSpec == Arena!Spec

=============================================================================
