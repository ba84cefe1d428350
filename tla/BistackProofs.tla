--------------------------- MODULE BistackProofs ---------------------------
(***************************************************************************)
(* Proofs about Bistack for every buffer size, header and pointer size,    *)
(* set of request sizes and bound on pushed directions.                    *)
(*                                                                         *)
(* None of the properties is inductive alone: a mark survives the client's *)
(* writes because of where the marks and blocks lie relative to each       *)
(* other, which the in-memory chain says nothing about.  IInv adds the     *)
(* geometry: the marks of a side lie in order, each below (above, for the  *)
(* backward side) the blocks of its own scope, and the blocks of a scope   *)
(* below the next mark and the stack top.                                  *)
(*                                                                         *)
(* The last part proves of Heap, from which the bistack was made, that it  *)
(* implements the same arena of scopes.                                    *)
(***************************************************************************)
EXTENDS Bistack, SequencesExt, SequenceTheorems, FiniteSetTheorems,
        WellFoundedInduction, TLAPS

(* The forward side: m[1] .. m[n] are its marks, top is its stack top, L   *)
(* are the blocks and r is the arena.                                      *)

\* The marks start at bistack_init's and each word ends before the next.
FMarksOK(m, n, top) ==
  /\ n \in Nat /\ n >= 1 /\ m[1] = HDR
  /\ \A i \in 1 .. n : m[i] \in Int /\ m[i] + PTR <= top
  /\ \A i, j \in 1 .. n : i < j => m[i] + PTR <= m[j]

\* Every block lies in its scope: past the scope's mark, before the next.
FBlocksOK(m, n, top, L) ==
  \A b \in L : b.side = BS_FORWARD =>
    /\ b.depth \in 1 .. n
    /\ m[b.depth] + PTR <= b.lo /\ b.lo <= b.hi /\ b.hi <= top
    /\ \A j \in 1 .. n : b.depth < j => b.hi <= m[j]

\* The in-memory chain is the sequence of marks.
FChainOK(m, n, r) ==
  /\ r.fmark = m[n]
  /\ \A i \in 1 .. n : Deref(r, m[i]) = IF i = 1 THEN NULL ELSE m[i - 1]

(* The backward side, its mirror image: a mark's word lies below the       *)
(* address the client was given.                                           *)

BMarksOK(m, n, top) ==
  /\ n \in Nat /\ n >= 1 /\ m[1] = Size
  /\ \A i \in 1 .. n : m[i] \in Int /\ top <= m[i] - PTR
  /\ \A i, j \in 1 .. n : i < j => m[j] <= m[i] - PTR

BBlocksOK(m, n, top, L) ==
  \A b \in L : b.side = BS_BACKWARD =>
    /\ b.depth \in 1 .. n
    /\ b.hi <= m[b.depth] - PTR /\ b.lo <= b.hi /\ top <= b.lo
    /\ \A j \in 1 .. n : b.depth < j => m[j] <= b.lo

BChainOK(m, n, r) ==
  /\ r.bmark = m[n] - PTR
  /\ \A i \in 1 .. n :
       Deref(r, m[i] - PTR) = IF i = 1 THEN NULL ELSE m[i - 1] - PTR

BlocksApart(L) == \A b, c \in L : b # c => Apart(b.lo, b.hi, c.lo, c.hi)

\* The inductive invariant.
IInv ==
  /\ TypeOK
  /\ bs.fptr <= bs.bptr
  /\ FMarksOK(fmarks, Len(fmarks), bs.fptr)
  /\ BMarksOK(bmarks, Len(bmarks), bs.bptr)
  /\ FBlocksOK(fmarks, Len(fmarks), bs.fptr, live)
  /\ BBlocksOK(bmarks, Len(bmarks), bs.bptr, live)
  /\ BlocksApart(live)
  /\ FChainOK(fmarks, Len(fmarks), bs)
  /\ BChainOK(bmarks, Len(bmarks), bs)

-----------------------------------------------------------------------------
(* Sequences of marks.                                                     *)

IsPop(m, n, m2, n2) ==
  n > 1 /\ n2 = n - 1 /\ \A i \in 1 .. n - 1 : m2[i] = m[i]

IsPush(m, n, m2, n2, e) ==
  n2 = n + 1 /\ m2[n + 1] = e /\ \A i \in 1 .. n : m2[i] = m[i]

\* Push is Append on the history of marks.
LEMMA AppendIsPush ==
  ASSUME NEW S, NEW m \in Seq(S), NEW e \in S
  PROVE  /\ Append(m, e) \in Seq(S)
         /\ IsPush(m, Len(m), Append(m, e), Len(Append(m, e)), e)
  BY DEF IsPush

\* Pop is Front on the history of marks.
LEMMA PopIsPop ==
  ASSUME NEW S, NEW m \in Seq(S), Len(m) > 1
  PROVE  /\ Pop(m) \in Seq(S)
         /\ IsPop(m, Len(m), Pop(m), Len(Pop(m)))
<1> DEFINE k == Len(m) - 1
<1>1. k \in Int /\ 1 <= k /\ \A i \in 1 .. k : m[i] \in S
  OBVIOUS
<1>2. /\ SubSeq(m, 1, k) \in Seq(S)
      /\ Len(SubSeq(m, 1, k)) = IF 1 <= k THEN k - 1 + 1 ELSE 0
      /\ \A i \in 1 .. k - 1 + 1 : SubSeq(m, 1, k)[i] = m[1 + i - 1]
  BY <1>1, SubSeqProperties
<1> QED
  BY <1>1, <1>2 DEF Pop, IsPop

\* Dropping the last forward mark leaves the others ascending below it.
LEMMA FMarksPop ==
  ASSUME NEW m, NEW n, NEW m2, NEW n2, NEW top \in Int,
         FMarksOK(m, n, top), IsPop(m, n, m2, n2)
  PROVE  FMarksOK(m2, n2, m[n])
<1>1. HDR \in Nat /\ PTR \in Nat
  BY SizesAssumption
<1>2. n2 \in Nat /\ n2 >= 1 /\ m2[1] = HDR
  BY DEF FMarksOK, IsPop
<1>3. \A i \in 1 .. n2 : m2[i] \in Int /\ m2[i] + PTR <= m[n]
  BY <1>1 DEF FMarksOK, IsPop
<1>4. \A i, j \in 1 .. n2 : i < j => m2[i] + PTR <= m2[j]
  BY <1>1 DEF FMarksOK, IsPop
<1> QED
  BY <1>2, <1>3, <1>4 DEF FMarksOK

\* A forward mark above the last one keeps the marks ascending.
LEMMA FMarksPush ==
  ASSUME NEW m, NEW n, NEW m2, NEW n2, NEW top \in Int,
         FMarksOK(m, n, top), IsPush(m, n, m2, n2, top)
  PROVE  FMarksOK(m2, n2, top + PTR)
<1>1. HDR \in Nat /\ PTR \in Nat
  BY SizesAssumption
<1>2. n2 \in Nat /\ n2 >= 1 /\ m2[1] = HDR
  BY DEF FMarksOK, IsPush
<1>3. \A i \in 1 .. n : m2[i] \in Int /\ m2[i] + PTR <= top
  BY DEF FMarksOK, IsPush
<1>4. n \in Nat /\ n2 = n + 1 /\ m2[n + 1] = top
  BY DEF FMarksOK, IsPush
<1>5. \A i \in 1 .. n2 : i \in 1 .. n \/ i = n + 1
  BY <1>4
<1>6. \A i \in 1 .. n2 : m2[i] \in Int /\ m2[i] + PTR <= top + PTR
  BY <1>1, <1>3, <1>4, <1>5
<1>7. \A i, j \in 1 .. n2 : i < j => m2[i] + PTR <= m2[j]
  BY <1>1 DEF FMarksOK, IsPush
<1> QED
  BY <1>2, <1>6, <1>7 DEF FMarksOK

\* Dropping the last backward mark leaves the others descending.
LEMMA BMarksPop ==
  ASSUME NEW m, NEW n, NEW m2, NEW n2, NEW top \in Int,
         BMarksOK(m, n, top), IsPop(m, n, m2, n2)
  PROVE  BMarksOK(m2, n2, m[n])
<1>1. Size \in Nat /\ PTR \in Nat
  BY SizesAssumption, ArenaAssumption
<1>2. n2 \in Nat /\ n2 >= 1 /\ m2[1] = Size
  BY DEF BMarksOK, IsPop
<1>3. \A i \in 1 .. n2 : m2[i] \in Int /\ m[n] <= m2[i] - PTR
  BY <1>1 DEF BMarksOK, IsPop
<1>4. \A i, j \in 1 .. n2 : i < j => m2[j] <= m2[i] - PTR
  BY <1>1 DEF BMarksOK, IsPop
<1> QED
  BY <1>2, <1>3, <1>4 DEF BMarksOK

\* A backward mark below the last one keeps the marks descending.
LEMMA BMarksPush ==
  ASSUME NEW m, NEW n, NEW m2, NEW n2, NEW top \in Int,
         BMarksOK(m, n, top), IsPush(m, n, m2, n2, top)
  PROVE  BMarksOK(m2, n2, top - PTR)
<1>1. Size \in Nat /\ PTR \in Nat
  BY SizesAssumption, ArenaAssumption
<1>2. n2 \in Nat /\ n2 >= 1 /\ m2[1] = Size
  BY DEF BMarksOK, IsPush
<1>3. \A i \in 1 .. n : m2[i] \in Int /\ top <= m2[i] - PTR
  BY DEF BMarksOK, IsPush
<1>4. n \in Nat /\ n2 = n + 1 /\ m2[n + 1] = top
  BY DEF BMarksOK, IsPush
<1>5. \A i \in 1 .. n2 : i \in 1 .. n \/ i = n + 1
  BY <1>4
<1>6. \A i \in 1 .. n2 : m2[i] \in Int /\ top - PTR <= m2[i] - PTR
  BY <1>1, <1>3, <1>4, <1>5
<1>7. \A i, j \in 1 .. n2 : i < j => m2[j] <= m2[i] - PTR
  BY <1>1 DEF BMarksOK, IsPush
<1> QED
  BY <1>2, <1>6, <1>7 DEF BMarksOK

-----------------------------------------------------------------------------
(* Blocks and scopes.                                                      *)

\* The forward blocks a rewind leaves lie in the regions of the marks left.
LEMMA FBlocksPop ==
  ASSUME NEW m, NEW n, NEW m2, NEW n2, NEW top \in Int,
         NEW L \in SUBSET Block, NEW L2 \in SUBSET L,
         FMarksOK(m, n, top), FBlocksOK(m, n, top, L), IsPop(m, n, m2, n2),
         \A b \in L2 : b.side = BS_FORWARD => b.depth # n
  PROVE  FBlocksOK(m2, n2, m[n], L2)
<1>1. HDR \in Nat /\ PTR \in Nat
  BY SizesAssumption
<1>2. SUFFICES ASSUME NEW b \in L2, b.side = BS_FORWARD
      PROVE  /\ b.depth \in 1 .. n2
             /\ m2[b.depth] + PTR <= b.lo /\ b.lo <= b.hi /\ b.hi <= m[n]
             /\ \A j \in 1 .. n2 : b.depth < j => b.hi <= m2[j]
  BY DEF FBlocksOK
<1>3. b.lo \in Int /\ b.hi \in Int /\ b.depth \in Nat /\ b.depth # n
  BY <1>2 DEF Block, Addr
<1>4. /\ b.depth \in 1 .. n
      /\ m[b.depth] + PTR <= b.lo /\ b.lo <= b.hi /\ b.hi <= top
      /\ \A j \in 1 .. n : b.depth < j => b.hi <= m[j]
  BY <1>2 DEF FBlocksOK
<1> QED
  BY <1>1, <1>3, <1>4 DEF FMarksOK, IsPop

\* A new forward mark opens a region: older blocks stay in theirs.
LEMMA FBlocksPush ==
  ASSUME NEW m, NEW n, NEW m2, NEW n2, NEW top \in Int,
         NEW L \in SUBSET Block,
         FMarksOK(m, n, top), FBlocksOK(m, n, top, L),
         IsPush(m, n, m2, n2, top)
  PROVE  FBlocksOK(m2, n2, top + PTR, L)
<1>1. HDR \in Nat /\ PTR \in Nat
  BY SizesAssumption
<1>2. SUFFICES ASSUME NEW b \in L, b.side = BS_FORWARD
      PROVE  /\ b.depth \in 1 .. n2
             /\ m2[b.depth] + PTR <= b.lo /\ b.lo <= b.hi /\ b.hi <= top + PTR
             /\ \A j \in 1 .. n2 : b.depth < j => b.hi <= m2[j]
  BY DEF FBlocksOK
<1>3. b.lo \in Int /\ b.hi \in Int /\ b.depth \in Nat
  BY <1>2 DEF Block, Addr
<1>4. /\ b.depth \in 1 .. n
      /\ m[b.depth] + PTR <= b.lo /\ b.lo <= b.hi /\ b.hi <= top
      /\ \A j \in 1 .. n : b.depth < j => b.hi <= m[j]
  BY <1>2 DEF FBlocksOK
<1>5. n \in Nat /\ n2 = n + 1 /\ m2[n + 1] = top /\ \A i \in 1 .. n : m2[i] = m[i]
  BY DEF FMarksOK, IsPush
<1>6. \A i \in 1 .. n2 : i \in 1 .. n \/ i = n + 1
  BY <1>5
<1>7. \A j \in 1 .. n2 : b.depth < j => b.hi <= m2[j]
  BY <1>4, <1>5, <1>6
<1> QED
  BY <1>1, <1>3, <1>4, <1>5, <1>7

\* A block allocated at the forward top joins the last forward region.
LEMMA FBlocksAlloc ==
  ASSUME NEW m, NEW n, NEW top \in Int, NEW size \in Nat, NEW new,
         NEW L \in SUBSET Block,
         FMarksOK(m, n, top), FBlocksOK(m, n, top, L),
         new = [side |-> BS_FORWARD, depth |-> n, lo |-> top, hi |-> top + size]
  PROVE  FBlocksOK(m, n, top + size, L \cup {new})
<1>1. SUFFICES ASSUME NEW b \in L \cup {new}, b.side = BS_FORWARD
      PROVE  /\ b.depth \in 1 .. n
             /\ m[b.depth] + PTR <= b.lo /\ b.lo <= b.hi /\ b.hi <= top + size
             /\ \A j \in 1 .. n : b.depth < j => b.hi <= m[j]
  BY DEF FBlocksOK
<1>2. CASE b \in L
  <2>1. b.lo \in Int /\ b.hi \in Int /\ b.depth \in Nat
    BY <1>2 DEF Block, Addr
  <2>2. /\ b.depth \in 1 .. n
        /\ m[b.depth] + PTR <= b.lo /\ b.lo <= b.hi /\ b.hi <= top
        /\ \A j \in 1 .. n : b.depth < j => b.hi <= m[j]
    BY <1>1, <1>2 DEF FBlocksOK
  <2> QED
    BY <2>1, <2>2
<1>3. CASE b = new
  <2>1. b.depth = n /\ b.lo = top /\ b.hi = top + size
    BY <1>3
  <2> QED
    BY <2>1 DEF FMarksOK
<1> QED
  BY <1>2, <1>3

\* Dropping a forward mark merges the two last forward regions.
LEMMA FBlocksDrop ==
  ASSUME NEW m, NEW n, NEW m2, NEW n2, NEW top \in Int,
         NEW L \in SUBSET Block, NEW L2,
         FMarksOK(m, n, top), FBlocksOK(m, n, top, L), IsPop(m, n, m2, n2),
         \A b \in L2 : b.side = BS_FORWARD =>
           \E c \in L : /\ c.side = BS_FORWARD /\ b.lo = c.lo /\ b.hi = c.hi
                       /\ b.depth = IF c.depth = n THEN n - 1 ELSE c.depth
  PROVE  FBlocksOK(m2, n2, top, L2)
<1>1. HDR \in Nat /\ PTR \in Nat
  BY SizesAssumption
<1>2. SUFFICES ASSUME NEW b \in L2, b.side = BS_FORWARD
      PROVE  /\ b.depth \in 1 .. n2
             /\ m2[b.depth] + PTR <= b.lo /\ b.lo <= b.hi /\ b.hi <= top
             /\ \A j \in 1 .. n2 : b.depth < j => b.hi <= m2[j]
  BY DEF FBlocksOK
<1>3. PICK c \in L : /\ c.side = BS_FORWARD /\ b.lo = c.lo /\ b.hi = c.hi
                     /\ b.depth = IF c.depth = n THEN n - 1 ELSE c.depth
  BY <1>2
<1>4. c.lo \in Int /\ c.hi \in Int /\ c.depth \in Nat
  BY DEF Block, Addr
<1>5. /\ c.depth \in 1 .. n
      /\ m[c.depth] + PTR <= c.lo /\ c.lo <= c.hi /\ c.hi <= top
      /\ \A j \in 1 .. n : c.depth < j => c.hi <= m[j]
  BY <1>3 DEF FBlocksOK
<1>6. b.depth \in 1 .. n2 /\ b.depth <= c.depth
  BY <1>3, <1>4, <1>5 DEF FMarksOK, IsPop
<1>7. m2[b.depth] = m[b.depth] /\ m[b.depth] \in Int /\ m[c.depth] \in Int
  BY <1>5, <1>6 DEF FMarksOK, IsPop
<1>8. m[b.depth] <= m[c.depth]
  BY <1>1, <1>3, <1>5, <1>6, <1>7 DEF FMarksOK, IsPop
<1>9. \A j \in 1 .. n2 : b.depth < j => b.hi <= m2[j]
  BY <1>3, <1>4, <1>5, <1>6 DEF FMarksOK, IsPop
<1> QED
  BY <1>1, <1>3, <1>4, <1>5, <1>6, <1>7, <1>8, <1>9

\* Forward blocks do not depend on the blocks of the other stack.
LEMMA FBlocksOthers ==
  ASSUME NEW m, NEW n, NEW top, NEW L, NEW L2, FBlocksOK(m, n, top, L),
         \A b \in L2 : b.side = BS_FORWARD => b \in L
  PROVE  FBlocksOK(m, n, top, L2)
  BY DEF FBlocksOK

\* The backward blocks a rewind leaves lie in the regions left.
LEMMA BBlocksPop ==
  ASSUME NEW m, NEW n, NEW m2, NEW n2, NEW top \in Int,
         NEW L \in SUBSET Block, NEW L2 \in SUBSET L,
         BMarksOK(m, n, top), BBlocksOK(m, n, top, L), IsPop(m, n, m2, n2),
         \A b \in L2 : b.side = BS_BACKWARD => b.depth # n
  PROVE  BBlocksOK(m2, n2, m[n], L2)
<1>1. Size \in Nat /\ PTR \in Nat
  BY SizesAssumption, ArenaAssumption
<1>2. SUFFICES ASSUME NEW b \in L2, b.side = BS_BACKWARD
      PROVE  /\ b.depth \in 1 .. n2
             /\ b.hi <= m2[b.depth] - PTR /\ b.lo <= b.hi /\ m[n] <= b.lo
             /\ \A j \in 1 .. n2 : b.depth < j => m2[j] <= b.lo
  BY DEF BBlocksOK
<1>3. b.lo \in Int /\ b.hi \in Int /\ b.depth \in Nat /\ b.depth # n
  BY <1>2 DEF Block, Addr
<1>4. /\ b.depth \in 1 .. n
      /\ b.hi <= m[b.depth] - PTR /\ b.lo <= b.hi /\ top <= b.lo
      /\ \A j \in 1 .. n : b.depth < j => m[j] <= b.lo
  BY <1>2 DEF BBlocksOK
<1> QED
  BY <1>1, <1>3, <1>4 DEF BMarksOK, IsPop

\* A new backward mark opens a region: older blocks stay in theirs.
LEMMA BBlocksPush ==
  ASSUME NEW m, NEW n, NEW m2, NEW n2, NEW top \in Int,
         NEW L \in SUBSET Block,
         BMarksOK(m, n, top), BBlocksOK(m, n, top, L),
         IsPush(m, n, m2, n2, top)
  PROVE  BBlocksOK(m2, n2, top - PTR, L)
<1>1. Size \in Nat /\ PTR \in Nat
  BY SizesAssumption, ArenaAssumption
<1>2. SUFFICES ASSUME NEW b \in L, b.side = BS_BACKWARD
      PROVE  /\ b.depth \in 1 .. n2
             /\ b.hi <= m2[b.depth] - PTR /\ b.lo <= b.hi /\ top - PTR <= b.lo
             /\ \A j \in 1 .. n2 : b.depth < j => m2[j] <= b.lo
  BY DEF BBlocksOK
<1>3. b.lo \in Int /\ b.hi \in Int /\ b.depth \in Nat
  BY <1>2 DEF Block, Addr
<1>4. /\ b.depth \in 1 .. n
      /\ b.hi <= m[b.depth] - PTR /\ b.lo <= b.hi /\ top <= b.lo
      /\ \A j \in 1 .. n : b.depth < j => m[j] <= b.lo
  BY <1>2 DEF BBlocksOK
<1>5. n \in Nat /\ n2 = n + 1 /\ m2[n + 1] = top /\ \A i \in 1 .. n : m2[i] = m[i]
  BY DEF BMarksOK, IsPush
<1>6. \A i \in 1 .. n2 : i \in 1 .. n \/ i = n + 1
  BY <1>5
<1>7. \A j \in 1 .. n2 : b.depth < j => m2[j] <= b.lo
  BY <1>4, <1>5, <1>6
<1> QED
  BY <1>1, <1>3, <1>4, <1>5, <1>7

\* A block allocated at the backward top joins the last backward region.
LEMMA BBlocksAlloc ==
  ASSUME NEW m, NEW n, NEW top \in Int, NEW size \in Nat, NEW new,
         NEW L \in SUBSET Block,
         BMarksOK(m, n, top), BBlocksOK(m, n, top, L),
         new = [side |-> BS_BACKWARD, depth |-> n, lo |-> top - size, hi |-> top]
  PROVE  BBlocksOK(m, n, top - size, L \cup {new})
<1>1. SUFFICES ASSUME NEW b \in L \cup {new}, b.side = BS_BACKWARD
      PROVE  /\ b.depth \in 1 .. n
             /\ b.hi <= m[b.depth] - PTR /\ b.lo <= b.hi /\ top - size <= b.lo
             /\ \A j \in 1 .. n : b.depth < j => m[j] <= b.lo
  BY DEF BBlocksOK
<1>2. CASE b \in L
  <2>1. b.lo \in Int /\ b.hi \in Int /\ b.depth \in Nat
    BY <1>2 DEF Block, Addr
  <2>2. /\ b.depth \in 1 .. n
        /\ b.hi <= m[b.depth] - PTR /\ b.lo <= b.hi /\ top <= b.lo
        /\ \A j \in 1 .. n : b.depth < j => m[j] <= b.lo
    BY <1>1, <1>2 DEF BBlocksOK
  <2> QED
    BY <2>1, <2>2
<1>3. CASE b = new
  <2>1. b.depth = n /\ b.lo = top - size /\ b.hi = top
    BY <1>3
  <2> QED
    BY <2>1 DEF BMarksOK
<1> QED
  BY <1>2, <1>3

\* Dropping a backward mark merges the two last backward regions.
LEMMA BBlocksDrop ==
  ASSUME NEW m, NEW n, NEW m2, NEW n2, NEW top \in Int,
         NEW L \in SUBSET Block, NEW L2,
         BMarksOK(m, n, top), BBlocksOK(m, n, top, L), IsPop(m, n, m2, n2),
         \A b \in L2 : b.side = BS_BACKWARD =>
           \E c \in L : /\ c.side = BS_BACKWARD /\ b.lo = c.lo /\ b.hi = c.hi
                       /\ b.depth = IF c.depth = n THEN n - 1 ELSE c.depth
  PROVE  BBlocksOK(m2, n2, top, L2)
<1>1. Size \in Nat /\ PTR \in Nat
  BY SizesAssumption, ArenaAssumption
<1>2. SUFFICES ASSUME NEW b \in L2, b.side = BS_BACKWARD
      PROVE  /\ b.depth \in 1 .. n2
             /\ b.hi <= m2[b.depth] - PTR /\ b.lo <= b.hi /\ top <= b.lo
             /\ \A j \in 1 .. n2 : b.depth < j => m2[j] <= b.lo
  BY DEF BBlocksOK
<1>3. PICK c \in L : /\ c.side = BS_BACKWARD /\ b.lo = c.lo /\ b.hi = c.hi
                     /\ b.depth = IF c.depth = n THEN n - 1 ELSE c.depth
  BY <1>2
<1>4. c.lo \in Int /\ c.hi \in Int /\ c.depth \in Nat
  BY DEF Block, Addr
<1>5. /\ c.depth \in 1 .. n
      /\ c.hi <= m[c.depth] - PTR /\ c.lo <= c.hi /\ top <= c.lo
      /\ \A j \in 1 .. n : c.depth < j => m[j] <= c.lo
  BY <1>3 DEF BBlocksOK
<1>6. b.depth \in 1 .. n2 /\ b.depth <= c.depth
  BY <1>3, <1>4, <1>5 DEF BMarksOK, IsPop
<1>7. m2[b.depth] = m[b.depth] /\ m[b.depth] \in Int /\ m[c.depth] \in Int
  BY <1>5, <1>6 DEF BMarksOK, IsPop
<1>8. m[c.depth] <= m[b.depth]
  BY <1>1, <1>3, <1>5, <1>6, <1>7 DEF BMarksOK, IsPop
<1>9. \A j \in 1 .. n2 : b.depth < j => m2[j] <= b.lo
  BY <1>3, <1>4, <1>5, <1>6 DEF BMarksOK, IsPop
<1> QED
  BY <1>1, <1>3, <1>4, <1>5, <1>6, <1>7, <1>8, <1>9

\* Backward blocks do not depend on the blocks of the other stack.
LEMMA BBlocksOthers ==
  ASSUME NEW m, NEW n, NEW top, NEW L, NEW L2, BBlocksOK(m, n, top, L),
         \A b \in L2 : b.side = BS_BACKWARD => b \in L
  PROVE  BBlocksOK(m, n, top, L2)
  BY DEF BBlocksOK

-----------------------------------------------------------------------------
(* Words of memory and the chains in them.                                 *)

\* The words that do not share a byte with lo .. hi-1 read the same in r2.
SameOutside(r, r2, lo, hi) ==
  \A a \in Int : a + PTR <= lo \/ hi <= a => Deref(r2, a) = Deref(r, a)

\* Storing a pointer is read back, and changes no pointer it does not overlap.
LEMMA StoreFrame ==
  ASSUME NEW r, NEW r2, NEW at \in Int, NEW val,
         r2.mem = StorePtr(r.mem, at, val)
  PROVE  Deref(r2, at) = val /\ SameOutside(r, r2, at, at + PTR)
<1>1. PTR \in Nat /\ PTR > 0
  BY SizesAssumption
<1>2. Deref(r2, at) = val
  BY DEF Deref, StorePtr
<1>3. SUFFICES ASSUME NEW a \in Int, a + PTR <= at \/ at + PTR <= a
      PROVE  Deref(r2, a) = Deref(r, a)
  BY <1>2 DEF SameOutside
<1>4. ~Overlaps(a, at, at + PTR) /\ a # at
  BY <1>1, <1>3 DEF Overlaps
<1> QED
  BY <1>4 DEF Deref, StorePtr

\* Erasing a range changes no pointer outside it.
LEMMA ScrubFrame ==
  ASSUME NEW r, NEW r2, NEW lo \in Int, NEW hi \in Int,
         r2.mem = Scrub(r.mem, lo, hi)
  PROVE  SameOutside(r, r2, lo, hi)
<1>1. PTR \in Nat
  BY SizesAssumption
<1> QED
  BY <1>1 DEF SameOutside, Deref, Scrub, Overlaps

\* A side's chain survives when its words do ...
LEMMA FChainKeep ==
  ASSUME NEW m, NEW n, NEW r, NEW r2, FChainOK(m, n, r), r2.fmark = r.fmark,
         \A i \in 1 .. n : Deref(r2, m[i]) = Deref(r, m[i])
  PROVE  FChainOK(m, n, r2)
  BY DEF FChainOK

\* The same for the backward chain.
LEMMA BChainKeep ==
  ASSUME NEW m, NEW n, NEW r, NEW r2, BChainOK(m, n, r), r2.bmark = r.bmark,
         \A i \in 1 .. n : Deref(r2, m[i] - PTR) = Deref(r, m[i] - PTR)
  PROVE  BChainOK(m, n, r2)
  BY DEF BChainOK

\* ... grows by a word that points to its last ...
LEMMA FChainPush ==
  ASSUME NEW m, NEW n \in Nat, NEW m2, NEW n2, NEW e, NEW r, NEW r2, n >= 1,
         FChainOK(m, n, r), IsPush(m, n, m2, n2, e),
         r2.fmark = e, Deref(r2, e) = r.fmark,
         \A i \in 1 .. n : Deref(r2, m[i]) = Deref(r, m[i])
  PROVE  FChainOK(m2, n2, r2)
<1>1. r2.fmark = m2[n2]
  BY DEF IsPush
<1>2. SUFFICES ASSUME NEW i \in 1 .. n2
      PROVE  Deref(r2, m2[i]) = IF i = 1 THEN NULL ELSE m2[i - 1]
  BY <1>1 DEF FChainOK
<1>3. CASE i \in 1 .. n
  BY <1>3 DEF FChainOK, IsPush
<1>4. CASE i = n + 1
  BY <1>4 DEF FChainOK, IsPush
<1> QED
  BY <1>3, <1>4 DEF IsPush

\* The same for the backward chain.
LEMMA BChainPush ==
  ASSUME NEW m, NEW n \in Nat, NEW m2, NEW n2, NEW e, NEW r, NEW r2, n >= 1,
         BChainOK(m, n, r), IsPush(m, n, m2, n2, e),
         r2.bmark = e - PTR, Deref(r2, e - PTR) = r.bmark,
         \A i \in 1 .. n : Deref(r2, m[i] - PTR) = Deref(r, m[i] - PTR)
  PROVE  BChainOK(m2, n2, r2)
<1>1. r2.bmark = m2[n2] - PTR
  BY DEF IsPush
<1>2. SUFFICES ASSUME NEW i \in 1 .. n2
      PROVE  Deref(r2, m2[i] - PTR) = IF i = 1 THEN NULL ELSE m2[i - 1] - PTR
  BY <1>1 DEF BChainOK
<1>3. CASE i \in 1 .. n
  BY <1>3 DEF BChainOK, IsPush
<1>4. CASE i = n + 1
  BY <1>4 DEF BChainOK, IsPush
<1> QED
  BY <1>3, <1>4 DEF IsPush

\* ... and shrinks to the word its last one points to.
LEMMA FChainPop ==
  ASSUME NEW m, NEW n \in Nat, NEW m2, NEW n2, NEW r, NEW r2,
         FChainOK(m, n, r), IsPop(m, n, m2, n2), r2.fmark = Deref(r, m[n]),
         \A i \in 1 .. n - 1 : Deref(r2, m[i]) = Deref(r, m[i])
  PROVE  FChainOK(m2, n2, r2)
<1>1. r2.fmark = m2[n2]
  BY DEF IsPop, FChainOK
<1>2. SUFFICES ASSUME NEW i \in 1 .. n2
      PROVE  Deref(r2, m2[i]) = IF i = 1 THEN NULL ELSE m2[i - 1]
  BY <1>1 DEF FChainOK
<1> QED
  BY DEF FChainOK, IsPop

\* The same for the backward chain.
LEMMA BChainPop ==
  ASSUME NEW m, NEW n \in Nat, NEW m2, NEW n2, NEW r, NEW r2,
         BChainOK(m, n, r), IsPop(m, n, m2, n2), r2.bmark = Deref(r, m[n] - PTR),
         \A i \in 1 .. n - 1 : Deref(r2, m[i] - PTR) = Deref(r, m[i] - PTR)
  PROVE  BChainOK(m2, n2, r2)
<1>1. r2.bmark = m2[n2] - PTR
  BY DEF IsPop, BChainOK
<1>2. SUFFICES ASSUME NEW i \in 1 .. n2
      PROVE  Deref(r2, m2[i] - PTR) = IF i = 1 THEN NULL ELSE m2[i - 1] - PTR
  BY <1>1 DEF BChainOK
<1> QED
  BY DEF BChainOK, IsPop

-----------------------------------------------------------------------------
(* What each operation does to the fields of the arena.                    *)

\* What bistack_allocf writes, field by field.
LEMMA AllocFFields ==
  ASSUME NEW M, NEW r \in ArenaRec(M), NEW size, NEW f,
         f = bistack_allocf(r, size)
  PROVE  /\ f.fptr = r.fptr + size /\ f.fmark = r.fmark
         /\ f.bptr = r.bptr /\ f.bmark = r.bmark /\ f.dir = r.dir
         /\ f.mem = r.mem
         /\ f.fptr \in Addr => f \in ArenaRec({f.mem})
  BY DEF ArenaRec, bistack_allocf

\* What bistack_allocb writes, field by field.
LEMMA AllocBFields ==
  ASSUME NEW M, NEW r \in ArenaRec(M), NEW size, NEW b,
         b = bistack_allocb(r, size)
  PROVE  /\ b.bptr = r.bptr - size /\ b.bmark = r.bmark
         /\ b.fptr = r.fptr /\ b.fmark = r.fmark /\ b.dir = r.dir
         /\ b.mem = r.mem
         /\ b.bptr \in Addr => b \in ArenaRec({b.mem})
  BY DEF ArenaRec, bistack_allocb

\* What bistack_markf writes, field by field.
LEMMA MarkFFields ==
  ASSUME NEW M, NEW r \in ArenaRec(M), NEW f, f = bistack_markf(r)
  PROVE  /\ f.fptr = r.fptr + PTR /\ f.fmark = r.fptr
         /\ f.bptr = r.bptr /\ f.bmark = r.bmark /\ f.dir = r.dir
         /\ f.mem = StorePtr(r.mem, r.fptr, r.fmark)
         /\ f.fptr \in Addr => f \in ArenaRec({f.mem})
  BY DEF ArenaRec, bistack_markf

\* What bistack_markb writes, field by field.
LEMMA MarkBFields ==
  ASSUME NEW M, NEW r \in ArenaRec(M), NEW b, b = bistack_markb(r)
  PROVE  /\ b.bptr = r.bptr - PTR /\ b.bmark = r.bptr - PTR
         /\ b.fptr = r.fptr /\ b.fmark = r.fmark /\ b.dir = r.dir
         /\ b.mem = StorePtr(r.mem, r.bptr - PTR, r.bmark)
         /\ b.bptr \in Addr => b \in ArenaRec({b.mem})
  BY DEF ArenaRec, bistack_markb

\* What bistack_rewindf writes, field by field.
LEMMA RewindFFields ==
  ASSUME NEW M, NEW r \in ArenaRec(M), NEW f, f = bistack_rewindf(r)
  PROVE  /\ f.fptr = r.fmark /\ f.fmark = Deref(r, r.fmark)
         /\ f.bptr = r.bptr /\ f.bmark = r.bmark /\ f.dir = r.dir
         /\ f.mem = Scrub(r.mem, r.fmark, r.fptr)
         /\ f.fmark \in Addr => f \in ArenaRec({f.mem})
  BY DEF ArenaRec, bistack_rewindf

\* What bistack_rewindb writes, field by field.
LEMMA RewindBFields ==
  ASSUME NEW M, NEW r \in ArenaRec(M), NEW b, b = bistack_rewindb(r)
  PROVE  /\ b.bptr = r.bmark + PTR /\ b.bmark = Deref(r, r.bmark)
         /\ b.fptr = r.fptr /\ b.fmark = r.fmark /\ b.dir = r.dir
         /\ b.mem = Scrub(r.mem, r.bptr, r.bmark + PTR)
         /\ b.bptr \in Addr /\ b.bmark \in Addr => b \in ArenaRec({b.mem})
  BY DEF ArenaRec, bistack_rewindb

\* What bistack_dropmarkf writes, field by field.
LEMMA DropFFields ==
  ASSUME NEW M, NEW r \in ArenaRec(M), NEW f, f = bistack_dropmarkf(r)
  PROVE  /\ f.fmark = Deref(r, r.fmark) /\ f.fptr = r.fptr
         /\ f.bptr = r.bptr /\ f.bmark = r.bmark /\ f.dir = r.dir
         /\ f.mem = r.mem
         /\ f.fmark \in Addr => f \in ArenaRec({f.mem})
  BY DEF ArenaRec, bistack_dropmarkf

\* What bistack_dropmarkb writes, field by field.
LEMMA DropBFields ==
  ASSUME NEW M, NEW r \in ArenaRec(M), NEW b, b = bistack_dropmarkb(r)
  PROVE  /\ b.bmark = Deref(r, r.bmark) /\ b.bptr = r.bptr
         /\ b.fptr = r.fptr /\ b.fmark = r.fmark /\ b.dir = r.dir
         /\ b.mem = r.mem
         /\ b.bmark \in Addr => b \in ArenaRec({b.mem})
  BY DEF ArenaRec, bistack_dropmarkb

-----------------------------------------------------------------------------
(* One lemma per operation: it preserves the invariant.                    *)

\* An address of the buffer is a number no larger than its size.
LEMMA InBuffer ==
  ASSUME NEW x \in Int, 0 <= x, x <= Size
  PROVE  x \in Addr
  BY ArenaAssumption DEF Addr

\* What the invariant says about the arena in plain arithmetic.
LEMMA Facts ==
  ASSUME IInv
  PROVE  /\ HDR \in Nat /\ PTR \in Nat /\ PTR > 0 /\ Size \in Nat
         /\ bs \in ArenaRec({bs.mem}) /\ live \in SUBSET Block
         /\ bs.fptr \in Int /\ bs.bptr \in Int
         /\ HDR + PTR <= bs.fptr /\ bs.fptr <= bs.bptr /\ bs.bptr <= Size - PTR
         /\ fmarks \in Seq(Addr) /\ Len(fmarks) \in Nat /\ Len(fmarks) >= 1
         /\ bmarks \in Seq(Addr) /\ Len(bmarks) \in Nat /\ Len(bmarks) >= 1
         /\ \A i \in 1 .. Len(fmarks) : fmarks[i] \in Int /\ fmarks[i] + PTR <= bs.fptr
         /\ \A i \in 1 .. Len(bmarks) : bmarks[i] \in Int /\ bs.bptr <= bmarks[i] - PTR
<1>1. HDR \in Nat /\ PTR \in Nat /\ PTR > 0 /\ Size \in Nat
  BY SizesAssumption, ArenaAssumption
<1>2. /\ bs \in ArenaRec({bs.mem}) /\ live \in SUBSET Block
      /\ fmarks \in Seq(Addr) /\ bmarks \in Seq(Addr)
  BY DEF IInv, TypeOK
<1>3. bs.fptr \in Int /\ bs.bptr \in Int
  BY <1>1, <1>2 DEF ArenaRec, Addr
<1>4. /\ Len(fmarks) \in Nat /\ Len(fmarks) >= 1 /\ fmarks[1] = HDR
      /\ \A i \in 1 .. Len(fmarks) : fmarks[i] \in Int /\ fmarks[i] + PTR <= bs.fptr
  BY DEF IInv, FMarksOK
<1>5. /\ Len(bmarks) \in Nat /\ Len(bmarks) >= 1 /\ bmarks[1] = Size
      /\ \A i \in 1 .. Len(bmarks) : bmarks[i] \in Int /\ bs.bptr <= bmarks[i] - PTR
  BY DEF IInv, BMarksOK
<1>6. HDR + PTR <= bs.fptr /\ bs.bptr <= Size - PTR
  BY <1>4, <1>5
<1>7. bs.fptr <= bs.bptr
  BY DEF IInv
<1> QED
  BY <1>1, <1>2, <1>3, <1>4, <1>5, <1>6, <1>7

\* A call that throws leaves the arena and the client as they were.
LEMMA ThrowStep ==
  ASSUME IInv, NEW err \in Errors \cup {"abort"}, Throw(err)
  PROVE  IInv'
<1>1. UNCHANGED <<bs, fmarks, bmarks, live, dirs>>
  BY DEF Throw, client
<1>2. thrown' \in Errors \cup {"none", "abort"} /\ ret' \in Addr
  BY SizesAssumption, ArenaAssumption DEF Throw, NULL, Addr
<1>3. TypeOK'
  BY <1>1, <1>2 DEF IInv, TypeOK
<1> QED
  BY <1>1, <1>3 DEF IInv

\* The type of a state after a call that returns.
LEMMA ReturnType ==
  ASSUME TypeOK, NEW r \in Addr, Return(r),
         bs' \in ArenaRec({bs'.mem}),
         fmarks' \in Seq(Addr), bmarks' \in Seq(Addr), live' \subseteq Block,
         dirs' \in Seq({BS_FORWARD, BS_BACKWARD})
  PROVE  TypeOK'
  BY DEF TypeOK, Return

\* bistack_allocf adds a block at the forward top, clear of every other.
LEMMA AllocFStep ==
  ASSUME IInv, NEW n \in Requests, AllocF(n)
  PROVE  IInv'
<1>1. CASE ~CanAlloc(bs, n) /\ Throw("BISTACK_OUT_OF_MEMORY")
  BY <1>1, ThrowStep DEF Errors
<1>2. CASE /\ CanAlloc(bs, n)
           /\ bs' = bistack_allocf(bs, n)
           /\ live' = live \cup {[side |-> BS_FORWARD, depth |-> Len(fmarks),
                                  lo |-> bs.fptr, hi |-> bs.fptr + n]}
           /\ Return(bs.fptr)
           /\ UNCHANGED <<fmarks, bmarks, dirs>>
  <2> DEFINE new == [side |-> BS_FORWARD, depth |-> Len(fmarks),
                     lo |-> bs.fptr, hi |-> bs.fptr + n]
  <2>1. n \in Nat
    BY ArenaAssumption
  <2>2. bs.fptr + n <= bs.bptr
    BY <1>2 DEF CanAlloc
  <2>3. bs.fptr \in Addr /\ bs.fptr + n \in Addr
    <3>1. /\ bs.fptr \in Int /\ bs.bptr \in Int /\ 0 <= bs.fptr
          /\ bs.fptr <= bs.bptr /\ bs.bptr <= Size /\ Size \in Nat
      BY Facts
    <3>2. /\ bs.fptr \in Int /\ bs.fptr + n \in Int /\ 0 <= bs.fptr
          /\ bs.fptr <= Size /\ 0 <= bs.fptr + n /\ bs.fptr + n <= Size
      BY <2>1, <2>2, <3>1
    <3> QED
      BY <3>2, InBuffer
  <2>4. /\ bs'.fptr = bs.fptr + n /\ bs'.fmark = bs.fmark
        /\ bs'.bptr = bs.bptr /\ bs'.bmark = bs.bmark
        /\ bs'.mem = bs.mem /\ bs' \in ArenaRec({bs'.mem})
    <3>1. bs \in ArenaRec({bs.mem})
      BY Facts
    <3> QED
      BY <1>2, <2>3, <3>1, AllocFFields
  <2>5. new \in Block
    BY <2>3, Facts DEF Block
  <2>6. TypeOK'
    BY <1>2, <2>3, <2>4, <2>5, ReturnType, Facts DEF IInv, TypeOK
  <2>7. FMarksOK(fmarks, Len(fmarks), bs.fptr + n)
    BY SMTT(40), <2>1, Facts DEF IInv, FMarksOK
  <2>8. FBlocksOK(fmarks, Len(fmarks), bs.fptr + n, live \cup {new})
    BY <2>1, FBlocksAlloc, Facts DEF IInv
  <2>9. BBlocksOK(bmarks, Len(bmarks), bs.bptr, live \cup {new})
    BY BBlocksOthers DEF IInv, BS_FORWARD, BS_BACKWARD
  <2>10. \A b \in live : Apart(b.lo, b.hi, bs.fptr, bs.fptr + n)
    <3>1. SUFFICES ASSUME NEW b \in live
          PROVE  b.hi <= bs.fptr \/ bs.fptr + n <= b.lo
      BY DEF Apart
    <3>2. b.lo \in Int /\ b.side \in {BS_FORWARD, BS_BACKWARD}
      BY SMTT(40), Facts DEF Block, Addr
    <3>3. CASE b.side = BS_FORWARD
      BY <3>3 DEF IInv, FBlocksOK
    <3>4. CASE b.side = BS_BACKWARD
      <4>1. bs.bptr <= b.lo
        BY <3>4 DEF IInv, BBlocksOK
      <4> QED
        BY SMTT(40), <2>1, <2>2, <3>2, <4>1, Facts
    <3> QED
      BY <3>2, <3>3, <3>4
  <2>11. BlocksApart(live \cup {new})
    BY <2>10 DEF IInv, BlocksApart, Apart
  <2>12. FChainOK(fmarks, Len(fmarks), bs') /\ BChainOK(bmarks, Len(bmarks), bs')
    BY <2>4 DEF IInv, FChainOK, BChainOK, Deref
  <2> QED
    BY <1>2, <2>2, <2>4, <2>6, <2>7, <2>8, <2>9, <2>11, <2>12 DEF IInv
<1> QED
  BY <1>1, <1>2 DEF AllocF

\* bistack_markf pushes a word that links to the mark before it.
LEMMA MarkFStep ==
  ASSUME IInv, MarkF
  PROVE  IInv'
<1>1. CASE ~CanAlloc(bs, PTR) /\ Throw("BISTACK_OUT_OF_MEMORY")
  BY <1>1, ThrowStep DEF Errors
<1>2. CASE /\ CanAlloc(bs, PTR)
           /\ bs' = bistack_markf(bs)
           /\ fmarks' = Append(fmarks, bs.fptr)
           /\ Return(bs.fptr)
           /\ UNCHANGED <<bmarks, live, dirs>>
  <2>1. bs.fptr + PTR <= bs.bptr
    BY <1>2 DEF CanAlloc
  <2>2. bs.fptr \in Addr /\ bs.fptr + PTR \in Addr
    <3>1. /\ bs.fptr \in Int /\ bs.bptr \in Int /\ PTR \in Nat /\ 0 <= bs.fptr
          /\ bs.fptr <= bs.bptr /\ bs.bptr <= Size /\ Size \in Nat
      BY Facts
    <3>2. /\ bs.fptr \in Int /\ bs.fptr + PTR \in Int /\ 0 <= bs.fptr
          /\ bs.fptr <= Size /\ 0 <= bs.fptr + PTR /\ bs.fptr + PTR <= Size
      BY <2>1, <3>1
    <3> QED
      BY <3>2, InBuffer
  <2>3. /\ bs'.fptr = bs.fptr + PTR /\ bs'.fmark = bs.fptr
        /\ bs'.bptr = bs.bptr /\ bs'.bmark = bs.bmark
        /\ bs'.mem = StorePtr(bs.mem, bs.fptr, bs.fmark)
        /\ bs' \in ArenaRec({bs'.mem})
    <3>1. bs \in ArenaRec({bs.mem})
      BY Facts
    <3> QED
      BY ZenonT(60), <1>2, <2>2, <3>1, MarkFFields
  <2>4. /\ fmarks' \in Seq(Addr)
        /\ IsPush(fmarks, Len(fmarks), fmarks', Len(fmarks'), bs.fptr)
    BY <1>2, <2>2, AppendIsPush, Facts
  <2>5. TypeOK'
    BY <1>2, <2>2, <2>3, <2>4, ReturnType, Facts DEF IInv, TypeOK
  <2>6. FMarksOK(fmarks', Len(fmarks'), bs.fptr + PTR)
    BY <2>4, FMarksPush, Facts DEF IInv
  <2>7. FBlocksOK(fmarks', Len(fmarks'), bs.fptr + PTR, live)
    BY <2>4, FBlocksPush, Facts DEF IInv
  <2>8. Deref(bs', bs.fptr) = bs.fmark /\ SameOutside(bs, bs', bs.fptr, bs.fptr + PTR)
    BY <2>3, StoreFrame, Facts
  <2>9. \A i \in 1 .. Len(fmarks) : Deref(bs', fmarks[i]) = Deref(bs, fmarks[i])
    BY <2>8, Facts DEF SameOutside
  <2>10. \A i \in 1 .. Len(bmarks) :
           Deref(bs', bmarks[i] - PTR) = Deref(bs, bmarks[i] - PTR)
    <3>1. SUFFICES ASSUME NEW i \in 1 .. Len(bmarks)
          PROVE  Deref(bs', bmarks[i] - PTR) = Deref(bs, bmarks[i] - PTR)
      OBVIOUS
    <3>2. bmarks[i] - PTR \in Int /\ bs.fptr + PTR <= bmarks[i] - PTR
      BY SMTT(40), <2>1, Facts
    <3> QED
      BY <2>8, <3>2 DEF SameOutside
  <2>11. FChainOK(fmarks', Len(fmarks'), bs')
    BY <2>3, <2>4, <2>8, <2>9, FChainPush, Facts DEF IInv
  <2>12. BChainOK(bmarks, Len(bmarks), bs')
    BY <2>3, <2>10, BChainKeep DEF IInv
  <2> QED
    BY <1>2, <2>1, <2>3, <2>5, <2>6, <2>7, <2>11, <2>12 DEF IInv
<1> QED
  BY <1>1, <1>2 DEF MarkF

\* A chain of more than one mark has a last one and one before it.
LEMMA NotOne ==
  ASSUME NEW n \in Nat, n >= 1, n # 1
  PROVE  n > 1 /\ n \in 1 .. n /\ n - 1 \in 1 .. n
  OBVIOUS

\* Only bistack_init's mark ends a chain: where rewind and dropmark do not
\* throw, a mark the client made is the last one, and it links to another.
LEMMA TopMarkF ==
  ASSUME IInv, HasMark(bs, bs.fmark)
  PROVE  /\ Len(fmarks) > 1 /\ bs.fmark = fmarks[Len(fmarks)]
         /\ Deref(bs, bs.fmark) = fmarks[Len(fmarks) - 1]
         /\ fmarks[Len(fmarks)] \in Addr /\ fmarks[Len(fmarks) - 1] \in Addr
<1> DEFINE n == Len(fmarks)
<1>1. FChainOK(fmarks, n, bs)
  BY DEF IInv
<1>2. n \in Nat /\ n >= 1
  BY Facts
<1>3. bs.fmark = fmarks[n]
  BY <1>1 DEF FChainOK
<1>4. Deref(bs, fmarks[n]) = IF n = 1 THEN NULL ELSE fmarks[n - 1]
  <2>1. n \in 1 .. n
    BY <1>2
  <2> QED
    BY <1>1, <2>1, Zenon DEF FChainOK
<1>5. n # 1
  BY <1>3, <1>4 DEF HasMark
<1>6. n > 1 /\ n \in 1 .. n /\ n - 1 \in 1 .. n
  BY <1>2, <1>5, NotOne
<1>7. fmarks \in Seq(Addr)
  BY Facts
<1>8. fmarks[n] \in Addr /\ fmarks[n - 1] \in Addr
  BY <1>6, <1>7, ElementOfSeq
<1> QED
  BY <1>3, <1>4, <1>5, <1>6, <1>8

\* The same for the backward chain.
LEMMA TopMarkB ==
  ASSUME IInv, HasMark(bs, bs.bmark)
  PROVE  /\ Len(bmarks) > 1 /\ bs.bmark = bmarks[Len(bmarks)] - PTR
         /\ Deref(bs, bs.bmark) = bmarks[Len(bmarks) - 1] - PTR
         /\ bmarks[Len(bmarks)] \in Addr /\ bmarks[Len(bmarks) - 1] \in Addr
<1> DEFINE n == Len(bmarks)
<1>1. BChainOK(bmarks, n, bs)
  BY DEF IInv
<1>2. n \in Nat /\ n >= 1
  BY Facts
<1>3. bs.bmark = bmarks[n] - PTR
  BY <1>1 DEF BChainOK
<1>4. Deref(bs, bmarks[n] - PTR) = IF n = 1 THEN NULL ELSE bmarks[n - 1] - PTR
  <2>1. n \in 1 .. n
    BY <1>2
  <2> QED
    BY <1>1, <2>1, Zenon DEF BChainOK
<1>5. n # 1
  BY <1>3, <1>4 DEF HasMark
<1>6. n > 1 /\ n \in 1 .. n /\ n - 1 \in 1 .. n
  BY <1>2, <1>5, NotOne
<1>7. bmarks \in Seq(Addr)
  BY Facts
<1>8. bmarks[n] \in Addr /\ bmarks[n - 1] \in Addr
  BY <1>6, <1>7, ElementOfSeq
<1> QED
  BY <1>3, <1>4, <1>5, <1>6, <1>8

\* bistack_rewindf gives back the blocks of the last forward region only.
LEMMA RewindFStep ==
  ASSUME IInv, RewindF
  PROVE  IInv'
<1>1. CASE ~HasMark(bs, bs.fmark) /\ Throw("BISTACK_REWIND_TOO_FAR")
  BY <1>1, ThrowStep DEF Errors
<1>2. CASE /\ HasMark(bs, bs.fmark)
           /\ bs' = bistack_rewindf(bs)
           /\ live' = live \ Scope(BS_FORWARD, Len(fmarks))
           /\ fmarks' = Pop(fmarks)
           /\ Return(bs'.fptr)
           /\ UNCHANGED <<bmarks, dirs>>
  <2> DEFINE n == Len(fmarks)
  <2>1. n > 1 /\ bs.fmark = fmarks[n] /\ Deref(bs, fmarks[n]) = fmarks[n - 1]
    BY <1>2, TopMarkF
  <2>2. fmarks[n] \in Addr /\ fmarks[n - 1] \in Addr
    BY <1>2, TopMarkF
  <2>3. /\ bs'.fptr = fmarks[n] /\ bs'.fmark = Deref(bs, fmarks[n])
        /\ bs'.bptr = bs.bptr /\ bs'.bmark = bs.bmark
        /\ bs'.mem = Scrub(bs.mem, fmarks[n], bs.fptr)
        /\ bs' \in ArenaRec({bs'.mem})
    <3>1. bs \in ArenaRec({bs.mem})
      BY Facts
    <3>2. bs' \in ArenaRec({bs'.mem}) \/ bs'.fmark \notin Addr
      BY <1>2, <3>1, RewindFFields
    <3>3. bs'.fmark = Deref(bs, bs.fmark)
      BY <1>2, <3>1, RewindFFields
    <3> QED
      BY <1>2, <2>1, <2>2, <3>1, <3>2, <3>3, RewindFFields
  <2>4. fmarks' \in Seq(Addr) /\ IsPop(fmarks, n, fmarks', Len(fmarks'))
    BY <1>2, <2>1, PopIsPop, Facts
  <2>5. /\ live' \in SUBSET live
        /\ \A b \in live' : b.side = BS_FORWARD => b.depth # n
    BY <1>2 DEF Scope
  <2>6. TypeOK'
    BY <1>2, <2>2, <2>3, <2>4, <2>5, ReturnType, Facts DEF IInv, TypeOK
  <2>7. FMarksOK(fmarks', Len(fmarks'), fmarks[n])
    BY <2>4, FMarksPop, Facts DEF IInv
  <2>8. FBlocksOK(fmarks', Len(fmarks'), fmarks[n], live')
    BY <2>4, <2>5, FBlocksPop, Facts DEF IInv
  <2>9. BBlocksOK(bmarks, Len(bmarks), bs.bptr, live')
    BY <2>5, BBlocksOthers DEF IInv
  <2>10. BlocksApart(live')
    BY <2>5 DEF IInv, BlocksApart
  <2>11. SameOutside(bs, bs', fmarks[n], bs.fptr)
    <3>1. fmarks[n] \in Int /\ bs.fptr \in Int
      BY <2>1, Facts
    <3> QED
      BY <2>3, <3>1, ScrubFrame
  <2>12. \A i \in 1 .. n - 1 : Deref(bs', fmarks[i]) = Deref(bs, fmarks[i])
    <3>1. SUFFICES ASSUME NEW i \in 1 .. n - 1
          PROVE  Deref(bs', fmarks[i]) = Deref(bs, fmarks[i])
      OBVIOUS
    <3>2. fmarks[i] \in Int /\ fmarks[i] + PTR <= fmarks[n]
      BY SMTT(40), Facts DEF IInv, FMarksOK
    <3> QED
      BY <2>11, <3>2 DEF SameOutside
  <2>13. \A i \in 1 .. Len(bmarks) :
           Deref(bs', bmarks[i] - PTR) = Deref(bs, bmarks[i] - PTR)
    <3>1. SUFFICES ASSUME NEW i \in 1 .. Len(bmarks)
          PROVE  Deref(bs', bmarks[i] - PTR) = Deref(bs, bmarks[i] - PTR)
      OBVIOUS
    <3>2. bmarks[i] - PTR \in Int /\ bs.fptr <= bmarks[i] - PTR
      BY Facts
    <3> QED
      BY <2>11, <3>2 DEF SameOutside
  <2>14. FChainOK(fmarks', Len(fmarks'), bs')
    BY <2>3, <2>4, <2>12, FChainPop, Facts DEF IInv
  <2>15. BChainOK(bmarks, Len(bmarks), bs')
    BY <2>3, <2>13, BChainKeep DEF IInv
  <2>16. fmarks[n] <= bs.bptr
    <3>1. fmarks[n] \in Int /\ fmarks[n] + PTR <= bs.fptr
      BY <2>1, Facts
    <3> QED
      BY <3>1, Facts
  <2> QED
    BY <1>2, <2>3, <2>6, <2>7, <2>8, <2>9, <2>10, <2>14, <2>15, <2>16 DEF IInv
<1> QED
  BY <1>1, <1>2 DEF RewindF

\* Merging a scope into the one before it moves no block.
\* What a block b of the client becomes after such a merge, or was before.
Merged(b, c, side, d) ==
  /\ b.side = c.side /\ b.lo = c.lo /\ b.hi = c.hi
  /\ c.side = side => b.depth = IF c.depth = d THEN d - 1 ELSE c.depth
  /\ c.side # side => b = c

\* A block after a dropmark is a block before it, perhaps one region lower.
LEMMA MergeBlocks ==
  ASSUME live \in SUBSET Block, NEW side, NEW d \in Nat, d > 1,
         NEW b \in Merge(side, d)
  PROVE  b \in Block /\ \E c \in live : Merged(b, c, side, d)
<1>1. CASE b \in live \ Scope(side, d)
  <2>1. b \in live /\ (b.side = side => b.depth # d)
    BY <1>1 DEF Scope
  <2>2. Merged(b, b, side, d)
    BY <2>1 DEF Merged
  <2> QED
    BY <2>1, <2>2
<1>2. CASE \E c \in Scope(side, d) : b = [c EXCEPT !.depth = d - 1]
  <2>1. PICK c \in Scope(side, d) : b = [c EXCEPT !.depth = d - 1]
    BY <1>2
  <2>2. c \in live /\ c \in Block /\ c.side = side /\ c.depth = d
    BY DEF Scope
  <2>3. d - 1 \in Nat
    OBVIOUS
  <2>4. /\ b \in Block
        /\ b.side = c.side /\ b.lo = c.lo /\ b.hi = c.hi /\ b.depth = d - 1
    BY <2>1, <2>2, <2>3 DEF Block
  <2>5. Merged(b, c, side, d)
    BY <2>2, <2>4 DEF Merged
  <2> QED
    BY <2>2, <2>4, <2>5
<1> QED
  BY <1>1, <1>2 DEF Merge

\* Dropping a mark moves no block, so the blocks stay apart.
LEMMA MergeApart ==
  ASSUME live \in SUBSET Block, BlocksApart(live),
         NEW side, NEW d \in Nat, d > 1
  PROVE  BlocksApart(Merge(side, d))
<1>1. SUFFICES ASSUME NEW x \in Merge(side, d), NEW y \in Merge(side, d), x # y
      PROVE  Apart(x.lo, x.hi, y.lo, y.hi)
  BY DEF BlocksApart
<1>2. PICK c \in live : Merged(x, c, side, d)
  BY MergeBlocks
<1>3. PICK e \in live : Merged(y, e, side, d)
  BY MergeBlocks
<1>4. x \in Block /\ y \in Block
  BY MergeBlocks
<1>5. c # e
  <2>1. SUFFICES ASSUME c = e PROVE x = y
    BY <1>1
  <2>2. x.side = y.side /\ x.lo = y.lo /\ x.hi = y.hi /\ x.depth = y.depth
    BY <1>2, <1>3, <2>1 DEF Merged
  <2> QED
    BY <1>4, <2>2 DEF Block
<1> QED
  BY <1>2, <1>3, <1>5 DEF BlocksApart, Merged

\* bistack_dropmarkf unlinks a mark and moves neither tops nor blocks.
LEMMA DropMarkFStep ==
  ASSUME IInv, DropMarkF
  PROVE  IInv'
<1>1. CASE ~HasMark(bs, bs.fmark) /\ Throw("BISTACK_DROPMARK_TOO_FAR")
  BY <1>1, ThrowStep DEF Errors
<1>2. CASE /\ HasMark(bs, bs.fmark)
           /\ bs' = bistack_dropmarkf(bs)
           /\ live' = Merge(BS_FORWARD, Len(fmarks))
           /\ fmarks' = Pop(fmarks)
           /\ Return(bs.fmark)
           /\ UNCHANGED <<bmarks, dirs>>
  <2> DEFINE n == Len(fmarks)
  <2>1. n > 1 /\ bs.fmark = fmarks[n] /\ Deref(bs, fmarks[n]) = fmarks[n - 1]
    BY <1>2, TopMarkF
  <2>2. fmarks[n] \in Addr /\ fmarks[n - 1] \in Addr
    BY <1>2, TopMarkF
  <2>3. /\ bs'.fptr = bs.fptr /\ bs'.fmark = Deref(bs, fmarks[n])
        /\ bs'.bptr = bs.bptr /\ bs'.bmark = bs.bmark
        /\ bs'.mem = bs.mem /\ bs' \in ArenaRec({bs'.mem})
    <3>1. bs \in ArenaRec({bs.mem})
      BY Facts
    <3>2. bs' \in ArenaRec({bs'.mem}) \/ bs'.fmark \notin Addr
      BY <1>2, <3>1, DropFFields
    <3>3. bs'.fmark = Deref(bs, bs.fmark)
      BY <1>2, <3>1, DropFFields
    <3> QED
      BY <1>2, <2>1, <2>2, <3>1, <3>2, <3>3, DropFFields
  <2>4. fmarks' \in Seq(Addr) /\ IsPop(fmarks, n, fmarks', Len(fmarks'))
    BY <1>2, <2>1, PopIsPop, Facts
  <2>5. live' \subseteq Block /\ BlocksApart(live')
    BY <1>2, <2>1, MergeBlocks, MergeApart, Facts DEF IInv
  <2>6. TypeOK'
    BY <1>2, <2>1, <2>2, <2>3, <2>4, <2>5, ReturnType, Facts DEF IInv, TypeOK
  <2>7. FMarksOK(fmarks', Len(fmarks'), bs.fptr)
    <3>1. FMarksOK(fmarks', Len(fmarks'), fmarks[n])
      BY <2>4, FMarksPop, Facts DEF IInv
    <3>2. fmarks[n] \in Int /\ fmarks[n] <= bs.fptr
      BY <2>1, Facts
    <3> QED
      BY SMTT(40), <3>1, <3>2, Facts DEF FMarksOK
  <2>8. FBlocksOK(fmarks', Len(fmarks'), bs.fptr, live')
    <3>1. \A b \in live' : b.side = BS_FORWARD =>
            \E c \in live : /\ c.side = BS_FORWARD /\ b.lo = c.lo /\ b.hi = c.hi
                           /\ b.depth = IF c.depth = n THEN n - 1 ELSE c.depth
      <4>1. SUFFICES ASSUME NEW b \in live', b.side = BS_FORWARD
            PROVE  \E c \in live :
                     /\ c.side = BS_FORWARD /\ b.lo = c.lo /\ b.hi = c.hi
                     /\ b.depth = IF c.depth = n THEN n - 1 ELSE c.depth
        OBVIOUS
      <4>2. PICK c \in live : Merged(b, c, BS_FORWARD, n)
        BY <1>2, <2>1, MergeBlocks, Facts
      <4> QED
        BY <4>1, <4>2 DEF Merged
    <3> QED
      BY ZenonT(60), <2>4, <3>1, FBlocksDrop, Facts DEF IInv
  <2>9. BBlocksOK(bmarks, Len(bmarks), bs.bptr, live')
    <3>1. \A b \in live' : b.side = BS_BACKWARD => b \in live
      <4>1. SUFFICES ASSUME NEW b \in live', b.side = BS_BACKWARD
            PROVE  b \in live
        OBVIOUS
      <4>2. PICK c \in live : Merged(b, c, BS_FORWARD, n)
        BY <1>2, <2>1, MergeBlocks, Facts
      <4> QED
        BY <4>1, <4>2 DEF Merged, BS_FORWARD, BS_BACKWARD
    <3> QED
      BY <3>1, BBlocksOthers DEF IInv
  <2>10. /\ \A a \in Int : Deref(bs', a) = Deref(bs, a)
         /\ \A i \in 1 .. n - 1 : Deref(bs', fmarks[i]) = Deref(bs, fmarks[i])
    BY <2>3 DEF Deref
  <2>11. FChainOK(fmarks', Len(fmarks'), bs')
    BY <2>3, <2>4, <2>10, FChainPop, Facts DEF IInv
  <2>12. BChainOK(bmarks, Len(bmarks), bs')
    BY <2>3 DEF IInv, BChainOK, Deref
  <2> QED
    BY <1>2, <2>3, <2>5, <2>6, <2>7, <2>8, <2>9, <2>11, <2>12 DEF IInv
<1> QED
  BY <1>1, <1>2 DEF DropMarkF

\* bistack_allocb adds a block at the backward top, clear of every other.
LEMMA AllocBStep ==
  ASSUME IInv, NEW n \in Requests, AllocB(n)
  PROVE  IInv'
<1>1. CASE ~CanAlloc(bs, n) /\ Throw("BISTACK_OUT_OF_MEMORY")
  BY <1>1, ThrowStep DEF Errors
<1>2. CASE /\ CanAlloc(bs, n)
           /\ bs' = bistack_allocb(bs, n)
           /\ live' = live \cup {[side |-> BS_BACKWARD, depth |-> Len(bmarks),
                                  lo |-> bs.bptr - n, hi |-> bs.bptr]}
           /\ Return(bs.bptr - n)
           /\ UNCHANGED <<fmarks, bmarks, dirs>>
  <2> DEFINE new == [side |-> BS_BACKWARD, depth |-> Len(bmarks),
                     lo |-> bs.bptr - n, hi |-> bs.bptr]
  <2>1. n \in Nat
    BY ArenaAssumption
  <2>2. bs.fptr + n <= bs.bptr
    BY <1>2 DEF CanAlloc
  <2>3. bs.bptr \in Addr /\ bs.bptr - n \in Addr
    <3>1. /\ bs.bptr \in Int /\ bs.bptr - n \in Int /\ 0 <= bs.bptr - n
          /\ 0 <= bs.bptr /\ bs.bptr <= Size /\ bs.bptr - n <= Size
      <4>1. /\ bs.bptr \in Int /\ bs.fptr \in Int /\ 0 <= bs.fptr
            /\ bs.fptr <= bs.bptr /\ bs.bptr <= Size /\ Size \in Nat
        BY Facts
      <4> QED
        BY <2>1, <2>2, <4>1
    <3> QED
      BY <3>1, InBuffer
  <2>4. /\ bs'.bptr = bs.bptr - n /\ bs'.bmark = bs.bmark
        /\ bs'.fptr = bs.fptr /\ bs'.fmark = bs.fmark
        /\ bs'.mem = bs.mem /\ bs' \in ArenaRec({bs'.mem})
    <3>1. bs \in ArenaRec({bs.mem})
      BY Facts
    <3>2. /\ bs'.bptr = bs.bptr - n /\ bs'.bmark = bs.bmark
          /\ bs'.fptr = bs.fptr /\ bs'.fmark = bs.fmark
          /\ bs'.mem = bs.mem
      <4>1. bs' = bistack_allocb(bs, n)
        BY <1>2
      <4> HIDE DEF new
      <4> QED
        BY ONLY <3>1, <4>1, SMTT(20) DEF bistack_allocb, ArenaRec
    <3>3. bs'.bptr \in Addr
      BY <2>3, <3>2
    <3>4. bs' \in ArenaRec({bs'.mem})
      BY <1>2, <3>1, <3>3, AllocBFields
    <3> QED
      BY <3>2, <3>4
  <2>5. new \in Block
    BY <2>3, Facts DEF Block
  <2>6. TypeOK'
    BY <1>2, <2>3, <2>4, <2>5, ReturnType, Facts DEF IInv, TypeOK
  <2>7. BMarksOK(bmarks, Len(bmarks), bs.bptr - n)
    BY SMTT(40), <2>1, Facts DEF IInv, BMarksOK
  <2>8. BBlocksOK(bmarks, Len(bmarks), bs.bptr - n, live \cup {new})
    BY <2>1, BBlocksAlloc, Facts DEF IInv
  <2>9. FBlocksOK(fmarks, Len(fmarks), bs.fptr, live \cup {new})
    BY FBlocksOthers DEF IInv, BS_FORWARD, BS_BACKWARD
  <2>10. \A b \in live : Apart(b.lo, b.hi, bs.bptr - n, bs.bptr)
    <3>1. SUFFICES ASSUME NEW b \in live
          PROVE  b.hi <= bs.bptr - n \/ bs.bptr <= b.lo
      BY DEF Apart
    <3>2. b.hi \in Int /\ b.side \in {BS_FORWARD, BS_BACKWARD}
      BY SMTT(40), Facts DEF Block, Addr
    <3>3. CASE b.side = BS_BACKWARD
      BY <3>3 DEF IInv, BBlocksOK
    <3>4. CASE b.side = BS_FORWARD
      <4>1. b.hi <= bs.fptr
        BY <3>4 DEF IInv, FBlocksOK
      <4> QED
        BY SMTT(40), <2>1, <2>2, <3>2, <4>1, Facts
    <3> QED
      BY <3>2, <3>3, <3>4
  <2>11. BlocksApart(live \cup {new})
    BY <2>10 DEF IInv, BlocksApart, Apart
  <2>12. FChainOK(fmarks, Len(fmarks), bs') /\ BChainOK(bmarks, Len(bmarks), bs')
    BY <2>4 DEF IInv, FChainOK, BChainOK, Deref
  <2>13. bs.fptr <= bs.bptr - n
    BY <2>1, <2>2, Facts
  <2> QED
    BY <1>2, <2>4, <2>6, <2>7, <2>8, <2>9, <2>11, <2>12, <2>13 DEF IInv
<1> QED
  BY <1>1, <1>2 DEF AllocB

\* bistack_markb pushes a word that links to the mark before it.
LEMMA MarkBStep ==
  ASSUME IInv, MarkB
  PROVE  IInv'
<1>1. CASE ~CanAlloc(bs, PTR) /\ Throw("BISTACK_OUT_OF_MEMORY")
  BY <1>1, ThrowStep DEF Errors
<1>2. CASE /\ CanAlloc(bs, PTR)
           /\ bs' = bistack_markb(bs)
           /\ bmarks' = Append(bmarks, bs.bptr)
           /\ Return(bs.bptr)
           /\ UNCHANGED <<fmarks, live, dirs>>
  <2>1. bs.fptr <= bs.bptr - PTR
    BY <1>2, Facts DEF CanAlloc
  <2>2. bs.bptr \in Addr /\ bs.bptr - PTR \in Addr
    <3>1. /\ bs.fptr \in Int /\ bs.bptr \in Int /\ PTR \in Nat /\ 0 <= bs.fptr
          /\ bs.fptr <= bs.bptr /\ bs.bptr <= Size /\ Size \in Nat
      BY Facts
    <3>2. /\ bs.bptr \in Int /\ bs.bptr - PTR \in Int /\ 0 <= bs.bptr
          /\ bs.bptr <= Size /\ 0 <= bs.bptr - PTR /\ bs.bptr - PTR <= Size
      BY <2>1, <3>1
    <3> QED
      BY <3>2, InBuffer
  <2>3. /\ bs'.bptr = bs.bptr - PTR /\ bs'.bmark = bs.bptr - PTR
        /\ bs'.fptr = bs.fptr /\ bs'.fmark = bs.fmark
        /\ bs'.mem = StorePtr(bs.mem, bs.bptr - PTR, bs.bmark)
        /\ bs' \in ArenaRec({bs'.mem})
    <3>1. bs \in ArenaRec({bs.mem})
      BY Facts
    <3> QED
      BY ZenonT(60), <1>2, <2>2, <3>1, MarkBFields
  <2>4. /\ bmarks' \in Seq(Addr)
        /\ IsPush(bmarks, Len(bmarks), bmarks', Len(bmarks'), bs.bptr)
    BY <1>2, <2>2, AppendIsPush, Facts
  <2>5. TypeOK'
    BY <1>2, <2>2, <2>3, <2>4, ReturnType, Facts DEF IInv, TypeOK
  <2>6. BMarksOK(bmarks', Len(bmarks'), bs.bptr - PTR)
    BY <2>4, BMarksPush, Facts DEF IInv
  <2>7. BBlocksOK(bmarks', Len(bmarks'), bs.bptr - PTR, live)
    BY <2>4, BBlocksPush, Facts DEF IInv
  <2>8. /\ Deref(bs', bs.bptr - PTR) = bs.bmark
        /\ SameOutside(bs, bs', bs.bptr - PTR, bs.bptr)
    <3>1. bs.bptr - PTR \in Int /\ (bs.bptr - PTR) + PTR = bs.bptr
      BY Facts
    <3> QED
      BY <2>3, <3>1, StoreFrame
  <2>9. \A i \in 1 .. Len(fmarks) : Deref(bs', fmarks[i]) = Deref(bs, fmarks[i])
    <3>1. SUFFICES ASSUME NEW i \in 1 .. Len(fmarks)
          PROVE  Deref(bs', fmarks[i]) = Deref(bs, fmarks[i])
      OBVIOUS
    <3>2. fmarks[i] \in Int /\ fmarks[i] + PTR <= bs.bptr - PTR
      BY SMTT(40), <2>1, Facts
    <3> QED
      BY <2>8, <3>2 DEF SameOutside
  <2>10. \A i \in 1 .. Len(bmarks) :
           Deref(bs', bmarks[i] - PTR) = Deref(bs, bmarks[i] - PTR)
    <3>1. SUFFICES ASSUME NEW i \in 1 .. Len(bmarks)
          PROVE  Deref(bs', bmarks[i] - PTR) = Deref(bs, bmarks[i] - PTR)
      OBVIOUS
    <3>2. bmarks[i] - PTR \in Int /\ bs.bptr <= bmarks[i] - PTR
      BY Facts
    <3> QED
      BY <2>8, <3>2 DEF SameOutside
  <2>11. BChainOK(bmarks', Len(bmarks'), bs')
    BY <2>3, <2>4, <2>8, <2>10, BChainPush, Facts DEF IInv
  <2>12. FChainOK(fmarks, Len(fmarks), bs')
    BY <2>3, <2>9, FChainKeep DEF IInv
  <2> QED
    BY <1>2, <2>1, <2>3, <2>5, <2>6, <2>7, <2>11, <2>12 DEF IInv
<1> QED
  BY <1>1, <1>2 DEF MarkB

\* bistack_rewindb gives back the blocks of the last backward region only.
LEMMA RewindBStep ==
  ASSUME IInv, RewindB
  PROVE  IInv'
<1>1. CASE ~HasMark(bs, bs.bmark) /\ Throw("BISTACK_REWIND_TOO_FAR")
  BY <1>1, ThrowStep DEF Errors
<1>2. CASE /\ HasMark(bs, bs.bmark)
           /\ bs' = bistack_rewindb(bs)
           /\ live' = live \ Scope(BS_BACKWARD, Len(bmarks))
           /\ bmarks' = Pop(bmarks)
           /\ Return(bs'.bptr)
           /\ UNCHANGED <<fmarks, dirs>>
  <2> DEFINE n == Len(bmarks)
  <2>1. /\ n > 1 /\ bs.bmark = bmarks[n] - PTR
        /\ Deref(bs, bs.bmark) = bmarks[n - 1] - PTR
    BY <1>2, TopMarkB
  <2>2. /\ bmarks[n] \in Addr /\ bmarks[n] \in Int /\ bmarks[n - 1] - PTR \in Addr
        /\ (bmarks[n] - PTR) + PTR = bmarks[n]
    <3>1. bmarks[n] \in Addr /\ bmarks[n - 1] \in Addr
      BY <1>2, TopMarkB
    <3>2. n \in 1 .. n /\ n - 1 \in 1 .. n
      BY <2>1, Facts
    <3>3. bmarks[n - 1] \in Int /\ bs.bptr <= bmarks[n - 1] - PTR
      BY <3>2, Facts
    <3>4. bmarks[n] \in Int /\ (bmarks[n] - PTR) + PTR = bmarks[n]
      BY <3>2, Facts
    <3>5. bmarks[n - 1] <= Size
      BY <3>1, <3>3, ArenaAssumption DEF Addr
    <3>6. /\ bmarks[n - 1] - PTR \in Int
          /\ 0 <= bmarks[n - 1] - PTR /\ bmarks[n - 1] - PTR <= Size
      BY SMTT(40), <3>3, <3>5, Facts
    <3> QED
      BY <3>1, <3>4, <3>6, InBuffer
  <2>3. /\ bs'.bptr = bmarks[n] /\ bs'.bmark = Deref(bs, bmarks[n] - PTR)
        /\ bs'.fptr = bs.fptr /\ bs'.fmark = bs.fmark
        /\ bs'.mem = Scrub(bs.mem, bs.bptr, bmarks[n])
        /\ bs' \in ArenaRec({bs'.mem})
    <3>1. bs \in ArenaRec({bs.mem})
      BY Facts
    <3>2. /\ bs'.bptr = bs.bmark + PTR /\ bs'.bmark = Deref(bs, bs.bmark)
          /\ bs'.fptr = bs.fptr /\ bs'.fmark = bs.fmark
          /\ bs'.mem = Scrub(bs.mem, bs.bptr, bs.bmark + PTR)
      BY ZenonT(60), <1>2, <3>1, RewindBFields
    <3>3. bs'.bptr \in Addr /\ bs'.bmark \in Addr
      BY <2>1, <2>2, <3>2
    <3>4. bs' \in ArenaRec({bs'.mem})
      BY <1>2, <3>1, <3>3, RewindBFields
    <3> QED
      BY <2>1, <2>2, <3>2, <3>4
  <2>4. bmarks' \in Seq(Addr) /\ IsPop(bmarks, n, bmarks', Len(bmarks'))
    BY <1>2, <2>1, PopIsPop, Facts
  <2>5. /\ live' \in SUBSET live
        /\ \A b \in live' : b.side = BS_BACKWARD => b.depth # n
    BY <1>2 DEF Scope
  <2>6. TypeOK'
    BY <1>2, <2>2, <2>3, <2>4, <2>5, ReturnType, Facts DEF IInv, TypeOK
  <2>7. BMarksOK(bmarks', Len(bmarks'), bmarks[n])
    BY <2>4, BMarksPop, Facts DEF IInv
  <2>8. BBlocksOK(bmarks', Len(bmarks'), bmarks[n], live')
    BY <2>4, <2>5, BBlocksPop, Facts DEF IInv
  <2>9. FBlocksOK(fmarks, Len(fmarks), bs.fptr, live')
    BY <2>5, FBlocksOthers DEF IInv
  <2>10. BlocksApart(live')
    BY <2>5 DEF IInv, BlocksApart
  <2>11. SameOutside(bs, bs', bs.bptr, bmarks[n])
    <3>1. bmarks[n] \in Int /\ bs.bptr \in Int
      BY <2>2, Facts
    <3> QED
      BY <2>3, <3>1, ScrubFrame
  <2>12. \A i \in 1 .. n - 1 : Deref(bs', bmarks[i] - PTR) = Deref(bs, bmarks[i] - PTR)
    <3>1. SUFFICES ASSUME NEW i \in 1 .. n - 1
          PROVE  Deref(bs', bmarks[i] - PTR) = Deref(bs, bmarks[i] - PTR)
      OBVIOUS
    <3>2. bmarks[i] \in Int /\ bmarks[n] <= bmarks[i] - PTR
      <4>1. BMarksOK(bmarks, n, bs.bptr) /\ n \in Nat
        BY Facts DEF IInv
      <4>2. i \in 1 .. n /\ n \in 1 .. n /\ i < n
        BY <2>1, <3>1, <4>1
      <4> QED
        BY <4>1, <4>2 DEF BMarksOK
    <3>3. bmarks[i] - PTR \in Int
      BY <3>2, Facts
    <3> QED
      BY <2>11, <3>2, <3>3 DEF SameOutside
  <2>13. \A i \in 1 .. Len(fmarks) : Deref(bs', fmarks[i]) = Deref(bs, fmarks[i])
    <3>1. SUFFICES ASSUME NEW i \in 1 .. Len(fmarks)
          PROVE  Deref(bs', fmarks[i]) = Deref(bs, fmarks[i])
      OBVIOUS
    <3>2. fmarks[i] \in Int /\ fmarks[i] + PTR <= bs.bptr
      BY Facts
    <3> QED
      BY <2>11, <3>2 DEF SameOutside
  <2>14. BChainOK(bmarks', Len(bmarks'), bs')
    BY <2>3, <2>4, <2>12, BChainPop, Facts DEF IInv
  <2>15. FChainOK(fmarks, Len(fmarks), bs')
    BY <2>3, <2>13, FChainKeep DEF IInv
  <2>16. bs.fptr <= bmarks[n]
    <3>1. bmarks[n] \in Int /\ bs.bptr <= bmarks[n] - PTR
      BY <2>1, Facts
    <3> QED
      BY <3>1, Facts
  <2> QED
    BY <1>2, <2>3, <2>6, <2>7, <2>8, <2>9, <2>10, <2>14, <2>15, <2>16 DEF IInv
<1> QED
  BY <1>1, <1>2 DEF RewindB

\* bistack_dropmarkb unlinks a mark and moves neither tops nor blocks.
LEMMA DropMarkBStep ==
  ASSUME IInv, DropMarkB
  PROVE  IInv'
<1>1. CASE ~HasMark(bs, bs.bmark) /\ Throw("BISTACK_DROPMARK_TOO_FAR")
  BY <1>1, ThrowStep DEF Errors
<1>2. CASE /\ HasMark(bs, bs.bmark)
           /\ bs' = bistack_dropmarkb(bs)
           /\ live' = Merge(BS_BACKWARD, Len(bmarks))
           /\ bmarks' = Pop(bmarks)
           /\ Return(bs.bmark)
           /\ UNCHANGED <<fmarks, dirs>>
  <2> DEFINE n == Len(bmarks)
  <2>1. /\ n > 1 /\ bs.bmark = bmarks[n] - PTR
        /\ Deref(bs, bs.bmark) = bmarks[n - 1] - PTR
    BY <1>2, TopMarkB
  <2>2. bs.bmark \in Addr /\ bmarks[n - 1] - PTR \in Addr
    <3>1. bmarks[n] \in Addr /\ bmarks[n - 1] \in Addr
      BY <1>2, TopMarkB
    <3>2. n \in 1 .. n /\ n - 1 \in 1 .. n
      BY <2>1, Facts
    <3>3. /\ bmarks[n - 1] \in Int /\ bs.bptr <= bmarks[n - 1] - PTR
          /\ bmarks[n] \in Int /\ bs.bptr <= bmarks[n] - PTR
      BY <3>2, Facts
    <3>4. bmarks[n - 1] <= Size /\ bmarks[n] <= Size
      BY <3>1, <3>3, ArenaAssumption DEF Addr
    <3>5. /\ bmarks[n - 1] - PTR \in Int /\ 0 <= bmarks[n - 1] - PTR
          /\ bmarks[n - 1] - PTR <= Size /\ bmarks[n] - PTR \in Int
          /\ 0 <= bmarks[n] - PTR /\ bmarks[n] - PTR <= Size
      <4>1. 0 <= bs.bptr /\ PTR \in Nat /\ Size \in Nat /\ bs.bptr \in Int
        BY Facts
      <4> QED
        BY <3>3, <3>4, <4>1
    <3> QED
      BY <2>1, <3>5, InBuffer
  <2>3. /\ bs'.bptr = bs.bptr /\ bs'.bmark = Deref(bs, bmarks[n] - PTR)
        /\ bs'.fptr = bs.fptr /\ bs'.fmark = bs.fmark
        /\ bs'.mem = bs.mem /\ bs' \in ArenaRec({bs'.mem})
    <3>1. bs \in ArenaRec({bs.mem})
      BY Facts
    <3>2. /\ bs'.bptr = bs.bptr /\ bs'.bmark = Deref(bs, bs.bmark)
          /\ bs'.fptr = bs.fptr /\ bs'.fmark = bs.fmark
          /\ bs'.mem = bs.mem
      BY ZenonT(60), <1>2, <3>1, DropBFields
    <3>3. bs'.bmark \in Addr
      BY <2>1, <2>2, <3>2
    <3>4. bs' \in ArenaRec({bs'.mem})
      BY <1>2, <3>1, <3>3, DropBFields
    <3> QED
      BY <2>1, <3>2, <3>4
  <2>4. bmarks' \in Seq(Addr) /\ IsPop(bmarks, n, bmarks', Len(bmarks'))
    BY <1>2, <2>1, PopIsPop, Facts
  <2>5. live' \subseteq Block /\ BlocksApart(live')
    BY <1>2, <2>1, MergeBlocks, MergeApart, Facts DEF IInv
  <2>6. TypeOK'
    BY <1>2, <2>1, <2>2, <2>3, <2>4, <2>5, ReturnType, Facts DEF IInv, TypeOK
  <2>7. BMarksOK(bmarks', Len(bmarks'), bs.bptr)
    <3>1. BMarksOK(bmarks', Len(bmarks'), bmarks[n])
      BY <2>4, BMarksPop, Facts DEF IInv
    <3>2. bmarks[n] \in Int /\ bs.bptr <= bmarks[n]
      BY <2>1, Facts
    <3> QED
      BY SMTT(40), <3>1, <3>2, Facts DEF BMarksOK
  <2>8. BBlocksOK(bmarks', Len(bmarks'), bs.bptr, live')
    <3>1. \A b \in live' : b.side = BS_BACKWARD =>
            \E c \in live : /\ c.side = BS_BACKWARD /\ b.lo = c.lo /\ b.hi = c.hi
                           /\ b.depth = IF c.depth = n THEN n - 1 ELSE c.depth
      <4>1. SUFFICES ASSUME NEW b \in live', b.side = BS_BACKWARD
            PROVE  \E c \in live :
                     /\ c.side = BS_BACKWARD /\ b.lo = c.lo /\ b.hi = c.hi
                     /\ b.depth = IF c.depth = n THEN n - 1 ELSE c.depth
        OBVIOUS
      <4>2. PICK c \in live : Merged(b, c, BS_BACKWARD, n)
        BY <1>2, <2>1, MergeBlocks, Facts
      <4> QED
        BY <4>1, <4>2 DEF Merged
    <3> QED
      BY ZenonT(60), <2>4, <3>1, BBlocksDrop, Facts DEF IInv
  <2>9. FBlocksOK(fmarks, Len(fmarks), bs.fptr, live')
    <3>1. \A b \in live' : b.side = BS_FORWARD => b \in live
      <4>1. SUFFICES ASSUME NEW b \in live', b.side = BS_FORWARD
            PROVE  b \in live
        OBVIOUS
      <4>2. PICK c \in live : Merged(b, c, BS_BACKWARD, n)
        BY <1>2, <2>1, MergeBlocks, Facts
      <4> QED
        BY <4>1, <4>2 DEF Merged, BS_FORWARD, BS_BACKWARD
    <3> QED
      BY <3>1, FBlocksOthers DEF IInv
  <2>10. /\ \A a \in Int : Deref(bs', a) = Deref(bs, a)
         /\ \A i \in 1 .. n - 1 : Deref(bs', bmarks[i] - PTR) = Deref(bs, bmarks[i] - PTR)
    BY <2>3 DEF Deref
  <2>11. BChainOK(bmarks', Len(bmarks'), bs')
    BY <2>3, <2>4, <2>10, BChainPop, Facts DEF IInv
  <2>12. FChainOK(fmarks, Len(fmarks), bs')
    BY <2>3 DEF IInv, FChainOK, Deref
  <2> QED
    BY <1>2, <2>3, <2>5, <2>6, <2>7, <2>8, <2>9, <2>11, <2>12 DEF IInv
<1> QED
  BY <1>1, <1>2 DEF DropMarkB

-----------------------------------------------------------------------------
(* The calls that move neither stack.                                      *)

\* A block lies clear of every mark's word, on both sides.
LEMMA BlockOffMarks ==
  ASSUME IInv, NEW b \in live
  PROVE  /\ HDR + PTR <= b.lo /\ b.lo <= b.hi /\ b.hi <= Size - PTR
         /\ b.lo \in Int /\ b.hi \in Int
         /\ b.hi <= bs.fptr \/ bs.bptr <= b.lo
         /\ \A i \in 1 .. Len(fmarks) : fmarks[i] + PTR <= b.lo \/ b.hi <= fmarks[i]
         /\ \A i \in 1 .. Len(bmarks) : bmarks[i] <= b.lo \/ b.hi <= bmarks[i] - PTR
<1>1. /\ HDR \in Int /\ PTR \in Int /\ Size \in Int
      /\ bs.fptr \in Int /\ bs.bptr \in Int
      /\ HDR + PTR <= bs.fptr /\ bs.fptr <= bs.bptr /\ bs.bptr <= Size - PTR
  BY Facts
<1>2. b.lo \in Int /\ b.hi \in Int /\ b.side \in {BS_FORWARD, BS_BACKWARD}
  BY SMTT(40), Facts DEF Block, Addr
<1>3. \A i \in 1 .. Len(fmarks) : fmarks[i] \in Int /\ fmarks[i] + PTR <= bs.fptr
  BY Facts
<1>4. \A i \in 1 .. Len(bmarks) : bmarks[i] \in Int /\ bs.bptr <= bmarks[i] - PTR
  BY Facts
<1>5. CASE b.side = BS_FORWARD
  <2> DEFINE n == Len(fmarks)
  <2>1. /\ b.depth \in 1 .. n
        /\ fmarks[b.depth] + PTR <= b.lo /\ b.lo <= b.hi /\ b.hi <= bs.fptr
        /\ \A j \in 1 .. n : b.depth < j => b.hi <= fmarks[j]
    BY <1>5 DEF IInv, FBlocksOK
  <2>2. FMarksOK(fmarks, n, bs.fptr) /\ n \in Nat /\ PTR \in Nat
    BY Facts DEF IInv
  <2>3. \A i \in 1 .. n : fmarks[i] + PTR <= b.lo \/ b.hi <= fmarks[i]
    <3>1. SUFFICES ASSUME NEW i \in 1 .. n
          PROVE  fmarks[i] + PTR <= b.lo \/ b.hi <= fmarks[i]
      OBVIOUS
    <3>2. CASE b.depth < i
      BY <2>1, <3>2
    <3>3. CASE i = b.depth
      BY <2>1, <3>3
    <3>4. CASE i < b.depth
      <4>1. fmarks[i] + PTR <= fmarks[b.depth] /\ fmarks[i] \in Int
            /\ fmarks[b.depth] \in Int
        BY <2>1, <2>2, <3>4 DEF FMarksOK
      <4> QED
        BY <1>2, <2>1, <2>2, <4>1
    <3> QED
      BY <2>1, <2>2, <3>2, <3>3, <3>4
  <2>4. \A i \in 1 .. Len(bmarks) : b.hi <= bmarks[i] - PTR
    BY SMTT(40), <1>1, <1>2, <1>4, <2>1
  <2>5. HDR <= fmarks[b.depth] /\ fmarks[b.depth] \in Int
    BY <2>1, <2>2, SizesAssumption DEF FMarksOK
  <2>6. HDR + PTR <= b.lo /\ b.hi <= Size - PTR
    BY SMTT(40), <1>1, <1>2, <2>1, <2>5
  <2> QED
    BY <1>2, <2>1, <2>3, <2>4, <2>6
<1>6. CASE b.side = BS_BACKWARD
  <2> DEFINE n == Len(bmarks)
  <2>1. /\ b.depth \in 1 .. n
        /\ b.hi <= bmarks[b.depth] - PTR /\ b.lo <= b.hi /\ bs.bptr <= b.lo
        /\ \A j \in 1 .. n : b.depth < j => bmarks[j] <= b.lo
    BY <1>6 DEF IInv, BBlocksOK
  <2>2. BMarksOK(bmarks, n, bs.bptr) /\ n \in Nat /\ PTR \in Nat
    BY Facts DEF IInv
  <2>3. \A i \in 1 .. n : bmarks[i] <= b.lo \/ b.hi <= bmarks[i] - PTR
    <3>1. SUFFICES ASSUME NEW i \in 1 .. n
          PROVE  bmarks[i] <= b.lo \/ b.hi <= bmarks[i] - PTR
      OBVIOUS
    <3>2. CASE b.depth < i
      BY <2>1, <3>2
    <3>3. CASE i = b.depth
      BY <2>1, <3>3
    <3>4. CASE i < b.depth
      <4>1. bmarks[b.depth] <= bmarks[i] - PTR /\ bmarks[i] \in Int
            /\ bmarks[b.depth] \in Int
        BY <2>1, <2>2, <3>4 DEF BMarksOK
      <4> QED
        BY <1>2, <2>1, <2>2, <4>1
    <3> QED
      BY <2>1, <2>2, <3>2, <3>3, <3>4
  <2>4. \A i \in 1 .. Len(fmarks) : fmarks[i] + PTR <= b.lo
    BY SMTT(40), <1>1, <1>2, <1>3, <2>1
  <2>5. bmarks[b.depth] <= Size /\ bmarks[b.depth] \in Int
    BY <2>1, <2>2, ArenaAssumption DEF BMarksOK
  <2>6. HDR + PTR <= b.lo /\ b.hi <= Size - PTR
    BY SMTT(40), <1>1, <1>2, <2>1, <2>5
  <2> QED
    BY <1>2, <2>1, <2>3, <2>4, <2>6
<1> QED
  BY <1>2, <1>5, <1>6

\* Only the contents of memory between the marks, or the direction, change.
LEMMA SameGeometry ==
  ASSUME IInv, TypeOK', UNCHANGED <<fmarks, bmarks, live>>,
         bs'.fptr = bs.fptr, bs'.fmark = bs.fmark,
         bs'.bptr = bs.bptr, bs'.bmark = bs.bmark,
         \A i \in 1 .. Len(fmarks) : Deref(bs', fmarks[i]) = Deref(bs, fmarks[i]),
         \A i \in 1 .. Len(bmarks) :
           Deref(bs', bmarks[i] - PTR) = Deref(bs, bmarks[i] - PTR)
  PROVE  IInv'
<1>1. FChainOK(fmarks, Len(fmarks), bs') /\ BChainOK(bmarks, Len(bmarks), bs')
  BY FChainKeep, BChainKeep DEF IInv
<1> QED
  BY <1>1 DEF IInv

\* Erasing bytes that no mark's word shares keeps the invariant.
LEMMA ScrubStep ==
  ASSUME IInv, NEW lo \in Int, NEW hi \in Int, Return(NULL), UNCHANGED client,
         bs' = [bs EXCEPT !.mem = Scrub(bs.mem, lo, hi)],
         \A i \in 1 .. Len(fmarks) : fmarks[i] + PTR <= lo \/ hi <= fmarks[i],
         \A i \in 1 .. Len(bmarks) : bmarks[i] <= lo \/ hi <= bmarks[i] - PTR
  PROVE  IInv'
<1>1. bs \in ArenaRec({bs.mem})
  BY Facts
<1>2. /\ bs'.fptr = bs.fptr /\ bs'.fmark = bs.fmark
      /\ bs'.bptr = bs.bptr /\ bs'.bmark = bs.bmark
      /\ bs'.mem = Scrub(bs.mem, lo, hi) /\ bs' \in ArenaRec({bs'.mem})
  BY <1>1 DEF ArenaRec
<1>3. SameOutside(bs, bs', lo, hi)
  BY <1>2, ScrubFrame
<1>4. \A i \in 1 .. Len(fmarks) : Deref(bs', fmarks[i]) = Deref(bs, fmarks[i])
  BY <1>3, Facts DEF SameOutside
<1>5. \A i \in 1 .. Len(bmarks) :
        Deref(bs', bmarks[i] - PTR) = Deref(bs, bmarks[i] - PTR)
  <2>1. SUFFICES ASSUME NEW i \in 1 .. Len(bmarks)
        PROVE  Deref(bs', bmarks[i] - PTR) = Deref(bs, bmarks[i] - PTR)
    OBVIOUS
  <2>2. bmarks[i] - PTR \in Int /\ (bmarks[i] - PTR) + PTR = bmarks[i]
    BY Facts
  <2>3. (bmarks[i] - PTR) + PTR <= lo \/ hi <= bmarks[i] - PTR
    BY <2>2
  <2> QED
    BY <1>3, <2>2, <2>3 DEF SameOutside
<1>6. UNCHANGED <<fmarks, bmarks, live, dirs>>
  BY DEF client
<1>7. NULL \in Addr
  BY ArenaAssumption, InBuffer DEF NULL
<1>8. TypeOK'
  BY <1>2, <1>6, <1>7, ReturnType DEF IInv, TypeOK
<1> QED
  BY <1>2, <1>4, <1>5, <1>6, <1>8, SameGeometry

\* bistack_zero erases free bytes only.
LEMMA ZeroStep ==
  ASSUME IInv, Zero
  PROVE  IInv'
<1>1. /\ Return(NULL) /\ UNCHANGED client
      /\ bs' = [bs EXCEPT !.mem = Scrub(bs.mem, bs.fptr, bs.bptr)]
  BY DEF Zero, bistack_zero
<1>2. /\ bs.fptr \in Int /\ bs.bptr \in Int
      /\ \A i \in 1 .. Len(fmarks) : fmarks[i] + PTR <= bs.fptr
      /\ \A i \in 1 .. Len(bmarks) : bs.bptr <= bmarks[i] - PTR
  BY Facts
<1> QED
  BY <1>1, <1>2, ScrubStep

\* A client writing its own block touches no mark's word.
LEMMA FillStep ==
  ASSUME IInv, NEW b \in live, Fill(b)
  PROVE  IInv'
  BY BlockOffMarks, ScrubStep DEF Fill

-----------------------------------------------------------------------------
(* The direction register.                                                 *)

\* The first elements of a sequence, one by one.
LEMMA Prefix ==
  ASSUME NEW S, NEW s, NEW k \in Nat, \A i \in 1 .. k : s[i] \in S
  PROVE  /\ SubSeq(s, 1, k) \in Seq(S) /\ Len(SubSeq(s, 1, k)) = k
         /\ \A i \in 1 .. k : SubSeq(s, 1, k)[i] = s[i]
<1>1. /\ SubSeq(s, 1, k) \in Seq(S)
      /\ Len(SubSeq(s, 1, k)) = IF 1 <= k THEN k - 1 + 1 ELSE 0
      /\ \A i \in 1 .. k - 1 + 1 : SubSeq(s, 1, k)[i] = s[1 + i - 1]
  BY SubSeqProperties
<1>2. (IF 1 <= k THEN k - 1 + 1 ELSE 0) = k /\ k - 1 + 1 = k
  OBVIOUS
<1>3. \A i \in 1 .. k : 1 + i - 1 = i
  OBVIOUS
<1> QED
  BY <1>1, <1>2, <1>3

\* Popping the client's stack of directions, element by element.
LEMMA PopDirs ==
  ASSUME NEW S, NEW s \in Seq(S), Len(s) >= 1
  PROVE  /\ Pop(s) \in Seq(S) /\ Len(Pop(s)) = Len(s) - 1
         /\ \A i \in 1 .. Len(s) - 1 : Pop(s)[i] = s[i]
<1>1. PICK k \in Nat : k = Len(s) - 1
  OBVIOUS
<1>2. \A i \in 1 .. k : s[i] \in S
  BY <1>1
<1>3. Pop(s) = SubSeq(s, 1, k)
  BY <1>1 DEF Pop
<1>4. /\ Pop(s) \in Seq(S) /\ Len(Pop(s)) = k
      /\ \A i \in 1 .. k : Pop(s)[i] = s[i]
  BY <1>2, <1>3, Prefix
<1> QED
  BY <1>1, <1>4

\* bistack_pushdir and bistack_popdir write the register only.
LEMMA DirFields ==
  ASSUME NEW M, NEW r \in ArenaRec(M), NEW f, NEW d \in {BS_FORWARD, BS_BACKWARD},
         f = bistack_pushdir(r, d) \/ f = bistack_popdir(r)
  PROVE  /\ f.fptr = r.fptr /\ f.fmark = r.fmark /\ f.bptr = r.bptr
         /\ f.bmark = r.bmark /\ f.mem = r.mem /\ f \in ArenaRec({f.mem})
<1>1. r.dir \in [0 .. DirBits - 1 -> {0, 1}] /\ d \in {0, 1}
  BY DEF ArenaRec, BS_FORWARD, BS_BACKWARD
<1>2. /\ [i \in 0 .. DirBits - 1 |-> IF i = 0 THEN d ELSE r.dir[i - 1]]
        \in [0 .. DirBits - 1 -> {0, 1}]
      /\ [i \in 0 .. DirBits - 1 |-> IF i = DirBits - 1 THEN 0 ELSE r.dir[i + 1]]
        \in [0 .. DirBits - 1 -> {0, 1}]
  BY <1>1, SizesAssumption
<1>3. CASE f = bistack_pushdir(r, d)
  BY <1>2, <1>3 DEF ArenaRec, bistack_pushdir, BS_FORWARD, BS_BACKWARD
<1>4. CASE f = bistack_popdir(r)
  BY <1>2, <1>4 DEF ArenaRec, bistack_popdir, BS_FORWARD, BS_BACKWARD
<1> QED
  BY <1>3, <1>4

\* bistack_pushdir keeps the invariant.
LEMMA PushDirStep ==
  ASSUME IInv, NEW d \in {BS_FORWARD, BS_BACKWARD}, PushDir(d)
  PROVE  IInv'
<1>1. CASE ~CanPushDir(bs) /\ Throw("abort")
  BY <1>1, ThrowStep
<1>2. CASE /\ bs' = bistack_pushdir(bs, d)
           /\ dirs' = Append(dirs, d)
           /\ Return(NULL)
           /\ UNCHANGED <<fmarks, bmarks, live>>
  <2>1. bs \in ArenaRec({bs.mem})
    BY Facts
  <2>2. /\ bs'.fptr = bs.fptr /\ bs'.fmark = bs.fmark /\ bs'.bptr = bs.bptr
        /\ bs'.bmark = bs.bmark /\ bs'.mem = bs.mem /\ bs' \in ArenaRec({bs'.mem})
    BY <1>2, <2>1, DirFields
  <2>3. dirs' \in Seq({BS_FORWARD, BS_BACKWARD})
    BY <1>2, AppendIsPush DEF IInv, TypeOK
  <2>4. NULL \in Addr
    BY ArenaAssumption, InBuffer DEF NULL
  <2>5. TypeOK'
    BY <1>2, <2>2, <2>3, <2>4, ReturnType DEF IInv, TypeOK
  <2>6. \A a : Deref(bs', a) = Deref(bs, a)
    BY <2>2 DEF Deref
  <2> QED
    BY <1>2, <2>2, <2>5, <2>6, SameGeometry
<1> QED
  BY <1>1, <1>2 DEF PushDir

\* bistack_popdir keeps the invariant.
LEMMA PopDirStep ==
  ASSUME IInv, PopDir
  PROVE  IInv'
<1>1. bs \in ArenaRec({bs.mem})
  BY Facts
<1>2. /\ bs'.fptr = bs.fptr /\ bs'.fmark = bs.fmark /\ bs'.bptr = bs.bptr
      /\ bs'.bmark = bs.bmark /\ bs'.mem = bs.mem /\ bs' \in ArenaRec({bs'.mem})
  BY <1>1, DirFields DEF PopDir, BS_FORWARD, BS_BACKWARD
<1>3. dirs' \in Seq({BS_FORWARD, BS_BACKWARD})
  <2>1. dirs \in Seq({BS_FORWARD, BS_BACKWARD})
    BY DEF IInv, TypeOK
  <2>2. CASE dirs = <<>>
    BY <2>1, <2>2 DEF PopDir
  <2>3. CASE dirs # <<>>
    <3>1. Len(dirs) >= 1
      BY <2>1, <2>3, EmptySeq
    <3> QED
      BY <2>1, <2>3, <3>1, PopDirs DEF PopDir
  <2> QED
    BY <2>2, <2>3
<1>4. NULL \in Addr
  BY ArenaAssumption, InBuffer DEF NULL
<1>5. TypeOK'
  BY <1>2, <1>3, <1>4, ReturnType DEF IInv, TypeOK, PopDir
<1>6. \A a : Deref(bs', a) = Deref(bs, a)
  BY <1>2 DEF Deref
<1> QED
  BY <1>2, <1>5, <1>6, SameGeometry DEF PopDir

-----------------------------------------------------------------------------
(* The invariant holds initially and every step preserves it.              *)

\* Every operation keeps the invariant.
LEMMA NextStep ==
  ASSUME IInv, [Next]_vars
  PROVE  IInv'
<1>1. CASE UNCHANGED vars
  <2>1. UNCHANGED <<bs, fmarks, bmarks, live, dirs, thrown, ret>>
    BY <1>1 DEF vars
  <2>2. TypeOK'
    BY <2>1 DEF IInv, TypeOK
  <2> QED
    BY <2>1, <2>2 DEF IInv
<1>2. ASSUME NEW n \in Requests, AllocF(n) \/ AllocB(n) \/ Alloc(n)
      PROVE  IInv'
  BY <1>2, AllocFStep, AllocBStep DEF Alloc
<1>3. CASE MarkF \/ MarkB \/ Mark
  BY <1>3, MarkFStep, MarkBStep DEF Mark
<1>4. CASE RewindF \/ RewindB \/ Rewind
  BY <1>4, RewindFStep, RewindBStep DEF Rewind
<1>5. CASE DropMarkF \/ DropMarkB \/ DropMark
  BY <1>5, DropMarkFStep, DropMarkBStep DEF DropMark
<1>6. CASE \E d \in {BS_FORWARD, BS_BACKWARD} : PushDir(d)
  BY <1>6, PushDirStep
<1>7. CASE PopDir
  BY <1>7, PopDirStep
<1>8. CASE Zero
  BY <1>8, ZeroStep
<1>9. CASE \E b \in live : Fill(b)
  BY <1>9, FillStep
<1> QED
  BY <1>1, <1>2, <1>3, <1>4, <1>5, <1>6, <1>7, <1>8, <1>9 DEF Next

\* bistack_init establishes the invariant: two marks that end the chains.
LEMMA InitStep ==
  ASSUME Init
  PROVE  IInv
<1> DEFINE mem0 == [a \in {} |-> NULL]
           dir0 == [i \in 0 .. DirBits - 1 |-> BS_FORWARD]
           r0 == [fptr |-> HDR, fmark |-> NULL, bptr |-> Size, bmark |-> NULL,
                  dir |-> dir0, mem |-> mem0]
           r1 == bistack_markf(r0)
<1>1. /\ HDR \in Nat /\ PTR \in Nat /\ PTR > 0 /\ HDR > 0 /\ Size \in Nat
      /\ HDR + 2 * PTR <= Size
  BY SizesAssumption, ArenaAssumption
<1>2. /\ HDR \in Addr /\ Size \in Addr /\ NULL \in Addr
      /\ HDR + PTR \in Addr /\ Size - PTR \in Addr
  BY <1>1 DEF NULL, Addr
<1>3. r0 \in ArenaRec({mem0})
  <2>1. dir0 \in [0 .. DirBits - 1 -> {BS_FORWARD, BS_BACKWARD}]
    OBVIOUS
  <2> QED
    BY <1>2, <2>1 DEF ArenaRec
<1>4. /\ r0.fptr = HDR /\ r0.fmark = NULL /\ r0.bptr = Size /\ r0.bmark = NULL
      /\ r0.mem = mem0
  OBVIOUS
<1>5. /\ r1.fptr = HDR + PTR /\ r1.fmark = HDR
      /\ r1.bptr = Size /\ r1.bmark = NULL
      /\ r1.mem = StorePtr(mem0, HDR, NULL)
      /\ r1 \in ArenaRec({r1.mem})
  <2> HIDE DEF r0
  <2> QED
    BY <1>2, <1>3, <1>4, MarkFFields
<1>6. bs = bistack_markb(r1)
  BY DEF Init, bistack_init
<1>7. /\ bs.fptr = HDR + PTR /\ bs.fmark = HDR
      /\ bs.bptr = Size - PTR /\ bs.bmark = Size - PTR
      /\ bs.mem = StorePtr(r1.mem, Size - PTR, NULL)
      /\ bs \in ArenaRec({bs.mem})
  <2> HIDE DEF r1
  <2> QED
    BY ZenonT(60), <1>2, <1>5, <1>6, MarkBFields
<1>8. Deref(bs, Size - PTR) = NULL /\ Deref(bs, HDR) = NULL
  <2> HIDE DEF r0, r1, mem0
  <2>1. Deref(r1, HDR) = NULL
    <3>1. r1.mem = StorePtr(r0.mem, HDR, NULL)
      BY <1>4, <1>5
    <3>2. HDR \in Int
      BY <1>1
    <3> HIDE DEF r1
    <3>3. Deref(r1, HDR) = NULL /\ SameOutside(r0, r1, HDR, HDR + PTR)
      BY ONLY <3>1, <3>2, StoreFrame
    <3> QED
      BY <3>3
  <2>2. /\ Deref(bs, Size - PTR) = NULL
        /\ SameOutside(r1, bs, Size - PTR, (Size - PTR) + PTR)
    <3>1. Size - PTR \in Int
      BY <1>1
    <3> QED
      BY <1>7, <3>1, StoreFrame
  <2>3. HDR + PTR <= Size - PTR
    BY <1>1
  <2> QED
    BY <1>1, <2>1, <2>2, <2>3 DEF SameOutside
<1>9. /\ fmarks = <<HDR>> /\ bmarks = <<Size>> /\ live = {} /\ dirs = <<>>
      /\ thrown = "none" /\ ret = NULL
  BY DEF Init
<1>10. /\ Len(fmarks) = 1 /\ fmarks[1] = HDR /\ fmarks \in Seq(Addr)
       /\ Len(bmarks) = 1 /\ bmarks[1] = Size /\ bmarks \in Seq(Addr)
  BY <1>2, <1>9
<1>11. TypeOK
  BY <1>2, <1>7, <1>9, <1>10 DEF TypeOK
<1>12. FMarksOK(fmarks, Len(fmarks), bs.fptr)
  BY <1>1, <1>7, <1>10 DEF FMarksOK
<1>13. BMarksOK(bmarks, Len(bmarks), bs.bptr)
  BY <1>1, <1>7, <1>10 DEF BMarksOK
<1>14. FChainOK(fmarks, Len(fmarks), bs) /\ BChainOK(bmarks, Len(bmarks), bs)
  BY <1>7, <1>8, <1>10 DEF FChainOK, BChainOK
<1>15. bs.fptr <= bs.bptr
  BY <1>1, <1>7
<1> QED
  BY <1>9, <1>11, <1>12, <1>13, <1>14, <1>15
     DEF IInv, FBlocksOK, BBlocksOK, BlocksApart

\* The invariant of the arena, for every buffer and every client.
THEOREM Invariance == Spec => []IInv
<1>1. Init => IInv
  BY InitStep
<1>2. IInv /\ [Next]_vars => IInv'
  BY NextStep
<1> QED
  BY <1>1, <1>2, PTL DEF Spec

\* Every address the arena holds or hands out lies in the buffer.
THEOREM TypeCorrect == Spec => []TypeOK
<1>1. IInv => TypeOK
  BY DEF IInv
<1> QED
  BY <1>1, Invariance, PTL

\* The in-memory chains of marks are the client's marks: nothing a client
\* does on either stack breaks a link of bistack_rewind or bistack_dropmark.
THEOREM MarkChainIntact == Spec => []MarkChain
<1>1. IInv => MarkChain
  <2>1. SUFFICES ASSUME IInv PROVE MarkChain
    OBVIOUS
  <2>2. FChainOK(fmarks, Len(fmarks), bs) /\ BChainOK(bmarks, Len(bmarks), bs)
    BY <2>1 DEF IInv
  <2>3. /\ fmarks \in Seq(Addr) /\ Len(fmarks) >= 1
        /\ bmarks \in Seq(Addr) /\ Len(bmarks) >= 1
    BY <2>1, Facts
  <2>4. fmarks # <<>> /\ bmarks # <<>>
    BY <2>3
  <2> QED
    BY <2>2, <2>4 DEF MarkChain, FChainOK, BChainOK, Top
<1> QED
  BY <1>1, Invariance, PTL

\* What a client owns is its own: no two blocks, no block and mark, and no
\* block and free memory share a byte.
THEOREM BlocksDisjoint == Spec => []LiveDisjoint
<1>1. IInv => LiveDisjoint
  <2>1. SUFFICES ASSUME IInv PROVE LiveDisjoint
    OBVIOUS
  <2>2. /\ HDR \in Int /\ PTR \in Nat /\ Size \in Int
        /\ bs.fptr \in Int /\ bs.bptr \in Int
        /\ HDR + PTR <= bs.fptr /\ bs.fptr <= bs.bptr /\ bs.bptr <= Size - PTR
    BY <2>1, Facts
  <2>3. HDR <= bs.fptr /\ bs.fptr <= bs.bptr /\ bs.bptr <= Size
    BY <2>2
  <2>4. ASSUME NEW b \in live
        PROVE  /\ HDR <= b.lo /\ b.lo <= b.hi /\ b.hi <= Size
               /\ Apart(b.lo, b.hi, bs.fptr, bs.bptr)
               /\ \A c \in live : b # c => Apart(b.lo, b.hi, c.lo, c.hi)
               /\ \A j \in 1 .. Len(fmarks) :
                    Apart(b.lo, b.hi, fmarks[j], fmarks[j] + PTR)
               /\ \A j \in 1 .. Len(bmarks) :
                    Apart(b.lo, b.hi, bmarks[j] - PTR, bmarks[j])
    <3>1. /\ HDR + PTR <= b.lo /\ b.lo <= b.hi /\ b.hi <= Size - PTR
          /\ b.lo \in Int /\ b.hi \in Int
          /\ b.hi <= bs.fptr \/ bs.bptr <= b.lo
      BY <2>1, <2>4, BlockOffMarks
    <3>2. HDR <= b.lo /\ b.hi <= Size
      BY <2>2, <3>1
    <3>3. \A c \in live : b # c => Apart(b.lo, b.hi, c.lo, c.hi)
      BY <2>1, <2>4 DEF IInv, BlocksApart
    <3>4. /\ \A j \in 1 .. Len(fmarks) :
               Apart(b.lo, b.hi, fmarks[j], fmarks[j] + PTR)
          /\ \A j \in 1 .. Len(bmarks) :
               Apart(b.lo, b.hi, bmarks[j] - PTR, bmarks[j])
      BY <2>1, <2>4, BlockOffMarks DEF Apart
    <3> QED
      BY <3>1, <3>2, <3>3, <3>4 DEF Apart
  <2> QED
    BY <2>3, <2>4 DEF LiveDisjoint
<1> QED
  BY <1>1, Invariance, PTL

-----------------------------------------------------------------------------
(* The direction register against the client's stack of directions.        *)

\* Only bistack_pushdir and bistack_popdir touch the register.
LEMMA DirUntouched ==
  ASSUME IInv, [Next]_vars, ~PopDir,
         ~\E d \in {BS_FORWARD, BS_BACKWARD} : PushDir(d)
  PROVE  UNCHANGED <<bs.dir, dirs>>
<1>1. bs \in ArenaRec({bs.mem})
  BY Facts
<1>2. ASSUME NEW err, Throw(err) PROVE UNCHANGED <<bs.dir, dirs>>
  BY <1>2 DEF Throw, client
<1>3. CASE UNCHANGED vars
  BY <1>3 DEF vars
<1>4. ASSUME NEW n \in Requests, AllocF(n) PROVE UNCHANGED <<bs.dir, dirs>>
  <2>1. CASE bs' = bistack_allocf(bs, n) /\ dirs' = dirs
    BY <1>1, <2>1 DEF bistack_allocf, ArenaRec
  <2> QED
    BY <1>2, <1>4, <2>1 DEF AllocF
<1>5. ASSUME NEW n \in Requests, AllocB(n) PROVE UNCHANGED <<bs.dir, dirs>>
  <2>1. CASE bs' = bistack_allocb(bs, n) /\ dirs' = dirs
    BY <1>1, <2>1 DEF bistack_allocb, ArenaRec
  <2> QED
    BY <1>2, <1>5, <2>1 DEF AllocB
<1>6. CASE MarkF
  BY <1>1, <1>2, <1>6, MarkFFields DEF MarkF
<1>7. CASE MarkB
  BY <1>1, <1>2, <1>7, MarkBFields DEF MarkB
<1>8. CASE RewindF
  BY <1>1, <1>2, <1>8, RewindFFields DEF RewindF
<1>9. CASE RewindB
  BY <1>1, <1>2, <1>9, RewindBFields DEF RewindB
<1>10. CASE DropMarkF
  BY <1>1, <1>2, <1>10, DropFFields DEF DropMarkF
<1>11. CASE DropMarkB
  BY <1>1, <1>2, <1>11, DropBFields DEF DropMarkB
<1>12. CASE Zero
  BY <1>1, <1>12 DEF Zero, bistack_zero, client, ArenaRec
<1>13. CASE \E b \in live : Fill(b)
  BY <1>1, <1>13 DEF Fill, client, ArenaRec
<1> QED
  BY <1>3, <1>4, <1>5, <1>6, <1>7, <1>8, <1>9, <1>10, <1>11, <1>12, <1>13
     DEF Next, Alloc, Mark, Rewind, DropMark

\* Pushing shifts the register in step with the client's stack.
LEMMA PushDirFaithful ==
  ASSUME IInv, DirectionFaithful, NEW d \in {BS_FORWARD, BS_BACKWARD}, PushDir(d)
  PROVE  DirectionFaithful'
<1>1. CASE ~CanPushDir(bs) /\ Throw("abort")
  BY <1>1 DEF Throw, client, DirectionFaithful
<1>2. CASE /\ CanPushDir(bs)
           /\ bs' = bistack_pushdir(bs, d)
           /\ dirs' = Append(dirs, d)
  <2> DEFINE n == Len(dirs)
  <2>1. /\ n \in Nat /\ Len(dirs') = n + 1 /\ dirs'[n + 1] = d
        /\ \A i \in 1 .. n : dirs'[i] = dirs[i]
    BY <1>2, AppendIsPush DEF IInv, TypeOK, IsPush
  <2>2. /\ bs'.dir = [i \in 0 .. DirBits - 1 |-> IF i = 0 THEN d ELSE bs.dir[i - 1]]
        /\ bs.dir[DirBits - 1] = 0
    BY <1>2, Facts DEF ArenaRec, bistack_pushdir, CanPushDir
  <2>3. /\ \A i \in 0 .. DirBits - 1 : bs.dir[i] = IF i < n THEN dirs[n - i] ELSE 0
        /\ \A i \in 1 .. n - DirBits : dirs[i] = 0
    BY DEF DirectionFaithful, BS_FORWARD
  <2> HIDE DEF n
  <2>4. \A i \in 0 .. DirBits - 1 :
          bs'.dir[i] = IF i < n + 1 THEN dirs'[n + 1 - i] ELSE 0
    <3>1. SUFFICES ASSUME NEW i \in 0 .. DirBits - 1
          PROVE  bs'.dir[i] = IF i < n + 1 THEN dirs'[n + 1 - i] ELSE 0
      OBVIOUS
    <3>2. CASE i = 0
      BY <2>1, <2>2, <3>2
    <3>3. CASE i # 0
      <4>1. i - 1 \in 0 .. DirBits - 1 /\ n + 1 - i = n - (i - 1) /\ (i < n + 1 <=> i - 1 < n)
        BY <2>1, <3>3, SizesAssumption
      <4>2. bs'.dir[i] = bs.dir[i - 1]
        BY <2>2, <3>3
      <4>3. i - 1 < n => n - (i - 1) \in 1 .. n
        BY <2>1, <3>3
      <4> QED
        BY <2>1, <2>3, <4>1, <4>2, <4>3
    <3> QED
      BY <3>2, <3>3
  <2>5. \A i \in 1 .. n + 1 - DirBits : dirs'[i] = 0
    <3>1. SUFFICES ASSUME NEW i \in 1 .. n + 1 - DirBits
          PROVE  dirs'[i] = 0
      OBVIOUS
    <3>2. i \in 1 .. n /\ dirs'[i] = dirs[i]
      BY <2>1, SizesAssumption
    <3>3. CASE i \in 1 .. n - DirBits
      BY <2>3, <3>2, <3>3
    <3>4. CASE i = n - (DirBits - 1)
      <4>1. DirBits - 1 < n /\ DirBits - 1 \in 0 .. DirBits - 1
        BY <2>1, <3>4, SizesAssumption
      <4>2. bs.dir[DirBits - 1] = dirs[n - (DirBits - 1)]
        BY <2>3, <4>1
      <4> QED
        BY <2>2, <3>2, <3>4, <4>2
    <3> QED
      BY <2>1, <3>3, <3>4, SizesAssumption
  <2> QED
    BY <2>1, <2>4, <2>5, SizesAssumption DEF DirectionFaithful, BS_FORWARD
<1> QED
  BY <1>1, <1>2 DEF PushDir

\* Popping shifts the register back in step with the client's stack.
LEMMA PopDirFaithful ==
  ASSUME IInv, DirectionFaithful, PopDir
  PROVE  DirectionFaithful'
<1> DEFINE n == Len(dirs)
<1>1. n \in Nat /\ dirs \in Seq({BS_FORWARD, BS_BACKWARD})
  BY DEF IInv, TypeOK
<1>2. bs'.dir = [i \in 0 .. DirBits - 1 |-> IF i = DirBits - 1 THEN 0 ELSE bs.dir[i + 1]]
  BY Facts DEF PopDir, ArenaRec, bistack_popdir
<1>3. /\ \A i \in 0 .. DirBits - 1 : bs.dir[i] = IF i < n THEN dirs[n - i] ELSE 0
      /\ \A i \in 1 .. n - DirBits : dirs[i] = 0
  BY DEF DirectionFaithful, BS_FORWARD
<1>4. CASE dirs = <<>>
  <2>1. n = 0 /\ dirs' = <<>> /\ Len(dirs') = 0
    BY <1>4 DEF PopDir
  <2>2. \A i \in 0 .. DirBits - 1 : bs'.dir[i] = 0
    BY <1>2, <1>3, <2>1, SizesAssumption
  <2> QED
    BY <2>1, <2>2 DEF DirectionFaithful, BS_FORWARD
<1>5. CASE dirs # <<>>
  <2>1. n >= 1 /\ dirs' = Pop(dirs)
    BY <1>1, <1>5, EmptySeq DEF PopDir
  <2>2. Len(dirs') = n - 1 /\ \A i \in 1 .. n - 1 : dirs'[i] = dirs[i]
    BY <1>1, <2>1, PopDirs
  <2> HIDE DEF n
  <2>3. \A i \in 0 .. DirBits - 1 :
          bs'.dir[i] = IF i < n - 1 THEN dirs'[n - 1 - i] ELSE 0
    <3>1. SUFFICES ASSUME NEW i \in 0 .. DirBits - 1
          PROVE  bs'.dir[i] = IF i < n - 1 THEN dirs'[n - 1 - i] ELSE 0
      OBVIOUS
    <3>2. i < n - 1 => n - 1 - i \in 1 .. n - 1 /\ n - 1 - i = n - (i + 1)
      BY <1>1
    <3>3. CASE i = DirBits - 1
      <4>1. bs'.dir[i] = 0
        BY <1>2, <3>3
      <4>2. i < n - 1 => n - 1 - i \in 1 .. n - DirBits
        BY <1>1, <3>3, SizesAssumption
      <4> QED
        BY <1>3, <2>2, <3>2, <4>1, <4>2
    <3>4. CASE i # DirBits - 1
      <4>1. i + 1 \in 0 .. DirBits - 1 /\ (i + 1 < n <=> i < n - 1)
        BY <1>1, <3>4, SizesAssumption
      <4>2. bs'.dir[i] = bs.dir[i + 1]
        BY <1>2, <3>4
      <4> QED
        BY <1>3, <2>2, <3>2, <4>1, <4>2
    <3> QED
      BY <3>3, <3>4
  <2>4. \A i \in 1 .. n - 1 - DirBits : dirs'[i] = 0
    <3>1. SUFFICES ASSUME NEW i \in 1 .. n - 1 - DirBits
          PROVE  dirs'[i] = 0
      OBVIOUS
    <3>2. i \in 1 .. n - 1 /\ i \in 1 .. n - DirBits
      BY <1>1, SizesAssumption
    <3> QED
      BY <1>3, <2>2, <3>2
  <2> QED
    BY <2>2, <2>3, <2>4 DEF DirectionFaithful, BS_FORWARD
<1> QED
  BY <1>4, <1>5

\* The bits are enough for any depth of pushes the assert lets through,
\* however many they are:
\* the direction in force is always the last one pushed and not yet popped.
THEOREM DirectionsFaithful == Spec => []DirectionFaithful
<1>1. Init => DirectionFaithful
  <2>1. SUFFICES ASSUME Init PROVE DirectionFaithful
    OBVIOUS
  <2>2. bs.dir = [i \in 0 .. DirBits - 1 |-> BS_FORWARD]
    BY <2>1 DEF Init, bistack_init, bistack_markf, bistack_markb
  <2>3. Len(dirs) = 0
    BY <2>1 DEF Init
  <2> QED
    BY <2>2, <2>3, SizesAssumption DEF DirectionFaithful
<1>2. IInv /\ DirectionFaithful /\ [Next]_vars => DirectionFaithful'
  <2>1. SUFFICES ASSUME IInv, DirectionFaithful, [Next]_vars
        PROVE  DirectionFaithful'
    OBVIOUS
  <2>2. CASE \E d \in {BS_FORWARD, BS_BACKWARD} : PushDir(d)
    BY <2>1, <2>2, PushDirFaithful
  <2>3. CASE PopDir
    BY <2>1, <2>3, PopDirFaithful
  <2>4. CASE ~PopDir /\ ~\E d \in {BS_FORWARD, BS_BACKWARD} : PushDir(d)
    <3>1. bs'.dir = bs.dir /\ dirs' = dirs
      BY <2>1, <2>4, DirUntouched
    <3> QED
      BY <2>1, <3>1 DEF DirectionFaithful
  <2> QED
    BY <2>2, <2>3, <2>4
<1> QED
  BY <1>1, <1>2, Invariance, PTL DEF Spec

-----------------------------------------------------------------------------
(* What a rewind gives back.                                               *)

\* The stack tops do not move.
LEMMA TopsKept ==
  ASSUME IInv, NEW lo, NEW hi, NEW d \in {BS_FORWARD, BS_BACKWARD},
         \/ bs' = [bs EXCEPT !.mem = Scrub(bs.mem, lo, hi)]
         \/ bs' = bistack_pushdir(bs, d) \/ bs' = bistack_popdir(bs)
  PROVE  bs'.fptr = bs.fptr /\ bs'.bptr = bs.bptr
<1>1. bs \in ArenaRec({bs.mem})
  BY Facts
<1>2. CASE bs' = [bs EXCEPT !.mem = Scrub(bs.mem, lo, hi)]
  BY <1>1, <1>2 DEF ArenaRec
<1>3. CASE bs' = bistack_pushdir(bs, d)
  BY ZenonT(60), <1>1, <1>3, DirFields
<1>4. CASE bs' = bistack_popdir(bs)
  BY ZenonT(60), <1>1, <1>4, DirFields
<1> QED
  BY <1>2, <1>3, <1>4

\* A step that takes memory back on one side is a rewind of that side's last
\* mark: it returns the address that mark returned and moves nothing else.
ExactRewind ==
  /\ bs'.fptr < bs.fptr =>
       /\ ret' = Top(fmarks) /\ bs'.fptr = Top(fmarks)
       /\ fmarks' = Pop(fmarks) /\ bs'.bptr = bs.bptr
  /\ bs'.bptr > bs.bptr =>
       /\ ret' = Top(bmarks) /\ bs'.bptr = Top(bmarks)
       /\ bmarks' = Pop(bmarks) /\ bs'.fptr = bs.fptr

\* A step that moves the tops towards each other rewinds nothing.
LEMMA NoRewind ==
  ASSUME IInv, NEW x \in Nat, NEW y \in Nat,
         bs'.fptr = bs.fptr + x, bs'.bptr = bs.bptr - y
  PROVE  ExactRewind
<1>1. bs.fptr \in Int /\ bs.bptr \in Int
  BY Facts
<1>2. ~(bs'.fptr < bs.fptr) /\ ~(bs'.bptr > bs.bptr)
  BY <1>1
<1> QED
  BY <1>2 DEF ExactRewind

\* A step that moves no top rewinds nothing.
LEMMA SameTops ==
  ASSUME IInv, bs'.fptr = bs.fptr, bs'.bptr = bs.bptr
  PROVE  ExactRewind
<1>1. bs.fptr \in Int /\ bs.bptr \in Int
  BY Facts
<1>2. bs'.fptr = bs.fptr + 0 /\ bs'.bptr = bs.bptr - 0
  BY <1>1
<1> QED
  BY <1>2, NoRewind

\* Every step that gives memory back gives back exactly to the last mark.
LEMMA ExactStep ==
  ASSUME IInv, [Next]_vars
  PROVE  ExactRewind \/ UNCHANGED vars
<1>1. bs \in ArenaRec({bs.mem})
  BY Facts
<1>2. /\ bs.fptr \in Int /\ bs.bptr \in Int /\ PTR \in Nat
      /\ \A n \in Requests : n \in Nat
  BY Facts, ArenaAssumption
<1>3. bs.fptr = bs.fptr + 0 /\ bs.bptr = bs.bptr - 0 /\ 0 \in Nat
  BY <1>2
<1>4. ASSUME NEW err, Throw(err) PROVE ExactRewind
  BY <1>4, SameTops DEF Throw
<1>5. ASSUME NEW n \in Requests, AllocF(n) PROVE ExactRewind
  <2>1. CASE bs' = bistack_allocf(bs, n)
    <3>1. bs'.fptr = bs.fptr + n /\ bs'.bptr = bs.bptr - 0
      BY <1>1, <1>3, <2>1 DEF bistack_allocf, ArenaRec
    <3> QED
      BY <1>2, <1>3, <3>1, NoRewind
  <2> QED
    BY <1>4, <1>5, <2>1 DEF AllocF
<1>6. ASSUME NEW n \in Requests, AllocB(n) PROVE ExactRewind
  <2>1. CASE bs' = bistack_allocb(bs, n)
    <3>1. bs'.fptr = bs.fptr + 0 /\ bs'.bptr = bs.bptr - n
      BY <1>1, <1>3, <2>1 DEF bistack_allocb, ArenaRec
    <3> QED
      BY <1>2, <1>3, <3>1, NoRewind
  <2> QED
    BY <1>4, <1>6, <2>1 DEF AllocB
<1>7. CASE MarkF
  <2>1. CASE bs' = bistack_markf(bs)
    <3>1. bs'.fptr = bs.fptr + PTR /\ bs'.bptr = bs.bptr - 0
      BY ZenonT(60), <1>1, <1>3, <2>1, MarkFFields
    <3> QED
      BY <1>2, <1>3, <3>1, NoRewind
  <2> QED
    BY <1>4, <1>7, <2>1 DEF MarkF
<1>8. CASE MarkB
  <2>1. CASE bs' = bistack_markb(bs)
    <3>1. bs'.fptr = bs.fptr + 0 /\ bs'.bptr = bs.bptr - PTR
      BY <1>1, <1>3, <2>1, MarkBFields
    <3> QED
      BY <1>2, <1>3, <3>1, NoRewind
  <2> QED
    BY <1>4, <1>8, <2>1 DEF MarkB
<1>9. CASE RewindF
  <2>1. CASE /\ HasMark(bs, bs.fmark) /\ bs' = bistack_rewindf(bs)
             /\ fmarks' = Pop(fmarks) /\ Return(bs'.fptr)
    <3>1. bs'.fptr = bs.fmark /\ bs'.bptr = bs.bptr
      BY ZenonT(60), <1>1, <2>1, RewindFFields
    <3>2. bs.fmark = Top(fmarks)
      BY <2>1, TopMarkF DEF Top
    <3>3. ~(bs'.bptr > bs.bptr)
      BY <1>2, <3>1
    <3> QED
      BY <2>1, <3>1, <3>2, <3>3 DEF ExactRewind, Return
  <2> QED
    BY <1>4, <1>9, <2>1 DEF RewindF
<1>10. CASE RewindB
  <2>1. CASE /\ HasMark(bs, bs.bmark) /\ bs' = bistack_rewindb(bs)
             /\ bmarks' = Pop(bmarks) /\ Return(bs'.bptr)
    <3>1. bs'.bptr = bs.bmark + PTR /\ bs'.fptr = bs.fptr
      BY ZenonT(60), <1>1, <2>1, RewindBFields
    <3>2. bs.bmark = Top(bmarks) - PTR /\ Top(bmarks) \in Int
      <4>1. bs.bmark = Top(bmarks) - PTR /\ Top(bmarks) \in Addr
        BY <2>1, TopMarkB DEF Top
      <4> QED
        BY <4>1, ArenaAssumption DEF Addr
    <3>3. bs'.bptr = Top(bmarks) /\ ~(bs'.fptr < bs.fptr)
      BY <1>2, <3>1, <3>2
    <3> QED
      BY <2>1, <3>1, <3>3 DEF ExactRewind, Return
  <2> QED
    BY <1>4, <1>10, <2>1 DEF RewindB
<1>11. CASE DropMarkF
  <2>1. CASE bs' = bistack_dropmarkf(bs)
    BY ZenonT(60), <1>1, <2>1, DropFFields, SameTops
  <2> QED
    BY <1>4, <1>11, <2>1 DEF DropMarkF
<1>12. CASE DropMarkB
  <2>1. CASE bs' = bistack_dropmarkb(bs)
    BY ZenonT(60), <1>1, <2>1, DropBFields, SameTops
  <2> QED
    BY <1>4, <1>12, <2>1 DEF DropMarkB
<1>13. ASSUME NEW d \in {BS_FORWARD, BS_BACKWARD}, PushDir(d) PROVE ExactRewind
  <2>1. CASE bs' = bistack_pushdir(bs, d)
    BY <2>1, TopsKept, SameTops
  <2> QED
    BY <1>4, <1>13, <2>1 DEF PushDir
<1>14. CASE PopDir
  <2>1. bs' = bistack_popdir(bs) /\ BS_FORWARD \in {BS_FORWARD, BS_BACKWARD}
    BY <1>14 DEF PopDir
  <2> QED
    BY <2>1, TopsKept, SameTops
<1>15. CASE Zero \/ \E b \in live : Fill(b)
  <2>1. \E lo, hi : bs' = [bs EXCEPT !.mem = Scrub(bs.mem, lo, hi)]
    BY <1>15 DEF Zero, Fill, bistack_zero
  <2>2. BS_FORWARD \in {BS_FORWARD, BS_BACKWARD}
    OBVIOUS
  <2> QED
    BY <2>1, <2>2, TopsKept, SameTops
<1> QED
  BY <1>5, <1>6, <1>7, <1>8, <1>9, <1>10, <1>11, <1>12, <1>13, <1>14, <1>15
     DEF Next, Alloc, Mark, Rewind, DropMark

\* Rewinding is exact, on both stacks and whatever happened since the mark.
THEOREM RewindExact == Spec => RewindReturnsMark
<1>1. IInv /\ [Next]_vars => [ExactRewind]_vars
  BY ExactStep
<1> QED
  BY <1>1, Invariance, PTL DEF Spec, RewindReturnsMark, ExactRewind

-----------------------------------------------------------------------------
(* The arena implements the two stacks of scopes of ScopedArena, the       *)
(* refinement behind ArenaSpec.  IInv says that the marks in memory are    *)
(* the client's, in order.  What remains is arithmetic on the differences  *)
(* between neighbouring marks: an operation that pushes or pops a mark, or *)
(* moves a stack top, does to those differences what ScopedArena does to   *)
(* its scopes.  The backward stack grows down, so its scopes are those of  *)
(* the negated addresses, and the same lemmas serve both sides.            *)


(* Used, under the operations on its marks and its stack top.              *)

\* The scopes of a side are a sequence of sizes, one for each mark.
LEMMA UsedIsSeq ==
  ASSUME NEW m \in Seq(Int), NEW n, n = Len(m), NEW top \in Int
  PROVE  /\ Used(m, top) \in Seq(Int) /\ Len(Used(m, top)) = n
         /\ \A i \in 1 .. n : Used(m, top)[i] =
              IF i < n THEN m[i + 1] - m[i] ELSE top - m[i]
<1>1. n \in Nat /\ \A i \in 1 .. n : m[i] \in Int
  OBVIOUS
<1>2. \A i \in 1 .. n : (IF i < n THEN m[i + 1] - m[i] ELSE top - m[i]) \in Int
  BY <1>1
<1>3. Used(m, top) \in [1 .. n -> Int]
  BY <1>2 DEF Used
<1>4. Used(m, top) \in Seq(Int) /\ Len(Used(m, top)) = n
  BY <1>1, <1>3
<1>5. \A i \in 1 .. n : Used(m, top)[i] = IF i < n THEN m[i + 1] - m[i] ELSE top - m[i]
  BY DEF Used
<1> QED
  BY <1>4, <1>5

\* An allocation is charged to the innermost scope.
LEMMA UsedCharge ==
  ASSUME NEW m \in Seq(Int), Len(m) >= 1, NEW top \in Int, NEW x \in Int
  PROVE  Used(m, top + x) = Arena!Charge(Used(m, top), x)
<1> DEFINE n == Len(m)
           u == Used(m, top)
           v == Used(m, top + x)
           w == Arena!Charge(u, x)
<1>1. n \in Nat /\ n >= 1 /\ n \in 1 .. n /\ top + x \in Int
  OBVIOUS
<1>2. /\ u \in Seq(Int) /\ Len(u) = n
      /\ \A i \in 1 .. n : u[i] = IF i < n THEN m[i + 1] - m[i] ELSE top - m[i]
  BY UsedIsSeq
<1>3. /\ v \in Seq(Int) /\ Len(v) = n
      /\ \A i \in 1 .. n : v[i] = IF i < n THEN m[i + 1] - m[i] ELSE (top + x) - m[i]
  BY <1>1, UsedIsSeq
<1>4. m[n] \in Int
  BY <1>1, ElementOfSeq
<1> HIDE DEF n, u, v
<1>5. u[n] = top - m[n] /\ v[n] = (top + x) - m[n]
  BY <1>1, <1>2, <1>3
<1>6. u[n] + x \in Int /\ v[n] = u[n] + x
  BY <1>4, <1>5
<1>7. w = [u EXCEPT ![n] = u[n] + x]
  BY <1>2 DEF Arena!Charge
<1>8. /\ w \in Seq(Int) /\ Len(w) = n
      /\ \A i \in 1 .. n : w[i] = IF i = n THEN u[n] + x ELSE u[i]
  BY <1>1, <1>2, <1>6, <1>7, ExceptSeq
<1>9. \A i \in 1 .. n : v[i] = w[i]
  BY <1>1, <1>2, <1>3, <1>6, <1>8
<1> HIDE DEF w
<1> QED
  BY <1>3, <1>8, <1>9, SeqEqual DEF v, w, u

\* A mark opens a scope that holds the mark's own word.
LEMMA UsedAppend ==
  ASSUME NEW m \in Seq(Int), NEW top \in Int, NEW x \in Int
  PROVE  Used(Append(m, top), top + x) = Append(Used(m, top), x)
<1>1. PICK n : n = Len(m)
  OBVIOUS
<1>2. PICK m2 \in Seq(Int) : m2 = Append(m, top)
  BY AppendProperties
<1>3. PICK l : l = n + 1
  OBVIOUS
<1>4. PICK t \in Int : t = top + x
  OBVIOUS
<1>5. n \in Nat /\ \A i \in 1 .. n : m[i] \in Int
  BY <1>1
<1>6. m2 \in Seq(Int) /\ Len(m2) = l /\ m2[l] = top /\ \A i \in 1 .. n : m2[i] = m[i]
  BY <1>1, <1>2, <1>3, AppendProperties
<1> DEFINE u == Used(m, top)
           v == Used(m2, t)
           w == Append(u, x)
<1>7. /\ u \in Seq(Int) /\ Len(u) = n
      /\ \A i \in 1 .. n : u[i] = IF i < n THEN m[i + 1] - m[i] ELSE top - m[i]
  <2>1. \A i \in 1 .. n : Used(m, top)[i] = IF i < n THEN m[i + 1] - m[i] ELSE top - m[i]
    BY <1>1 DEF Used
  <2>2. Used(m, top) \in Seq(Int) /\ Len(Used(m, top)) = n
    BY <1>1, UsedIsSeq
  <2> QED
    BY ONLY <2>1, <2>2
<1>8. /\ v \in Seq(Int) /\ Len(v) = l
      /\ \A i \in 1 .. l : v[i] = IF i < l THEN m2[i + 1] - m2[i] ELSE t - m2[i]
  <2>1. l = Len(m2)
    BY <1>6
  <2>2. \A i \in 1 .. l : Used(m2, t)[i] = IF i < l THEN m2[i + 1] - m2[i] ELSE t - m2[i]
    BY <2>1 DEF Used
  <2> QED
    BY <1>2, <1>4, <2>1, <2>2, UsedIsSeq
<1> HIDE DEF u, v
<1>9. /\ w \in Seq(Int) /\ Len(w) = l /\ w[l] = x
      /\ \A i \in 1 .. n : w[i] = u[i]
  BY <1>3, <1>7, AppendProperties
<1> HIDE DEF w
<1>10. \A i \in 1 .. l : v[i] = w[i]
  <2>1. SUFFICES ASSUME NEW i \in 1 .. l PROVE v[i] = w[i]
    OBVIOUS
  <2>2. v[i] = IF i < l THEN m2[i + 1] - m2[i] ELSE t - m2[i]
    BY <1>8
  <2>3. CASE i = l
    <3>1. v[i] = t - top
      BY <1>3, <1>5, <1>6, <2>2, <2>3
    <3> QED
      BY <1>4, <1>9, <2>3, <3>1
  <2>4. CASE i = n /\ n >= 1
    <3>1. v[i] = top - m[i]
      BY <1>3, <1>5, <1>6, <2>2, <2>4
    <3>2. u[i] = top - m[i] /\ w[i] = u[i]
      BY <1>5, <1>7, <1>9, <2>4
    <3> QED
      BY <3>1, <3>2
  <2>5. CASE i < n
    <3>1. i \in 1 .. n /\ i + 1 \in 1 .. n
      BY <1>3, <1>5, <2>5
    <3>2. v[i] = m[i + 1] - m[i]
      BY <1>3, <1>5, <1>6, <2>2, <2>5, <3>1
    <3> QED
      BY <1>7, <1>9, <2>5, <3>1, <3>2
  <2> QED
    BY <1>3, <1>5, <2>3, <2>4, <2>5
<1>11. v = w
  BY <1>8, <1>9, <1>10, SeqEqual
<1> QED
  BY <1>2, <1>4, <1>11 DEF v, w, u

\* Undoing a mark takes its scope off.
LEMMA UsedPop ==
  ASSUME NEW m \in Seq(Int), Len(m) > 1, NEW top \in Int
  PROVE  /\ Used(Pop(m), m[Len(m)]) = Arena!Outer(Used(m, top))
         /\ Arena!Innermost(Used(m, top)) = top - m[Len(m)]
         /\ m[Len(m)] \in Int /\ Pop(m) \in Seq(Int) /\ Len(Pop(m)) >= 1
<1>1. PICK k : k = Len(m) - 1
  OBVIOUS
<1>2. PICK m2 \in Seq(Int) : m2 = Pop(m)
  BY PopIsPop
<1>3. PICK e \in Int : e = m[Len(m)]
  OBVIOUS
<1>4. k \in Nat /\ k >= 1 /\ Len(m) = k + 1 /\ e = m[k + 1] /\ e \in Int
  BY <1>1, <1>3
<1>5. m2 \in Seq(Int) /\ Len(m2) = k /\ \A i \in 1 .. k : m2[i] = m[i]
  BY <1>1, <1>2, PopIsPop DEF IsPop
<1> DEFINE u == Used(m, top)
           v == Used(m2, e)
           w == Arena!Outer(u)
<1>6. /\ u \in Seq(Int) /\ Len(u) = k + 1
      /\ \A i \in 1 .. k + 1 : u[i] = IF i < k + 1 THEN m[i + 1] - m[i] ELSE top - m[i]
  BY <1>4, UsedIsSeq
<1>7. /\ v \in Seq(Int) /\ Len(v) = k
      /\ \A i \in 1 .. k : v[i] = IF i < k THEN m2[i + 1] - m2[i] ELSE e - m2[i]
  <2>1. k = Len(m2)
    BY <1>5
  <2>2. \A i \in 1 .. k : Used(m2, e)[i] = IF i < k THEN m2[i + 1] - m2[i] ELSE e - m2[i]
    BY <2>1 DEF Used
  <2> QED
    BY <1>2, <1>3, <2>1, <2>2, UsedIsSeq
<1> HIDE DEF u, v
<1>8. /\ w \in Seq(Int) /\ Len(w) = k
      /\ \A i \in 1 .. k : w[i] = u[i]
  <2>1. w = SubSeq(u, 1, k)
    BY <1>4, <1>6 DEF Arena!Outer
  <2>2. 1 \in Int /\ k \in Int /\ \A i \in 1 .. k : u[i] \in Int
    BY <1>4, <1>6
  <2> HIDE DEF w
  <2> QED
    BY <1>4, <2>1, <2>2, SubSeqProperties
<1>9. \A i \in 1 .. k : v[i] = w[i]
  <2>1. SUFFICES ASSUME NEW i \in 1 .. k PROVE v[i] = w[i]
    OBVIOUS
  <2>2. u[i] = m[i + 1] - m[i] /\ w[i] = u[i]
    BY <1>4, <1>6, <1>8
  <2>3. CASE i < k
    BY <1>4, <1>5, <1>7, <2>2, <2>3
  <2>4. CASE i = k
    BY <1>4, <1>5, <1>7, <2>2, <2>4
  <2> QED
    BY <1>4, <2>3, <2>4
<1>10. Arena!Innermost(u) = top - e
  BY <1>4, <1>6 DEF Arena!Innermost
<1> HIDE DEF w
<1>11. v = w
  BY <1>7, <1>8, <1>9, SeqEqual
<1> QED
  BY <1>2, <1>3, <1>4, <1>5, <1>10, <1>11 DEF v, w, u

\* Dropping a mark adds its scope to the one before it.
LEMMA UsedDrop ==
  ASSUME NEW m \in Seq(Int), Len(m) > 1, NEW top \in Int
  PROVE  LET u == Used(m, top) IN
         Used(Pop(m), top) = Arena!Charge(Arena!Outer(u), Arena!Innermost(u))
<1> DEFINE d == top - m[Len(m)]
<1>1. /\ Used(Pop(m), m[Len(m)]) = Arena!Outer(Used(m, top))
      /\ Arena!Innermost(Used(m, top)) = d
      /\ m[Len(m)] \in Int /\ Pop(m) \in Seq(Int) /\ Len(Pop(m)) >= 1
  BY UsedPop
<1>2. d \in Int /\ m[Len(m)] + d = top
  BY <1>1
<1> HIDE DEF d
<1>3. Used(Pop(m), m[Len(m)] + d) = Arena!Charge(Used(Pop(m), m[Len(m)]), d)
  BY <1>1, <1>2, UsedCharge
<1> QED
  BY <1>1, <1>2, <1>3

-----------------------------------------------------------------------------
(* The backward stack grows down: its scopes are those of the negated       *)
(* addresses.                                                               *)

\* Negating a sequence of addresses, element by element.
LEMMA NegIsSeq ==
  ASSUME NEW m \in Seq(Int)
  PROVE  /\ Neg(m) \in Seq(Int) /\ Len(Neg(m)) = Len(m)
         /\ \A i \in 1 .. Len(m) : Neg(m)[i] = -m[i]
<1>1. PICK n : n = Len(m)
  OBVIOUS
<1>2. n \in Nat /\ \A i \in 1 .. n : -m[i] \in Int
  BY <1>1
<1>3. Neg(m) \in [1 .. n -> Int]
  BY <1>1, <1>2 DEF Neg
<1>4. Neg(m) \in Seq(Int) /\ Len(Neg(m)) = n
  BY <1>2, <1>3
<1>5. \A i \in 1 .. Len(m) : Neg(m)[i] = -m[i]
  BY DEF Neg
<1> QED
  BY <1>1, <1>4, <1>5

\* The negation of a sequence and one more address.
LEMMA NegAppend ==
  ASSUME NEW m \in Seq(Int), NEW e \in Int
  PROVE  Neg(Append(m, e)) = Append(Neg(m), -e)
<1>1. PICK m2 \in Seq(Int) : m2 = Append(m, e)
  BY AppendProperties
<1>2. PICK k \in Seq(Int) : k = Neg(m)
  BY NegIsSeq
<1>3. PICK n \in Nat : n = Len(m)
  OBVIOUS
<1>4. Len(m2) = n + 1 /\ m2[n + 1] = e /\ \A i \in 1 .. n : m2[i] = m[i]
  BY <1>1, <1>3, AppendProperties
<1>5. Len(k) = n /\ \A i \in 1 .. n : k[i] = -m[i]
  BY <1>2, <1>3, NegIsSeq
<1>6. PICK d \in Int : d = -e
  OBVIOUS
<1>7. PICK a \in Seq(Int) : /\ a = Append(k, d)
                            /\ Len(a) = n + 1 /\ a[n + 1] = d
                            /\ \A i \in 1 .. n : a[i] = k[i]
  <2>1. /\ Append(k, d) \in Seq(Int) /\ Len(Append(k, d)) = Len(k) + 1
        /\ Append(k, d)[Len(k) + 1] = d
        /\ \A i \in 1 .. Len(k) : Append(k, d)[i] = k[i]
    BY AppendProperties
  <2> QED
    BY <1>5, <2>1
<1>8. PICK b \in Seq(Int) : b = Neg(m2)
  BY <1>1, NegIsSeq
<1>9. Len(b) = n + 1 /\ \A i \in 1 .. n + 1 : b[i] = -m2[i]
  <2>1. Len(b) = Len(m2)
    BY <1>8, NegIsSeq
  <2> QED
    BY <1>4, <1>8, <2>1 DEF Neg
<1>10. ASSUME NEW i \in 1 .. n + 1 PROVE a[i] = b[i]
  <2>1. CASE i = n + 1
    BY <1>4, <1>6, <1>7, <1>9, <2>1
  <2>2. CASE i \in 1 .. n
    <3>1. a[i] = -m[i]
      BY <1>5, <1>7, <2>2
    <3> QED
      BY <1>4, <1>9, <2>2, <3>1
  <2> QED
    BY <2>1, <2>2
<1>11. a = b
  BY <1>7, <1>9, <1>10, SeqEqual
<1> QED
  BY <1>1, <1>2, <1>6, <1>7, <1>8, <1>11

\* The negation of a sequence without its last address.
LEMMA NegPop ==
  ASSUME NEW m \in Seq(Int), Len(m) > 1
  PROVE  /\ Neg(Pop(m)) = Pop(Neg(m))
         /\ Neg(m)[Len(m)] = -m[Len(m)] /\ m[Len(m)] \in Int
<1>1. PICK n \in Nat : n = Len(m) /\ n > 1 /\ n \in 1 .. n
  OBVIOUS
<1>2. PICK k \in Seq(Int) : k = Neg(m)
  BY NegIsSeq
<1>3. Len(k) = n /\ \A i \in 1 .. n : k[i] = -m[i]
  BY <1>1, <1>2, NegIsSeq
<1>4. PICK p \in Seq(Int) : p = Pop(m)
  BY PopIsPop
<1>5. Len(p) = n - 1 /\ \A i \in 1 .. n - 1 : p[i] = m[i]
  BY <1>1, <1>4, PopIsPop DEF IsPop
<1>6. PICK a \in Seq(Int) : a = Pop(k)
  BY <1>1, <1>2, <1>3, PopIsPop
<1>7. Len(a) = n - 1 /\ \A i \in 1 .. n - 1 : a[i] = k[i]
  BY <1>1, <1>2, <1>3, <1>6, PopIsPop DEF IsPop
<1>8. PICK b \in Seq(Int) : b = Neg(p)
  BY <1>4, NegIsSeq
<1>9. Len(b) = n - 1 /\ \A i \in 1 .. n - 1 : b[i] = -p[i]
  <2>1. Len(b) = Len(p)
    BY <1>8, NegIsSeq
  <2> QED
    BY <1>5, <1>8, <2>1 DEF Neg
<1>10. ASSUME NEW i \in 1 .. n - 1 PROVE a[i] = b[i]
  <2>1. i \in 1 .. n
    BY <1>1
  <2>2. a[i] = -m[i]
    BY <1>3, <1>7, <2>1
  <2>3. b[i] = -m[i]
    BY <1>5, <1>9
  <2> QED
    BY <2>2, <2>3
<1>11. a = b
  BY <1>6, <1>7, <1>8, <1>9, <1>10, SeqEqual
<1> QED
  BY <1>1, <1>2, <1>3, <1>4, <1>6, <1>8, <1>11

-----------------------------------------------------------------------------
(* The steps of ScopedArena, in terms of the two stacks of scopes.          *)

FScopes == Used(fmarks, bs.fptr)
BScopes == Used(Neg(bmarks), -bs.bptr)

\* Only the forward stack, or only the backward one, changes from s to t.
OneSide(f, b) ==
  \/ FScopes' = f /\ BScopes' = BScopes
  \/ BScopes' = b /\ FScopes' = FScopes

\* A step that charges n bytes to a side is an allocation.
LEMMA ToAlloc ==
  ASSUME NEW n, n <= bistack_freemem(bs), thrown' = "none",
         OneSide(Arena!Charge(FScopes, n), Arena!Charge(BScopes, n)),
         bistack_freemem(bs)' = bistack_freemem(bs) - n
  PROVE  Arena!Alloc(n)
  BY DEF OneSide, FScopes, BScopes, Arena!Alloc, Arena!OnOneSide

\* A step that opens a scope is a mark.
LEMMA ToMark ==
  ASSUME PTR <= bistack_freemem(bs), thrown' = "none",
         OneSide(Append(FScopes, PTR), Append(BScopes, PTR)),
         bistack_freemem(bs)' = bistack_freemem(bs) - PTR
  PROVE  Arena!Mark
  BY DEF OneSide, FScopes, BScopes, Arena!Mark, Arena!OnOneSide

\* A step that takes a forward scope off and frees its bytes is a rewind.
LEMMA ToRewindF ==
  ASSUME Len(FScopes) > 1, thrown' = "none",
         FScopes' = Arena!Outer(FScopes), BScopes' = BScopes,
         bistack_freemem(bs)' = bistack_freemem(bs) + Arena!Innermost(FScopes)
  PROVE  Arena!Rewind
  BY DEF FScopes, BScopes, Arena!Rewind, Arena!OnOneSide

\* The same on the backward side.
LEMMA ToRewindB ==
  ASSUME Len(BScopes) > 1, thrown' = "none",
         BScopes' = Arena!Outer(BScopes), FScopes' = FScopes,
         bistack_freemem(bs)' = bistack_freemem(bs) + Arena!Innermost(BScopes)
  PROVE  Arena!Rewind
  BY DEF FScopes, BScopes, Arena!Rewind, Arena!OnOneSide

\* A step that merges the last two scopes of a side drops a mark.
LEMMA ToDropMark ==
  ASSUME \/ /\ Len(FScopes) > 1 /\ BScopes' = BScopes
            /\ FScopes' = Arena!Charge(Arena!Outer(FScopes), Arena!Innermost(FScopes))
         \/ /\ Len(BScopes) > 1 /\ FScopes' = FScopes
            /\ BScopes' = Arena!Charge(Arena!Outer(BScopes), Arena!Innermost(BScopes)),
         thrown' = "none", bistack_freemem(bs)' = bistack_freemem(bs)
  PROVE  Arena!DropMark
  BY DEF FScopes, BScopes, Arena!DropMark, Arena!OnOneSide

\* A call that throws changes no scope.
LEMMA ToThrow ==
  ASSUME NEW err, Throw(err)
  PROVE  Arena!Throw(err)
  BY DEF Throw, client, Arena!Throw, bistack_freemem

\* A step that moves no mark and no stack top changes no scope.
LEMMA ToOther ==
  ASSUME thrown' \in {"none", "abort"}, UNCHANGED <<fmarks, bmarks>>,
         bs'.fptr = bs.fptr, bs'.bptr = bs.bptr
  PROVE  Arena!Other
  BY DEF Arena!Other, bistack_freemem

-----------------------------------------------------------------------------
(* Each operation of the arena is a step of ScopedArena.                    *)

\* The marks and stack tops as numbers.
LEMMA Numbers ==
  ASSUME IInv
  PROVE  /\ fmarks \in Seq(Int) /\ Len(fmarks) >= 1 /\ Len(FScopes) = Len(fmarks)
         /\ bmarks \in Seq(Int) /\ Neg(bmarks) \in Seq(Int)
         /\ Len(Neg(bmarks)) = Len(bmarks)
         /\ Len(bmarks) >= 1 /\ Len(BScopes) = Len(bmarks)
         /\ bs.fptr \in Int /\ bs.bptr \in Int /\ -bs.bptr \in Int /\ PTR \in Int
         /\ bs \in ArenaRec({bs.mem})
<1>1. Addr \subseteq Int
  BY ArenaAssumption DEF Addr
<1>2. fmarks \in Seq(Int) /\ bmarks \in Seq(Int)
  BY <1>1, Facts, SeqMonotonic
<1>3. /\ Len(fmarks) >= 1 /\ Len(bmarks) >= 1 /\ bs.fptr \in Int /\ bs.bptr \in Int
      /\ PTR \in Int /\ bs \in ArenaRec({bs.mem})
  BY Facts
<1>4. -bs.bptr \in Int
  BY <1>3
<1>5. Neg(bmarks) \in Seq(Int) /\ Len(Neg(bmarks)) = Len(bmarks)
  BY <1>2, NegIsSeq
<1>6. Len(FScopes) = Len(fmarks)
  BY <1>2, <1>3, UsedIsSeq DEF FScopes
<1>7. Len(BScopes) = Len(bmarks)
  BY <1>4, <1>5, UsedIsSeq DEF BScopes
<1> QED
  BY <1>2, <1>3, <1>4, <1>5, <1>6, <1>7

\* The bounds test of an allocation compares it with the memory left, and
\* what it takes from either stack's side is no longer left.
LEMMA Room ==
  ASSUME NEW n \in Int, bs.fptr \in Int, bs.bptr \in Int
  PROVE  /\ CanAlloc(bs, n) => n <= bistack_freemem(bs)
         /\ ~CanAlloc(bs, n) => n > bistack_freemem(bs)
         /\ \/ bs'.fptr = bs.fptr + n /\ bs'.bptr = bs.bptr
            \/ bs'.fptr = bs.fptr /\ bs'.bptr = bs.bptr - n
            => bistack_freemem(bs)' = bistack_freemem(bs) - n
  BY DEF CanAlloc, bistack_freemem

\* bistack_rewindf and bistack_dropmarkf throw only at bistack_init's mark.
LEMMA OneMarkF ==
  ASSUME IInv, ~HasMark(bs, bs.fmark)
  PROVE  Len(fmarks) = 1
<1>1. PICK n \in Nat : n = Len(fmarks) /\ n >= 1 /\ n \in 1 .. n
  BY Numbers
<1>2. bs.fmark = fmarks[n]
  BY <1>1 DEF IInv, FChainOK
<1>3. \A i \in 1 .. n : fmarks[i] \in Int /\ fmarks[i] > 0
  <2>1. fmarks[1] = HDR /\ HDR \in Int /\ HDR > 0 /\ PTR \in Int /\ PTR > 0
    BY SizesAssumption DEF IInv, FMarksOK
  <2>2. \A i \in 1 .. n : fmarks[i] \in Int /\ (1 < i => fmarks[1] + PTR <= fmarks[i])
    BY <1>1 DEF IInv, FMarksOK
  <2> QED
    BY <2>1, <2>2
<1>4. bs.fmark # NULL
  BY <1>1, <1>2, <1>3 DEF NULL
<1>5. Deref(bs, fmarks[n]) = NULL
  BY <1>2, <1>4 DEF HasMark
<1>6. Deref(bs, fmarks[n]) = IF n = 1 THEN NULL ELSE fmarks[n - 1]
  <2>1. FChainOK(fmarks, n, bs)
    BY <1>1 DEF IInv
  <2> QED
    BY <1>1, <2>1, Zenon DEF FChainOK
<1>7. n # 1 => n - 1 \in 1 .. n
  BY <1>1
<1> QED
  BY <1>1, <1>3, <1>5, <1>6, <1>7 DEF NULL

\* The same on the backward side.
LEMMA OneMarkB ==
  ASSUME IInv, ~HasMark(bs, bs.bmark)
  PROVE  Len(bmarks) = 1
<1>1. PICK n \in Nat : n = Len(bmarks) /\ n >= 1 /\ n \in 1 .. n
  BY Numbers
<1>2. bs.bmark = bmarks[n] - PTR
  BY <1>1 DEF IInv, BChainOK
<1>3. \A i \in 1 .. n : bmarks[i] - PTR \in Int /\ bmarks[i] - PTR > 0
  <2>1. bs.bptr \in Int /\ bs.bptr > 0 /\ PTR \in Int
    BY Facts
  <2>2. \A i \in 1 .. n : bmarks[i] \in Int /\ bs.bptr <= bmarks[i] - PTR
    BY <1>1, Facts
  <2> QED
    BY <2>1, <2>2
<1>4. bs.bmark # NULL
  BY <1>1, <1>2, <1>3 DEF NULL
<1>5. Deref(bs, bmarks[n] - PTR) = NULL
  BY <1>2, <1>4 DEF HasMark
<1>6. Deref(bs, bmarks[n] - PTR) = IF n = 1 THEN NULL ELSE bmarks[n - 1] - PTR
  <2>1. BChainOK(bmarks, n, bs)
    BY <1>1 DEF IInv
  <2> QED
    BY <1>1, <2>1, Zenon DEF BChainOK
<1>7. n # 1 => n - 1 \in 1 .. n
  BY <1>1
<1> QED
  BY <1>1, <1>3, <1>5, <1>6, <1>7 DEF NULL

\* An allocation charges its side, or finds too little free memory.
LEMMA AllocRefines ==
  ASSUME IInv, NEW n \in Requests, AllocF(n) \/ AllocB(n)
  PROVE  Arena!Alloc(n)
<1>1. n \in Int
  BY ArenaAssumption
<1>2. CASE ~CanAlloc(bs, n) /\ Throw("BISTACK_OUT_OF_MEMORY")
  <2>1. n > bistack_freemem(bs)
    BY <1>1, <1>2, Room, Numbers
  <2> QED
    BY <1>2, <2>1, ToThrow DEF Arena!Alloc
<1>3. CASE /\ CanAlloc(bs, n) /\ bs' = bistack_allocf(bs, n) /\ Return(bs.fptr)
           /\ UNCHANGED <<fmarks, bmarks, dirs>>
  <2>1. bs'.fptr = bs.fptr + n /\ bs'.bptr = bs.bptr
    BY <1>3, Numbers DEF bistack_allocf, ArenaRec
  <2>2. FScopes' = Arena!Charge(FScopes, n)
    BY <1>1, <1>3, <2>1, UsedCharge, Numbers DEF FScopes
  <2>3. BScopes' = BScopes
    BY <1>3, <2>1 DEF BScopes
  <2>4. n <= bistack_freemem(bs) /\ bistack_freemem(bs)' = bistack_freemem(bs) - n
    BY <1>1, <1>3, <2>1, Room, Numbers
  <2> QED
    BY <1>3, <2>2, <2>3, <2>4, ToAlloc DEF OneSide, Return
<1>4. CASE /\ CanAlloc(bs, n) /\ bs' = bistack_allocb(bs, n) /\ Return(bs.bptr - n)
           /\ UNCHANGED <<fmarks, bmarks, dirs>>
  <2>1. bs'.bptr = bs.bptr - n /\ bs'.fptr = bs.fptr
    BY <1>4, Numbers DEF bistack_allocb, ArenaRec
  <2>2. BScopes' = Arena!Charge(BScopes, n)
    <3>1. -bs'.bptr = (-bs.bptr) + n
      BY <1>1, <2>1, Numbers
    <3>2. Used(Neg(bmarks), (-bs.bptr) + n) = Arena!Charge(BScopes, n)
      BY <1>1, UsedCharge, Numbers DEF BScopes
    <3> QED
      BY <1>4, <3>1, <3>2 DEF BScopes
  <2>3. FScopes' = FScopes
    BY <1>4, <2>1 DEF FScopes
  <2>4. n <= bistack_freemem(bs) /\ bistack_freemem(bs)' = bistack_freemem(bs) - n
    BY <1>1, <1>4, <2>1, Room, Numbers
  <2> QED
    BY <1>4, <2>2, <2>3, <2>4, ToAlloc DEF OneSide, Return
<1> QED
  BY <1>2, <1>3, <1>4 DEF AllocF, AllocB

\* A mark opens a scope of one word, or finds no room for it.
LEMMA MarkRefines ==
  ASSUME IInv, MarkF \/ MarkB
  PROVE  Arena!Mark
<1>1. CASE ~CanAlloc(bs, PTR) /\ Throw("BISTACK_OUT_OF_MEMORY")
  <2>1. PTR > bistack_freemem(bs)
    BY <1>1, Room, Numbers
  <2> QED
    BY <1>1, <2>1, ToThrow DEF Arena!Mark
<1>2. CASE /\ CanAlloc(bs, PTR) /\ bs' = bistack_markf(bs) /\ Return(bs.fptr)
           /\ fmarks' = Append(fmarks, bs.fptr) /\ UNCHANGED bmarks
  <2>1. bs'.fptr = bs.fptr + PTR /\ bs'.bptr = bs.bptr
    BY ZenonT(60), <1>2, Numbers, MarkFFields
  <2>2. FScopes' = Append(FScopes, PTR)
    <3>1. Used(Append(fmarks, bs.fptr), bs.fptr + PTR) = Append(FScopes, PTR)
      BY UsedAppend, Numbers DEF FScopes
    <3> QED
      BY <1>2, <2>1, <3>1 DEF FScopes
  <2>3. BScopes' = BScopes
    BY <1>2, <2>1 DEF BScopes
  <2>4. PTR <= bistack_freemem(bs) /\ bistack_freemem(bs)' = bistack_freemem(bs) - PTR
    BY <1>2, <2>1, Room, Numbers
  <2> QED
    BY <1>2, <2>2, <2>3, <2>4, ToMark DEF OneSide, Return
<1>3. CASE /\ CanAlloc(bs, PTR) /\ bs' = bistack_markb(bs) /\ Return(bs.bptr)
           /\ bmarks' = Append(bmarks, bs.bptr) /\ UNCHANGED fmarks
  <2>1. bs'.bptr = bs.bptr - PTR /\ bs'.fptr = bs.fptr
    BY ZenonT(60), <1>3, Numbers, MarkBFields
  <2>2. BScopes' = Append(BScopes, PTR)
    <3>1. -bs'.bptr = (-bs.bptr) + PTR
      BY <2>1, Numbers
    <3>2. Neg(bmarks') = Append(Neg(bmarks), -bs.bptr)
      BY <1>3, NegAppend, Numbers
    <3>3. Used(Append(Neg(bmarks), -bs.bptr), (-bs.bptr) + PTR) = Append(BScopes, PTR)
      BY UsedAppend, Numbers DEF BScopes
    <3> QED
      BY <3>1, <3>2, <3>3 DEF BScopes
  <2>3. FScopes' = FScopes
    BY <1>3, <2>1 DEF FScopes
  <2>4. PTR <= bistack_freemem(bs) /\ bistack_freemem(bs)' = bistack_freemem(bs) - PTR
    BY <1>3, <2>1, Room, Numbers
  <2> QED
    BY <1>3, <2>2, <2>3, <2>4, ToMark DEF OneSide, Return
<1> QED
  BY <1>1, <1>2, <1>3 DEF MarkF, MarkB

\* A rewind frees exactly what the last scope of its side was charged.
LEMMA RewindRefines ==
  ASSUME IInv, RewindF \/ RewindB
  PROVE  Arena!Rewind
<1>1. CASE ~HasMark(bs, bs.fmark) /\ Throw("BISTACK_REWIND_TOO_FAR")
  <2>1. Len(Used(fmarks, bs.fptr)) = 1
    BY <1>1, OneMarkF, Numbers DEF FScopes
  <2> QED
    BY <1>1, <2>1, ToThrow DEF Arena!Rewind
<1>2. CASE ~HasMark(bs, bs.bmark) /\ Throw("BISTACK_REWIND_TOO_FAR")
  <2>1. Len(Used(Neg(bmarks), -bs.bptr)) = 1
    BY <1>2, OneMarkB, Numbers DEF BScopes
  <2> QED
    BY <1>2, <2>1, ToThrow DEF Arena!Rewind
<1>3. CASE /\ HasMark(bs, bs.fmark) /\ bs' = bistack_rewindf(bs) /\ Return(bs'.fptr)
           /\ fmarks' = Pop(fmarks) /\ UNCHANGED bmarks
  <2>1. Len(fmarks) > 1 /\ bs.fmark = fmarks[Len(fmarks)]
    BY <1>3, TopMarkF
  <2>2. bs'.fptr = fmarks[Len(fmarks)] /\ bs'.bptr = bs.bptr
    BY ZenonT(60), <1>3, <2>1, Numbers, RewindFFields
  <2>3. /\ FScopes' = Arena!Outer(FScopes)
        /\ Arena!Innermost(FScopes) = bs.fptr - fmarks[Len(fmarks)]
        /\ fmarks[Len(fmarks)] \in Int
    BY <1>3, <2>1, <2>2, UsedPop, Numbers DEF FScopes
  <2>4. BScopes' = BScopes
    BY <1>3, <2>2 DEF BScopes
  <2>5. bistack_freemem(bs)' = bistack_freemem(bs) + Arena!Innermost(FScopes)
    BY <2>2, <2>3, Numbers DEF bistack_freemem
  <2>6. Len(FScopes) > 1
    BY <2>1, Numbers
  <2> QED
    BY <1>3, <2>3, <2>4, <2>5, <2>6, ToRewindF DEF Return
<1>4. CASE /\ HasMark(bs, bs.bmark) /\ bs' = bistack_rewindb(bs) /\ Return(bs'.bptr)
           /\ bmarks' = Pop(bmarks) /\ UNCHANGED fmarks
  <2>1. Len(bmarks) > 1 /\ bs.bmark = bmarks[Len(bmarks)] - PTR
    BY <1>4, TopMarkB
  <2>2. /\ Neg(Pop(bmarks)) = Pop(Neg(bmarks))
        /\ Neg(bmarks)[Len(bmarks)] = -bmarks[Len(bmarks)] /\ bmarks[Len(bmarks)] \in Int
    BY <2>1, NegPop, Numbers
  <2>3. bs'.bptr = bmarks[Len(bmarks)] /\ bs'.fptr = bs.fptr
    <3>1. bs'.bptr = bs.bmark + PTR /\ bs'.fptr = bs.fptr
      BY ZenonT(60), <1>4, Numbers, RewindBFields
    <3> QED
      BY <2>1, <2>2, <3>1, Numbers
  <2>4. PICK k \in Seq(Int) : k = Neg(bmarks) /\ Len(k) = Len(bmarks)
    BY Numbers
  <2>5. PICK t \in Int : t = -bs.bptr
    BY Numbers
  <2>6. /\ Used(Pop(k), k[Len(k)]) = Arena!Outer(Used(k, t))
        /\ Arena!Innermost(Used(k, t)) = t - k[Len(k)] /\ k[Len(k)] \in Int
    BY <2>1, <2>4, <2>5, UsedPop
  <2>7. BScopes = Used(k, t) /\ BScopes' = Used(Pop(k), k[Len(k)])
    BY <1>4, <2>2, <2>3, <2>4, <2>5 DEF BScopes
  <2>8. FScopes' = FScopes
    BY <1>4, <2>3 DEF FScopes
  <2>9. bistack_freemem(bs)' = bistack_freemem(bs) + Arena!Innermost(BScopes)
    <3>1. Arena!Innermost(BScopes) = -bs.bptr + bmarks[Len(bmarks)]
      BY <2>2, <2>4, <2>5, <2>6, <2>7
    <3>2. PICK e \in Int : e = bmarks[Len(bmarks)]
      BY <2>2
    <3>3. bs.bptr \in Int /\ bs.fptr \in Int
      BY Numbers
    <3> QED
      BY <2>3, <3>1, <3>2, <3>3 DEF bistack_freemem
  <2>10. Len(BScopes) > 1
    BY <2>1, Numbers
  <2> QED
    BY <1>4, <2>6, <2>7, <2>8, <2>9, <2>10, ToRewindB DEF Return
<1> QED
  BY <1>1, <1>2, <1>3, <1>4 DEF RewindF, RewindB

\* A dropped mark gives the bytes of its scope to the scope before it.
LEMMA DropMarkRefines ==
  ASSUME IInv, DropMarkF \/ DropMarkB
  PROVE  Arena!DropMark
<1>1. CASE ~HasMark(bs, bs.fmark) /\ Throw("BISTACK_DROPMARK_TOO_FAR")
  <2>1. Len(Used(fmarks, bs.fptr)) = 1
    BY <1>1, OneMarkF, Numbers DEF FScopes
  <2> QED
    BY <1>1, <2>1, ToThrow DEF Arena!DropMark
<1>2. CASE ~HasMark(bs, bs.bmark) /\ Throw("BISTACK_DROPMARK_TOO_FAR")
  <2>1. Len(Used(Neg(bmarks), -bs.bptr)) = 1
    BY <1>2, OneMarkB, Numbers DEF BScopes
  <2> QED
    BY <1>2, <2>1, ToThrow DEF Arena!DropMark
<1>3. CASE /\ HasMark(bs, bs.fmark) /\ bs' = bistack_dropmarkf(bs) /\ Return(bs.fmark)
           /\ fmarks' = Pop(fmarks) /\ UNCHANGED bmarks
  <2>1. Len(fmarks) > 1
    BY <1>3, TopMarkF
  <2>2. bs'.fptr = bs.fptr /\ bs'.bptr = bs.bptr
    BY ZenonT(60), <1>3, Numbers, DropFFields
  <2>3. FScopes' = Arena!Charge(Arena!Outer(FScopes), Arena!Innermost(FScopes))
    BY <1>3, <2>1, <2>2, UsedDrop, Numbers DEF FScopes
  <2>4. BScopes' = BScopes /\ bistack_freemem(bs)' = bistack_freemem(bs)
    BY <1>3, <2>2 DEF BScopes, bistack_freemem
  <2>5. Len(FScopes) > 1
    BY <2>1, Numbers
  <2> QED
    BY <1>3, <2>3, <2>4, <2>5, ToDropMark DEF Return
<1>4. CASE /\ HasMark(bs, bs.bmark) /\ bs' = bistack_dropmarkb(bs) /\ Return(bs.bmark)
           /\ bmarks' = Pop(bmarks) /\ UNCHANGED fmarks
  <2>1. Len(bmarks) > 1
    BY <1>4, TopMarkB
  <2>2. bs'.fptr = bs.fptr /\ bs'.bptr = bs.bptr
    BY ZenonT(60), <1>4, Numbers, DropBFields
  <2>3. BScopes' = Arena!Charge(Arena!Outer(BScopes), Arena!Innermost(BScopes))
    <3>1. Neg(bmarks') = Pop(Neg(bmarks))
      BY <1>4, <2>1, NegPop, Numbers
    <3>2. PICK k \in Seq(Int) : k = Neg(bmarks) /\ Len(k) > 1
      BY <2>1, Numbers
    <3>3. PICK t \in Int : t = -bs.bptr
      BY Numbers
    <3>4. Used(Pop(k), t)
            = Arena!Charge(Arena!Outer(Used(k, t)), Arena!Innermost(Used(k, t)))
      BY <3>2, <3>3, UsedDrop
    <3>5. BScopes = Used(k, t) /\ BScopes' = Used(Pop(k), t)
      BY <2>2, <3>1, <3>2, <3>3 DEF BScopes
    <3> QED
      BY <3>4, <3>5
  <2>4. FScopes' = FScopes /\ bistack_freemem(bs)' = bistack_freemem(bs)
    BY <1>4, <2>2 DEF FScopes, bistack_freemem
  <2>5. Len(BScopes) > 1
    BY <2>1, Numbers
  <2> QED
    BY <1>4, <2>3, <2>4, <2>5, ToDropMark DEF Return
<1> QED
  BY <1>1, <1>2, <1>3, <1>4 DEF DropMarkF, DropMarkB

\* Direction changes, bistack_zero and the client's writes move no scope.
LEMMA OtherRefines ==
  ASSUME IInv,
         \/ \E d \in {BS_FORWARD, BS_BACKWARD} : PushDir(d)
         \/ PopDir \/ Zero \/ \E b \in live : Fill(b)
  PROVE  Arena!Other
<1>1. CASE Throw("abort")
  BY <1>1, ToThrow DEF Arena!Throw, Arena!Other
<1>2. ASSUME NEW d \in {BS_FORWARD, BS_BACKWARD}, UNCHANGED <<fmarks, bmarks>>,
             bs' = bistack_pushdir(bs, d), Return(NULL)
      PROVE  Arena!Other
  BY <1>2, TopsKept, ToOther DEF Return
<1>3. CASE PopDir
  <2>1. bs' = bistack_popdir(bs) /\ BS_FORWARD \in {BS_FORWARD, BS_BACKWARD}
    BY <1>3 DEF PopDir
  <2> QED
    BY <1>3, <2>1, TopsKept, ToOther DEF PopDir, Return
<1>4. CASE Zero \/ \E b \in live : Fill(b)
  <2>1. \E lo, hi : bs' = [bs EXCEPT !.mem = Scrub(bs.mem, lo, hi)]
    BY <1>4 DEF Zero, Fill, bistack_zero
  <2>2. BS_FORWARD \in {BS_FORWARD, BS_BACKWARD}
    OBVIOUS
  <2>3. Return(NULL) /\ UNCHANGED <<fmarks, bmarks>>
    BY <1>4 DEF Zero, Fill, client
  <2> QED
    BY <2>1, <2>2, <2>3, TopsKept, ToOther DEF Return
<1> QED
  BY <1>1, <1>2, <1>3, <1>4 DEF PushDir

\* bistack_init charges each side with the word of its first mark.
LEMMA InitRefines ==
  ASSUME Init
  PROVE  Arena!Init
<1>1. IInv
  BY InitStep
<1>2. bs.fptr = HDR + PTR /\ bs.bptr = Size - PTR
  BY SizesAssumption, ArenaAssumption DEF Init, bistack_init, bistack_markf, bistack_markb
<1>3. /\ fmarks = <<HDR>> /\ bmarks = <<Size>> /\ thrown = "none"
      /\ HDR \in Int /\ PTR \in Int /\ Size \in Int
  BY SizesAssumption, ArenaAssumption DEF Init
<1>4. ASSUME NEW u \in Seq(Int), Len(u) = 1, u[1] = PTR PROVE u = <<PTR>>
  BY <1>3, <1>4
<1>5. Used(fmarks, bs.fptr) = <<PTR>>
  <2>1. PICK t \in Int : t = bs.fptr
    BY <1>1, Numbers
  <2>2. PICK m \in Seq(Int) : m = fmarks
    BY <1>1, Numbers
  <2>3. Len(m) = 1 /\ m[1] = HDR
    BY <1>3, <2>2
  <2>4. /\ Used(m, t) \in Seq(Int) /\ Len(Used(m, t)) = 1
        /\ Used(m, t)[1] = t - m[1]
    <3>1. /\ Used(m, t) \in Seq(Int) /\ Len(Used(m, t)) = 1
      BY <2>3, UsedIsSeq
    <3> QED
      BY <2>3, <3>1 DEF Used
  <2>5. t - m[1] = PTR
    BY <1>2, <1>3, <2>1, <2>3
  <2> QED
    BY <1>4, <2>1, <2>2, <2>4, <2>5
<1>6. Used(Neg(bmarks), -bs.bptr) = <<PTR>>
  <2>1. PICK t \in Int : t = -bs.bptr
    BY <1>1, Numbers
  <2>2. PICK m \in Seq(Int) : m = Neg(bmarks)
    BY <1>1, Numbers
  <2>3. Len(m) = 1 /\ m[1] = -Size
    BY <1>1, <1>3, <2>2, Numbers DEF Neg
  <2>4. /\ Used(m, t) \in Seq(Int) /\ Len(Used(m, t)) = 1
        /\ Used(m, t)[1] = t - m[1]
    <3>1. /\ Used(m, t) \in Seq(Int) /\ Len(Used(m, t)) = 1
      BY <2>3, UsedIsSeq
    <3> QED
      BY <2>3, <3>1 DEF Used
  <2>5. t - m[1] = PTR
    BY <1>2, <1>3, <2>1, <2>3
  <2> QED
    BY <1>4, <2>1, <2>2, <2>4, <2>5
<1>7. bistack_freemem(bs) = Size - HDR - 2 * PTR
  BY <1>2, <1>3 DEF bistack_freemem
<1> QED
  BY <1>3, <1>5, <1>6, <1>7 DEF Arena!Init

\* The arena implements two stacks of scopes over one budget of bytes.
THEOREM ImplementsScopes == Spec => ArenaSpec
<1>1. Init => Arena!Init
  BY InitRefines
<1>2. IInv /\ [Next]_vars => [Arena!Next]_(Arena!vars)
  <2>1. SUFFICES ASSUME IInv, [Next]_vars PROVE [Arena!Next]_(Arena!vars)
    OBVIOUS
  <2>2. CASE UNCHANGED vars
    BY <2>2 DEF vars, Arena!vars, bistack_freemem
  <2>3. ASSUME NEW n \in Requests, AllocF(n) \/ AllocB(n) \/ Alloc(n)
        PROVE  Arena!Next
    BY <2>1, <2>3, AllocRefines DEF Alloc, Arena!Next
  <2>4. CASE MarkF \/ MarkB \/ Mark
    BY <2>1, <2>4, MarkRefines DEF Mark, Arena!Next
  <2>5. CASE RewindF \/ RewindB \/ Rewind
    BY <2>1, <2>5, RewindRefines DEF Rewind, Arena!Next
  <2>6. CASE DropMarkF \/ DropMarkB \/ DropMark
    BY <2>1, <2>6, DropMarkRefines DEF DropMark, Arena!Next
  <2>7. CASE \/ \E d \in {BS_FORWARD, BS_BACKWARD} : PushDir(d)
             \/ PopDir \/ Zero \/ \E b \in live : Fill(b)
    BY <2>1, <2>7, OtherRefines DEF Arena!Next
  <2> QED
    BY <2>1, <2>2, <2>3, <2>4, <2>5, <2>6, <2>7 DEF Next
<1> QED
  BY <1>1, <1>2, Invariance, PTL DEF Spec, ArenaSpec, Arena!Spec

-----------------------------------------------------------------------------
(* The HEAP, from which the BISTACK was made, is an arena of which one end *)
(* is used.  Its marks lie in the memory they mark, and those of scopes    *)
(* that were rewound stay there until memory is given out again, so the    *)
(* chain that is followed from lastmark has to be told from what lies      *)
(* above it.                                                               *)

CONSTANTS HeapSize, MARK, HeapRequests
VARIABLES ptr, lastmark, marks, aborted

H == INSTANCE Heap WITH Size <- HeapSize, Requests <- HeapRequests

\* What the HEAP takes for granted of its sizes.
HeapSizes == HeapSize \in Nat /\ MARK \in Nat \ {0} /\ HeapRequests \subseteq Nat

Before(q, i) == IF i = 0 THEN -1 ELSE q[i]

\* Every mark in memory, in use or not, leads to one below it, so that the
\* chain from any of them ends.
LeadsDown(mk) ==
  \A a \in DOMAIN mk : a \in Nat /\ a < HeapSize /\ mk[a].next \in Int /\ mk[a].next < a

\* q are the addresses of the marks in use, the first mark first.
InUse(q, pt, lm, mk) ==
  /\ q \in Seq(Nat) /\ pt \in Nat /\ pt <= HeapSize /\ lm = Before(q, Len(q))
  /\ \A i \in 1 .. Len(q) :
       /\ q[i] \in DOMAIN mk /\ mk[q[i]].ptr = q[i] /\ mk[q[i]].next = Before(q, i - 1)
       /\ q[i] + MARK <= pt /\ (i < Len(q) => q[i] + MARK <= q[i + 1])

HeapInv ==
  /\ aborted \in BOOLEAN /\ LeadsDown(marks)
  /\ \E q : InUse(q, ptr, lastmark, marks)

\* The chain that Back follows, in memory mk.
LedFrom(mk, f) ==
  \A a \in Int : f[a] = IF a \notin DOMAIN mk THEN <<>> ELSE <<a>> \o f[mk[a].next]

BackIn(mk, m) ==
  LET on[a \in Int] == IF a \notin DOMAIN mk THEN <<>> ELSE <<a>> \o on[mk[a].next]
  IN on[m]

\* The scopes that Scopes makes of it.
ScopesIn(mk, lm, pt) ==
  LET from == <<0>> \o Reverse(BackIn(mk, lm)) \o <<pt>>
  IN [i \in 1 .. Len(from) - 1 |-> from[i + 1] - from[i] + IF i = 1 THEN MARK ELSE 0]

\* A set of numbers that is not empty has a least one.
LEMMA NatMinimum ==
  ASSUME NEW T, T \subseteq Nat, T # {}
  PROVE  \E n \in T : \A m \in T : n <= m
<1> DEFINE U == {1 .. n : n \in T}
<1>1. IsWellFoundedOn(StrictSubsetOrdering(Nat), FiniteSubsetsOf(Nat))
  BY FS_StrictSubsetOrderingWellFounded
<1>2. \A n \in T : IsFiniteSet(1 .. n) /\ 1 .. n \in SUBSET Nat
  BY FS_Interval
<1>3. U \subseteq FiniteSubsetsOf(Nat) /\ U # {}
  BY <1>2 DEF FiniteSubsetsOf
<1>4. PICK x \in U : \A y \in U : ~ (<<y, x>> \in StrictSubsetOrdering(Nat))
  BY <1>1, <1>3, WFMin
<1>5. PICK n \in T : x = 1 .. n
  OBVIOUS
<1>6. ASSUME NEW m \in T, m < n PROVE FALSE
  <2>1. 1 .. m \in U /\ 1 .. m \subseteq 1 .. n /\ n \in 1 .. n /\ n \notin 1 .. m
    BY <1>6
  <2>2. <<1 .. m, 1 .. n>> \in StrictSubsetOrdering(Nat)
    BY <2>1, <1>2 DEF StrictSubsetOrdering
  <2> QED
    BY <1>4, <1>5, <2>1, <2>2
<1> QED
  BY <1>6

\* The chain that leads on from the marks below n.
LedBelow(mk, n, f) ==
  \A a \in Int : f[a] = IF a \notin DOMAIN mk \/ a >= n THEN <<>> ELSE <<a>> \o f[mk[a].next]

\* One more mark can be followed.
LEMMA LedOneMore ==
  ASSUME NEW mk, LeadsDown(mk), NEW n \in Nat,
         NEW f \in [Int -> Seq(Int)], LedBelow(mk, n, f)
  PROVE  \E g \in [Int -> Seq(Int)] : LedBelow(mk, n + 1, g)
<1>1. PICK s \in Seq(Int) : s = IF n \notin DOMAIN mk THEN <<>> ELSE <<n>> \o f[mk[n].next]
  <2>1. CASE n \notin DOMAIN mk
    BY <2>1, EmptySeq
  <2>2. CASE n \in DOMAIN mk
    <3>1. f[mk[n].next] \in Seq(Int) /\ <<n>> \in Seq(Int)
      BY <2>2 DEF LeadsDown
    <3>2. <<n>> \o f[mk[n].next] \in Seq(Int)
      BY <3>1, ConcatProperties
    <3> QED
      BY <2>2, <3>2
  <2> QED
    BY <2>1, <2>2
<1>2. PICK g : g = [f EXCEPT ![n] = s]
  OBVIOUS
<1>3. g \in [Int -> Seq(Int)] /\ g[n] = s /\ \A a \in Int : a # n => g[a] = f[a]
  BY <1>2
<1>4. ASSUME NEW a \in Int
      PROVE  g[a] = IF a \notin DOMAIN mk \/ a >= n + 1 THEN <<>> ELSE <<a>> \o g[mk[a].next]
  <2>1. CASE a \notin DOMAIN mk
    <3>1. a = n => g[a] = <<>>
      BY <1>1, <1>3, <2>1
    <3>2. a # n => g[a] = <<>>
      BY <1>3, <2>1 DEF LedBelow
    <3> QED
      BY <2>1, <3>1, <3>2
  <2>2. CASE a \in DOMAIN mk /\ a >= n + 1
    <3>1. a # n /\ a >= n
      BY <2>2
    <3> QED
      BY <1>3, <2>2, <3>1 DEF LedBelow
  <2>3. CASE a \in DOMAIN mk /\ a = n
    <3>1. mk[n].next \in Int /\ mk[n].next # n /\ ~ (a >= n + 1)
      BY <2>3 DEF LeadsDown
    <3>2. g[mk[n].next] = f[mk[n].next]
      BY <1>3, <3>1
    <3> QED
      BY <1>1, <1>3, <2>3, <3>1, <3>2
  <2>4. CASE a \in DOMAIN mk /\ a < n
    <3>1. mk[a].next \in Int /\ mk[a].next < a
      BY <2>4 DEF LeadsDown
    <3>2. mk[a].next # n /\ a # n /\ ~ (a >= n) /\ ~ (a >= n + 1)
      BY <2>4, <3>1
    <3>3. g[mk[a].next] = f[mk[a].next] /\ g[a] = f[a]
      BY <1>3, <3>1, <3>2
    <3>4. f[a] = <<a>> \o f[mk[a].next]
      BY <2>4, <3>2 DEF LedBelow
    <3> QED
      BY <2>4, <3>2, <3>3, <3>4
  <2> QED
    BY <2>1, <2>2, <2>3, <2>4
<1> QED
  BY <1>3, <1>4 DEF LedBelow

\* So every chain of marks can be followed to its end.
LEMMA LedExists ==
  ASSUME NEW mk, LeadsDown(mk), HeapSize \in Nat
  PROVE  \E f \in [Int -> Seq(Int)] : LedFrom(mk, f)
<1> DEFINE Good(n) == \E f \in [Int -> Seq(Int)] : LedBelow(mk, n, f)
           Bad == {n \in Nat : ~ Good(n)}
<1>1. Good(0)
  <2>1. PICK f : f = [a \in Int |-> <<>>]
    OBVIOUS
  <2>2. f \in [Int -> Seq(Int)] /\ \A a \in Int : f[a] = <<>>
    BY <2>1
  <2>3. \A a \in Int : a \in DOMAIN mk => a >= 0
    BY DEF LeadsDown
  <2> QED
    BY <2>2, <2>3 DEF LedBelow
<1>2. Bad = {}
  <2>1. SUFFICES ASSUME Bad # {} PROVE FALSE
    OBVIOUS
  <2>2. PICK n \in Bad : \A m \in Bad : n <= m
    <3>1. Bad \subseteq Nat
      OBVIOUS
    <3> HIDE DEF Bad
    <3> QED
      BY <2>1, <3>1, NatMinimum
  <2>3. n \in Nat /\ ~ Good(n) /\ n # 0
    BY <1>1, <2>2
  <2>4. PICK k \in Nat : n = k + 1
    BY <2>3
  <2>5. Good(k)
    <3>1. ~ (n <= k)
      BY <2>4
    <3>2. k \notin Bad
      BY <2>2, <3>1
    <3> HIDE DEF Good
    <3> QED
      BY <3>2
  <2>6. Good(k + 1)
    BY <2>5, LedOneMore
  <2> QED
    BY <2>3, <2>4, <2>6
<1>3. PICK f \in [Int -> Seq(Int)] : LedBelow(mk, HeapSize, f)
  BY <1>2
<1>4. \A a \in Int : a \in DOMAIN mk => ~ (a >= HeapSize)
  BY DEF LeadsDown
<1> QED
  BY <1>3, <1>4 DEF LedBelow, LedFrom

\* And Back follows it.
LEMMA BackLeads ==
  ASSUME NEW mk, LeadsDown(mk), HeapSize \in Nat
  PROVE  \E f : LedFrom(mk, f) /\ \A m \in Int : BackIn(mk, m) = f[m]
<1> DEFINE P(g) == g = [a \in Int |-> IF a \notin DOMAIN mk THEN <<>> ELSE <<a>> \o g[mk[a].next]]
<1>1. PICK e \in [Int -> Seq(Int)] : LedFrom(mk, e)
  BY LedExists
<1>2. P(e)
  BY <1>1 DEF LedFrom
<1>3. PICK f : f = CHOOSE g : P(g)
  OBVIOUS
<1>4. P(f)
  <2> HIDE DEF P
  <2> QED
    BY <1>2, <1>3
<1>5. LedFrom(mk, f)
  BY <1>4 DEF LedFrom
<1>6. \A m \in Int : BackIn(mk, m) = f[m]
  BY <1>3 DEF BackIn
<1> QED
  BY <1>5, <1>6


\* From the i-th mark in use the chain leads over those before it.
LEMMA BackIsInUse ==
  ASSUME NEW q, NEW pt, NEW lm, NEW mk, InUse(q, pt, lm, mk), LeadsDown(mk), HeapSize \in Nat
  PROVE  Reverse(BackIn(mk, lm)) = q
<1>1. PICK f : LedFrom(mk, f) /\ \A m \in Int : BackIn(mk, m) = f[m]
  BY BackLeads
<1>2. PICK n \in Nat : n = Len(q)
  BY DEF InUse
<1>3. \A i \in 1 .. n : q[i] \in Nat /\ q[i] \in DOMAIN mk /\ mk[q[i]].next = Before(q, i - 1)
  BY <1>2 DEF InUse
<1> DEFINE Down(i) == [j \in 1 .. i |-> q[(i - j) + 1]]
           Bad == {i \in 0 .. n : f[Before(q, i)] # Down(i)}
<1>4. \A i \in 0 .. n : /\ Down(i) \in Seq(Nat) /\ Len(Down(i)) = i
                        /\ \A j \in 1 .. i : Down(i)[j] = q[(i - j) + 1]
  <2>1. ASSUME NEW i \in 0 .. n PROVE Down(i) \in [1 .. i -> Nat]
    <3>1. \A j \in 1 .. i : (i - j) + 1 \in 1 .. n
      OBVIOUS
    <3> QED
      BY <1>3, <3>1
  <2>2. ASSUME NEW i \in 0 .. n PROVE Down(i) \in Seq(Nat) /\ Len(Down(i)) = i
    <3>1. Down(i) \in [1 .. i -> Nat] /\ i \in Nat
      BY <2>1
    <3> QED
      BY <3>1
  <2> QED
    BY <2>2
<1>a. Down(0) = <<>>
  OBVIOUS
<1> HIDE DEF Down
<1>5. f[Before(q, 0)] = Down(0)
  <2>1. PICK z \in Int : z = -1
    OBVIOUS
  <2>2. z \notin DOMAIN mk
    BY <2>1 DEF LeadsDown
  <2>3. f[z] = <<>>
    BY <1>1, <2>2 DEF LedFrom
  <2> QED
    BY <1>a, <2>1, <2>3 DEF Before
<1>6. ASSUME NEW i \in 1 .. n, f[Before(q, i - 1)] = Down(i - 1) PROVE f[Before(q, i)] = Down(i)
  <2>1. PICK a \in Nat : a = q[i] /\ a = Before(q, i)
    BY <1>3 DEF Before
  <2>2. f[a] = <<a>> \o Down(i - 1)
    <3>1. a \in DOMAIN mk /\ mk[a].next = Before(q, i - 1)
      BY <1>3, <2>1
    <3>2. a \in Int
      OBVIOUS
    <3>3. f[a] = <<a>> \o f[mk[a].next]
      BY <1>1, <3>1, <3>2 DEF LedFrom
    <3> QED
      BY <1>6, <3>1, <3>3
  <2>3. PICK k \in 0 .. n : k = i - 1
    OBVIOUS
  <2>4. PICK d : d = Down(k)
    OBVIOUS
  <2>5. d \in Seq(Nat) /\ Len(d) = k /\ \A j \in 1 .. k : d[j] = q[(k - j) + 1]
    BY <1>4, <2>4
  <2>6. PICK u : u = <<a>> \o d
    OBVIOUS
  <2>7. /\ u \in Seq(Nat) /\ Len(u) = 1 + k
        /\ \A j \in 1 .. 1 + k : u[j] = IF j <= 1 THEN a ELSE d[j - 1]
    <3>1. <<a>> \in Seq(Nat) /\ Len(<<a>>) = 1 /\ <<a>>[1] = a
      OBVIOUS
    <3>2. /\ u \in Seq(Nat) /\ Len(u) = 1 + k
          /\ \A j \in 1 .. 1 + k : u[j] = IF j <= 1 THEN <<a>>[j] ELSE d[j - 1]
      BY <2>5, <2>6, <3>1, ConcatProperties
    <3>3. \A j \in 1 .. 1 + k : j <= 1 => j = 1
      OBVIOUS
    <3> QED
      BY <3>1, <3>2, <3>3
  <2>8. PICK e : e = Down(i)
    OBVIOUS
  <2>9. e \in Seq(Nat) /\ Len(e) = i /\ \A j \in 1 .. i : e[j] = q[(i - j) + 1]
    <3>1. i \in 0 .. n
      OBVIOUS
    <3> QED
      BY <1>4, <2>8, <3>1
  <2>10. ASSUME NEW j \in 1 .. i PROVE u[j] = e[j]
    <3>1. CASE j = 1
      <4>1. u[1] = a /\ e[1] = q[(i - 1) + 1] /\ (i - 1) + 1 = i
        BY <2>3, <2>7, <2>9
      <4> QED
        BY <2>1, <3>1, <4>1
    <3>2. CASE j # 1
      <4>1. j - 1 \in 1 .. k /\ (k - (j - 1)) + 1 = (i - j) + 1 /\ j \in 1 .. 1 + k /\ ~ (j <= 1)
        BY <2>3, <3>2
      <4>2. u[j] = d[j - 1]
        BY <2>7, <4>1
      <4> QED
        BY <2>5, <2>9, <4>1, <4>2
    <3> QED
      BY <3>1, <3>2
  <2>11. u = e
    <3>1. Len(u) = Len(e) /\ Len(u) = i
      BY <2>3, <2>7, <2>9
    <3> QED
      BY <2>7, <2>9, <2>10, <3>1, SeqEqual
  <2> QED
    BY <2>1, <2>2, <2>3, <2>4, <2>6, <2>8, <2>11
<1>7. Bad = {}
  <2>1. SUFFICES ASSUME Bad # {} PROVE FALSE
    OBVIOUS
  <2>2. PICK i \in Bad : \A m \in Bad : i <= m
    <3>1. Bad \subseteq Nat
      OBVIOUS
    <3> HIDE DEF Bad
    <3> QED
      BY <2>1, <3>1, NatMinimum
  <2>3. i \in 0 .. n /\ f[Before(q, i)] # Down(i) /\ i # 0
    BY <1>5, <2>2
  <2>4. i \in 1 .. n /\ i - 1 \in 0 .. n /\ ~ (i <= i - 1)
    BY <2>3
  <2>5. f[Before(q, i - 1)] = Down(i - 1)
    BY <2>2, <2>4
  <2> QED
    BY <1>6, <2>3, <2>4, <2>5
<1>8. f[Before(q, n)] = Down(n)
  BY <1>7
<1>9. BackIn(mk, lm) = Down(n)
  <2>1. lm = Before(q, n) /\ lm \in Int
    BY <1>2, <1>3 DEF InUse, Before
  <2> QED
    BY <1>1, <1>8, <2>1
<1>10. PICK d : d = Down(n)
  OBVIOUS
<1>11. d \in Seq(Nat) /\ Len(d) = n /\ \A j \in 1 .. n : d[j] = q[(n - j) + 1]
  <2>1. n \in 0 .. n
    OBVIOUS
  <2> QED
    BY <1>4, <1>10, <2>1
<1>12. PICK r : r = Reverse(d)
  OBVIOUS
<1>13. r = [j \in 1 .. n |-> d[(n - j) + 1]]
  BY <1>11, <1>12 DEF Reverse
<1>14. \A j \in 1 .. n : (n - j) + 1 \in 1 .. n /\ (n - ((n - j) + 1)) + 1 = j
  OBVIOUS
<1>15. \A j \in 1 .. n : r[j] = q[j]
  <2>1. ASSUME NEW j \in 1 .. n PROVE r[j] = q[j]
    <3>1. r[j] = d[(n - j) + 1]
      BY <1>13
    <3>2. d[(n - j) + 1] = q[(n - ((n - j) + 1)) + 1]
      BY <1>11, <1>14
    <3> QED
      BY <1>14, <3>1, <3>2
  <2> QED
    BY <2>1
<1>16. q \in Seq(Nat) /\ r \in Seq(Nat) /\ Len(r) = n
  <2>1. q \in Seq(Nat)
    BY DEF InUse
  <2>2. r \in [1 .. n -> Nat]
    BY <1>3, <1>13, <1>15
  <2> QED
    BY <2>1, <2>2
<1>17. r = q
  BY <1>2, <1>15, <1>16, SeqEqual
<1> QED
  BY <1>9, <1>10, <1>12, <1>17

\* The marks with one below the memory, at which the first scope begins.
Marks(q) == <<-MARK>> \o q

\* What that sequence is.
LEMMA MarksSeq ==
  ASSUME NEW q \in Seq(Nat), NEW n, n = Len(q), MARK \in Nat
  PROVE  /\ Marks(q) \in Seq(Int) /\ Len(Marks(q)) = n + 1 /\ n \in Nat
         /\ Marks(q)[1] = -MARK /\ \A i \in 1 .. n : Marks(q)[i + 1] = q[i]
<1>1. PICK s \in Seq(Int) : s = <<-MARK>> /\ Len(s) = 1 /\ s[1] = -MARK
  <2>1. <<-MARK>> \in Seq(Int) /\ Len(<<-MARK>>) = 1 /\ <<-MARK>>[1] = -MARK
    OBVIOUS
  <2> QED
    BY <2>1
<1>2. q \in Seq(Int) /\ n \in Nat
  OBVIOUS
<1>3. PICK u : u = s \o q
  OBVIOUS
<1>4. /\ u \in Seq(Int) /\ Len(u) = 1 + n
      /\ \A i \in 1 .. 1 + n : u[i] = IF i <= 1 THEN s[i] ELSE q[i - 1]
  BY <1>1, <1>2, <1>3, ConcatProperties
<1>5. u[1] = -MARK
  BY <1>1, <1>2, <1>4
<1>6. ASSUME NEW i \in 1 .. n PROVE u[i + 1] = q[i]
  <2>1. i + 1 \in 1 .. 1 + n /\ ~ (i + 1 <= 1) /\ (i + 1) - 1 = i
    BY <1>2
  <2> QED
    BY <1>4, <2>1
<1>7. Marks(q) = u /\ 1 + n = n + 1
  BY <1>1, <1>2, <1>3 DEF Marks
<1> QED
  BY <1>2, <1>4, <1>5, <1>6, <1>7

\* So the scopes are what lies between neighbouring marks.
LEMMA HeapScopes ==
  ASSUME NEW q, NEW pt, NEW lm, NEW mk, InUse(q, pt, lm, mk), LeadsDown(mk), HeapSizes
  PROVE  ScopesIn(mk, lm, pt) = Used(Marks(q), pt)
<1>0. HeapSize \in Nat /\ MARK \in Nat /\ pt \in Nat /\ q \in Seq(Nat)
  BY DEF HeapSizes, InUse
<1>1. PICK n \in Nat : n = Len(q)
  BY <1>0
<1>2. PICK m : m = Marks(q)
  OBVIOUS
<1>3. m \in Seq(Int) /\ Len(m) = n + 1 /\ m[1] = -MARK /\ \A i \in 1 .. n : m[i + 1] = q[i]
  BY <1>0, <1>1, <1>2, MarksSeq
<1>4. PICK v : v = <<0>> \o q
  OBVIOUS
<1>5. /\ v \in Seq(Nat) /\ Len(v) = 1 + n
      /\ v[1] = 0 /\ \A i \in 1 .. n : v[i + 1] = q[i]
  <2>1. PICK z \in Seq(Nat) : z = <<0>> /\ Len(z) = 1 /\ z[1] = 0
    <3>1. <<0>> \in Seq(Nat) /\ Len(<<0>>) = 1 /\ <<0>>[1] = 0
      OBVIOUS
    <3> QED
      BY <3>1
  <2>2. v = z \o q
    BY <1>4, <2>1
  <2>3. /\ v \in Seq(Nat) /\ Len(v) = 1 + n
        /\ \A i \in 1 .. 1 + n : v[i] = IF i <= 1 THEN z[i] ELSE q[i - 1]
    BY <1>0, <1>1, <2>1, <2>2, ConcatProperties
  <2>4. v[1] = 0
    BY <2>1, <2>3
  <2>5. ASSUME NEW i \in 1 .. n PROVE v[i + 1] = q[i]
    <3>1. i + 1 \in 1 .. 1 + n /\ ~ (i + 1 <= 1) /\ (i + 1) - 1 = i
      OBVIOUS
    <3> QED
      BY <2>3, <3>1
  <2> QED
    BY <2>3, <2>4, <2>5
<1>6. PICK w : w = v \o <<pt>>
  OBVIOUS
<1>7. /\ w \in Seq(Nat) /\ Len(w) = n + 2
      /\ w[n + 2] = pt /\ \A i \in 1 .. n + 1 : w[i] = v[i]
  <2>1. PICK z \in Seq(Nat) : z = <<pt>> /\ Len(z) = 1 /\ z[1] = pt
    <3>1. <<pt>> \in Seq(Nat) /\ Len(<<pt>>) = 1 /\ <<pt>>[1] = pt
      BY <1>0
    <3> QED
      BY <3>1
  <2>2. w = v \o z
    BY <1>6, <2>1
  <2>3. /\ w \in Seq(Nat) /\ Len(w) = (1 + n) + 1
        /\ \A i \in 1 .. (1 + n) + 1 : w[i] = IF i <= 1 + n THEN v[i] ELSE z[i - (1 + n)]
    BY <1>5, <2>1, <2>2, ConcatProperties
  <2>4. (1 + n) + 1 = n + 2 /\ 1 + n = n + 1 /\ (n + 2) - (1 + n) = 1 /\ n + 2 \in 1 .. (1 + n) + 1
    OBVIOUS
  <2>5. w[n + 2] = z[1]
    BY <2>3, <2>4
  <2>6. \A i \in 1 .. n + 1 : i \in 1 .. (1 + n) + 1 /\ i <= 1 + n
    OBVIOUS
  <2> QED
    BY <2>1, <2>3, <2>4, <2>5, <2>6
<1>8. ScopesIn(mk, lm, pt) =
        [i \in 1 .. n + 1 |-> w[i + 1] - w[i] + IF i = 1 THEN MARK ELSE 0]
  <2>1. Reverse(BackIn(mk, lm)) = q
    BY <1>0, BackIsInUse
  <2>2. (<<0>> \o q) \o <<pt>> = w
    BY <1>4, <1>6
  <2>3. Len(w) - 1 = n + 1
    BY <1>7
  <2> QED
    BY <2>1, <2>2, <2>3 DEF ScopesIn
<1>9. Used(m, pt) = [i \in 1 .. n + 1 |-> IF i < n + 1 THEN m[i + 1] - m[i] ELSE pt - m[i]]
  BY <1>3 DEF Used
<1>10. ASSUME NEW i \in 1 .. n + 1
       PROVE  w[i + 1] - w[i] + (IF i = 1 THEN MARK ELSE 0)
                = IF i < n + 1 THEN m[i + 1] - m[i] ELSE pt - m[i]
  <2>1. \A j \in 1 .. n : q[j] \in Nat
    BY <1>0, <1>1
  <2>2. w[i] + (IF i = 1 THEN -MARK ELSE 0) = m[i] /\ w[i] \in Nat
    <3>1. CASE i = 1
      <4>1. w[1] = 0 /\ m[1] = -MARK
        BY <1>3, <1>5, <1>7
      <4> QED
        BY <1>0, <3>1, <4>1
    <3>2. CASE i # 1
      <4>1. PICK j \in 1 .. n : i = j + 1
        BY <3>2
      <4>2. w[i] = q[j] /\ m[i] = q[j] /\ q[j] \in Nat
        BY <1>3, <1>5, <1>7, <2>1, <4>1
      <4> QED
        BY <3>2, <4>2
    <3> QED
      BY <3>1, <3>2
  <2>3. CASE i < n + 1
    <3>1. i \in 1 .. n /\ i + 1 \in 1 .. n + 1
      BY <2>3
    <3>2. w[i + 1] = q[i] /\ m[i + 1] = q[i] /\ q[i] \in Nat
      BY <1>3, <1>5, <1>7, <2>1, <3>1
    <3> QED
      BY <1>0, <2>2, <2>3, <3>2
  <2>4. CASE i = n + 1
    <3>1. w[i + 1] = pt
      <4>1. i + 1 = n + 2
        BY <2>4
      <4> QED
        BY <1>7, <4>1
    <3> QED
      BY <1>0, <2>2, <2>4, <3>1
  <2> QED
    BY <2>3, <2>4
<1> QED
  BY <1>2, <1>8, <1>9, <1>10


\* The same of the state that is and of the one after it.
LEMMA ScopesNow ==
  /\ H!Scopes = ScopesIn(marks, lastmark, ptr)
  /\ H!Scopes' = ScopesIn(marks', lastmark', ptr')
<1>1. H!Scopes = ScopesIn(marks, lastmark, ptr)
  <2>1. H!Back(lastmark) = BackIn(marks, lastmark)
    BY DEF H!Back, BackIn
  <2>2. H!Reverse(BackIn(marks, lastmark)) = Reverse(BackIn(marks, lastmark))
    BY DEF H!Reverse, Reverse
  <2> QED
    BY <2>1, <2>2 DEF H!Scopes, ScopesIn
<1>2. H!Scopes' = ScopesIn(marks', lastmark', ptr')
  <2>1. H!Back(lastmark)' = BackIn(marks', lastmark')
    BY DEF H!Back, BackIn
  <2>2. H!Reverse(BackIn(marks', lastmark')) = Reverse(BackIn(marks', lastmark'))
    BY DEF H!Reverse, Reverse
  <2> QED
    BY <2>1, <2>2 DEF H!Scopes, ScopesIn
<1> QED
  BY <1>1, <1>2

\* What ScopedArena may do, told of the one end.
LEMMA HeapAllocates ==
  ASSUME NEW n \in HeapRequests, n <= HeapSize - ptr, HeapSize - ptr' = (HeapSize - ptr) - n,
         H!Scopes' = Arena!Charge(H!Scopes, n), ~ aborted'
  PROVE  H!Abstract!Next
<1>1. H!Abstract!Alloc(n)
  BY DEF H!Abstract!Alloc, H!Abstract!OnOneSide, H!Abstract!Charge, Arena!Charge
<1> QED
  BY <1>1 DEF H!Abstract!Next

LEMMA HeapMarks ==
  ASSUME MARK <= HeapSize - ptr, HeapSize - ptr' = (HeapSize - ptr) - MARK,
         H!Scopes' = Append(H!Scopes, MARK), ~ aborted'
  PROVE  H!Abstract!Next
<1>1. H!Abstract!Mark
  BY DEF H!Abstract!Mark, H!Abstract!OnOneSide
<1> QED
  BY <1>1 DEF H!Abstract!Next

LEMMA HeapRewinds ==
  ASSUME Len(H!Scopes) > 1, H!Scopes' = Arena!Outer(H!Scopes),
         HeapSize - ptr' = (HeapSize - ptr) + Arena!Innermost(H!Scopes), ~ aborted'
  PROVE  H!Abstract!Next
<1>1. H!Abstract!Rewind
  BY DEF H!Abstract!Rewind, H!Abstract!OnOneSide, H!Abstract!Outer, H!Abstract!Innermost,
         Arena!Outer, Arena!Innermost
<1> QED
  BY <1>1 DEF H!Abstract!Next

\* A failed assert leaves the memory as it is.
LEMMA HeapAborts ==
  ASSUME HeapInv, H!Abort
  PROVE  HeapInv' /\ H!Abstract!Next
<1>1. aborted' = TRUE /\ ptr' = ptr /\ lastmark' = lastmark /\ marks' = marks
  BY DEF H!Abort
<1>2. HeapInv'
  BY <1>1 DEF HeapInv, InUse, LeadsDown
<1>3. H!Scopes' = H!Scopes
  BY <1>1, ScopesNow
<1>4. H!Abstract!Other
  BY <1>1, <1>3 DEF H!Abstract!Other
<1> QED
  BY <1>2, <1>4 DEF H!Abstract!Next

\* Marks in use outlive what happens above them.
LEMMA InUseKept ==
  ASSUME NEW q, NEW pt, NEW lm, NEW mk, InUse(q, pt, lm, mk),
         NEW mk2, \A a \in DOMAIN mk : a + MARK <= pt => a \in DOMAIN mk2 /\ mk2[a] = mk[a],
         NEW pt2 \in Nat, pt <= pt2, pt2 <= HeapSize, HeapSizes
  PROVE  InUse(q, pt2, lm, mk2)
<1>1. ASSUME NEW i \in 1 .. Len(q)
      PROVE  /\ q[i] \in DOMAIN mk2 /\ mk2[q[i]].ptr = q[i] /\ mk2[q[i]].next = Before(q, i - 1)
             /\ q[i] + MARK <= pt2 /\ (i < Len(q) => q[i] + MARK <= q[i + 1])
  <2>1. q[i] \in Nat /\ MARK \in Nat /\ pt \in Nat
    BY DEF InUse, HeapSizes
  <2>2. /\ q[i] \in DOMAIN mk /\ mk[q[i]].ptr = q[i] /\ mk[q[i]].next = Before(q, i - 1)
        /\ q[i] + MARK <= pt /\ (i < Len(q) => q[i] + MARK <= q[i + 1])
    BY DEF InUse
  <2>3. q[i] + MARK <= pt2
    BY <2>1, <2>2
  <2> QED
    BY <2>2, <2>3
<1> QED
  BY <1>1 DEF InUse

\* heap_alloc: what fits is charged to the innermost scope.
LEMMA HeapAllocStep ==
  ASSUME HeapSizes, HeapInv, NEW n \in HeapRequests, H!heap_alloc(n)
  PROVE  HeapInv' /\ H!Abstract!Next
<1>1. CASE ~ H!Fits(n)
  BY <1>1, HeapAborts DEF H!heap_alloc
<1>2. CASE H!Fits(n)
  <2>1. /\ ptr' = ptr + n /\ lastmark' = lastmark /\ aborted' = aborted /\ ~ aborted
        /\ marks' = [a \in {x \in DOMAIN marks : x + MARK <= ptr \/ ptr + n <= x} |-> marks[a]]
        /\ ptr + n <= HeapSize
    BY <1>2 DEF H!heap_alloc, H!Overwrite, H!Fits
  <2>2. PICK q : InUse(q, ptr, lastmark, marks)
    BY DEF HeapInv
  <2>3. n \in Nat /\ ptr \in Nat /\ HeapSize \in Nat /\ LeadsDown(marks)
    BY <2>2 DEF HeapSizes, InUse, HeapInv
  <2>4. InUse(q, ptr', lastmark', marks')
    <3>1. \A a \in DOMAIN marks : a + MARK <= ptr => a \in DOMAIN marks' /\ marks'[a] = marks[a]
      BY <2>1
    <3>2. ptr' \in Nat /\ ptr <= ptr' /\ ptr' <= HeapSize
      BY <2>1, <2>3
    <3>3. InUse(q, ptr', lastmark, marks')
      BY <2>2, <3>1, <3>2, InUseKept
    <3> QED
      BY <2>1, <3>3
  <2>5. LeadsDown(marks')
    BY <2>1, <2>3 DEF LeadsDown
  <2>6. HeapInv'
    BY <2>1, <2>4, <2>5 DEF HeapInv, LeadsDown
  <2>7. H!Scopes = Used(Marks(q), ptr) /\ H!Scopes' = Used(Marks(q), ptr')
    <3>1. ScopesIn(marks, lastmark, ptr) = Used(Marks(q), ptr)
      BY <2>2, <2>3, HeapScopes
    <3>2. ScopesIn(marks', lastmark', ptr') = Used(Marks(q), ptr')
      BY <2>4, <2>5, HeapScopes
    <3> QED
      BY <3>1, <3>2, ScopesNow
  <2>8. Marks(q) \in Seq(Int) /\ Len(Marks(q)) >= 1
    <3>1. q \in Seq(Nat) /\ MARK \in Nat
      BY <2>2 DEF InUse, HeapSizes
    <3>2. Marks(q) \in Seq(Int) /\ Len(Marks(q)) = Len(q) + 1 /\ Len(q) \in Nat
      BY <3>1, MarksSeq
    <3> QED
      BY <3>2
  <2>9. H!Scopes' = Arena!Charge(H!Scopes, n)
    <3>1. Used(Marks(q), ptr + n) = Arena!Charge(Used(Marks(q), ptr), n)
      BY <2>3, <2>8, UsedCharge
    <3> QED
      BY <2>1, <2>7, <3>1
  <2>10. n <= HeapSize - ptr /\ HeapSize - ptr' = (HeapSize - ptr) - n
    BY <2>1, <2>3
  <2> QED
    BY <2>1, <2>6, <2>9, <2>10, HeapAllocates
<1> QED
  BY <1>1, <1>2

\* One more mark, of the memory in use.
LEMMA MarksAppend ==
  ASSUME NEW q \in Seq(Nat), NEW e \in Nat, MARK \in Nat
  PROVE  Marks(Append(q, e)) = Append(Marks(q), e)
<1>1. PICK n \in Nat : n = Len(q)
  OBVIOUS
<1>2. PICK r : r = Append(q, e)
  OBVIOUS
<1>3. r \in Seq(Nat) /\ Len(r) = n + 1 /\ r[n + 1] = e /\ \A i \in 1 .. n : r[i] = q[i]
  BY <1>1, <1>2, AppendProperties
<1>4. PICK m : m = Marks(q)
  OBVIOUS
<1>5. /\ m \in Seq(Int) /\ Len(m) = n + 1
      /\ m[1] = -MARK /\ \A i \in 1 .. n : m[i + 1] = q[i]
  BY <1>1, <1>4, MarksSeq
<1>6. PICK u : u = Marks(r)
  OBVIOUS
<1>7. /\ u \in Seq(Int) /\ Len(u) = (n + 1) + 1
      /\ u[1] = -MARK /\ \A i \in 1 .. n + 1 : u[i + 1] = r[i]
  <2>1. /\ Marks(r) \in Seq(Int) /\ Len(Marks(r)) = Len(r) + 1
        /\ Marks(r)[1] = -MARK /\ \A i \in 1 .. Len(r) : Marks(r)[i + 1] = r[i]
    BY <1>3, MarksSeq
  <2> QED
    BY <1>3, <1>6, <2>1
<1>8. PICK v : v = Append(m, e)
  OBVIOUS
<1>9. /\ v \in Seq(Int) /\ Len(v) = (n + 1) + 1
      /\ v[(n + 1) + 1] = e /\ \A i \in 1 .. n + 1 : v[i] = m[i]
  <2>1. e \in Int
    OBVIOUS
  <2> QED
    BY <1>5, <1>8, <2>1, AppendProperties
<1>10. ASSUME NEW i \in 1 .. (n + 1) + 1 PROVE u[i] = v[i]
  <2>1. CASE i = 1
    <3>1. 1 \in 1 .. n + 1
      OBVIOUS
    <3> QED
      BY <1>5, <1>7, <1>9, <2>1, <3>1
  <2>2. CASE i = (n + 1) + 1
    <3>1. n + 1 \in 1 .. n + 1
      OBVIOUS
    <3> QED
      BY <1>3, <1>7, <1>9, <2>2, <3>1
  <2>3. CASE i # 1 /\ i # (n + 1) + 1
    <3>1. PICK j \in 1 .. n : i = j + 1
      BY <2>3
    <3>2. j \in 1 .. n + 1 /\ i \in 1 .. n + 1
      BY <3>1
    <3>3. u[i] = r[j] /\ v[i] = m[i]
      BY <1>7, <1>9, <3>1, <3>2
    <3> QED
      BY <1>3, <1>5, <3>1, <3>3
  <2> QED
    BY <2>1, <2>2, <2>3
<1>11. u = v
  BY <1>7, <1>9, <1>10, SeqEqual
<1> QED
  BY <1>2, <1>4, <1>6, <1>8, <1>11

\* heap_mark: what fits opens a scope that holds the mark.
LEMMA HeapMarkStep ==
  ASSUME HeapSizes, HeapInv, H!heap_mark
  PROVE  HeapInv' /\ H!Abstract!Next
<1>1. CASE ~ H!Fits(MARK)
  BY <1>1, HeapAborts DEF H!heap_mark
<1>2. CASE H!Fits(MARK)
  <2>1. /\ ptr' = ptr + MARK /\ lastmark' = ptr /\ aborted' = aborted /\ ~ aborted
        /\ ptr + MARK <= HeapSize
        /\ DOMAIN marks' = {x \in DOMAIN marks : x + MARK <= ptr \/ ptr + MARK <= x} \cup {ptr}
        /\ \A a \in DOMAIN marks' :
             marks'[a] = IF a = ptr THEN [ptr |-> ptr, next |-> lastmark] ELSE marks[a]
    BY <1>2 DEF H!heap_mark, H!Overwrite, H!Fits, H!Marked
  <2>2. PICK q : InUse(q, ptr, lastmark, marks)
    BY DEF HeapInv
  <2>3. /\ MARK \in Nat /\ MARK > 0 /\ ptr \in Nat /\ HeapSize \in Nat /\ LeadsDown(marks)
        /\ q \in Seq(Nat) /\ lastmark = Before(q, Len(q))
    BY <2>2 DEF HeapSizes, InUse, HeapInv
  <2>4. PICK n \in Nat : n = Len(q)
    BY <2>3
  <2>5. PICK r : r = Append(q, ptr)
    OBVIOUS
  <2>6. r \in Seq(Nat) /\ Len(r) = n + 1 /\ r[n + 1] = ptr /\ \A i \in 1 .. n : r[i] = q[i]
    BY <2>3, <2>4, <2>5, AppendProperties
  <2>7. \A i \in 1 .. n : /\ q[i] \in Nat /\ q[i] \in DOMAIN marks
                          /\ marks[q[i]].ptr = q[i] /\ marks[q[i]].next = Before(q, i - 1)
                          /\ q[i] + MARK <= ptr /\ (i < n => q[i] + MARK <= q[i + 1])
    BY <2>2, <2>4 DEF InUse
  <2>8. lastmark \in Int /\ lastmark < ptr
    <3>1. CASE n = 0
      BY <2>3, <2>4, <3>1 DEF Before
    <3>2. CASE n # 0
      <4>1. n \in 1 .. n /\ lastmark = q[n]
        BY <2>3, <2>4, <3>2 DEF Before
      <4> QED
        BY <2>3, <2>7, <4>1
    <3> QED
      BY <3>1, <3>2
  <2>9. LeadsDown(marks')
    <3>1. ASSUME NEW a \in DOMAIN marks'
          PROVE  /\ a \in Nat /\ a < HeapSize
                 /\ marks'[a].next \in Int /\ marks'[a].next < a
      <4>1. CASE a = ptr
        <5>1. marks'[a].next = lastmark
          BY <2>1, <4>1
        <5> QED
          BY <2>1, <2>3, <2>8, <4>1, <5>1
      <4>2. CASE a # ptr
        BY <2>1, <2>3, <4>2 DEF LeadsDown
      <4> QED
        BY <4>1, <4>2
    <3> QED
      BY <3>1 DEF LeadsDown
  <2>10. ASSUME NEW i \in 1 .. n + 1
         PROVE  /\ r[i] \in DOMAIN marks' /\ marks'[r[i]].ptr = r[i]
                /\ marks'[r[i]].next = Before(r, i - 1)
                /\ r[i] + MARK <= ptr + MARK /\ (i < n + 1 => r[i] + MARK <= r[i + 1])
    <3>1. CASE i = n + 1
      <4>1. r[i] = ptr /\ ptr \in DOMAIN marks' /\ marks'[ptr] = [ptr |-> ptr, next |-> lastmark]
        BY <2>1, <2>6, <3>1
      <4>2. lastmark = Before(r, n) /\ i - 1 = n
        <5>1. CASE n = 0
          BY <2>3, <2>4, <3>1, <5>1 DEF Before
        <5>2. CASE n # 0
          <6>1. n \in 1 .. n
            BY <5>2
          <6> QED
            BY <2>3, <2>4, <2>6, <3>1, <5>2, <6>1 DEF Before
        <5> QED
          BY <5>1, <5>2
      <4> QED
        BY <2>3, <3>1, <4>1, <4>2
    <3>2. CASE i \in 1 .. n
      <4>1. r[i] = q[i] /\ q[i] \in Nat /\ q[i] \in DOMAIN marks /\ q[i] + MARK <= ptr
        BY <2>6, <2>7, <3>2
      <4>2. r[i] \in DOMAIN marks' /\ marks'[r[i]] = marks[q[i]]
        <5>1. q[i] # ptr
          BY <2>3, <4>1
        <5> QED
          BY <2>1, <4>1, <5>1
      <4>3. Before(r, i - 1) = Before(q, i - 1)
        <5>1. CASE i = 1
          BY <5>1 DEF Before
        <5>2. CASE i # 1
          <6>1. i - 1 \in 1 .. n /\ i - 1 # 0
            BY <3>2, <5>2
          <6> QED
            BY <2>6, <6>1 DEF Before
        <5> QED
          BY <5>1, <5>2
      <4>4. r[i] + MARK <= r[i + 1]
        <5>1. CASE i = n
          BY <2>6, <4>1, <5>1
        <5>2. CASE i # n
          <6>1. i + 1 \in 1 .. n /\ i < n
            BY <3>2, <5>2
          <6> QED
            BY <2>6, <2>7, <3>2, <6>1
        <5> QED
          BY <5>1, <5>2
      <4>5. r[i] + MARK <= ptr + MARK
        BY <2>3, <4>1
      <4> QED
        BY <2>7, <3>2, <4>1, <4>2, <4>3, <4>4, <4>5
    <3> QED
      BY <3>1, <3>2
  <2>11. InUse(r, ptr', lastmark', marks')
    <3>1. lastmark' = Before(r, n + 1)
      BY <2>1, <2>6 DEF Before
    <3>2. ptr' \in Nat /\ ptr' <= HeapSize
      BY <2>1, <2>3
    <3> QED
      BY <2>1, <2>6, <2>10, <3>1, <3>2 DEF InUse
  <2>12. HeapInv'
    BY <2>1, <2>9, <2>11 DEF HeapInv, LeadsDown
  <2>13. H!Scopes = Used(Marks(q), ptr) /\ H!Scopes' = Used(Marks(r), ptr')
    <3>1. ScopesIn(marks, lastmark, ptr) = Used(Marks(q), ptr)
      BY <2>2, <2>3, HeapScopes
    <3>2. ScopesIn(marks', lastmark', ptr') = Used(Marks(r), ptr')
      BY <2>9, <2>11, HeapScopes
    <3> QED
      BY <3>1, <3>2, ScopesNow
  <2>14. H!Scopes' = Append(H!Scopes, MARK)
    <3>1. Marks(q) \in Seq(Int)
      BY <2>3, MarksSeq
    <3>2. Marks(r) = Append(Marks(q), ptr)
      BY <2>3, <2>5, MarksAppend
    <3>3. Used(Append(Marks(q), ptr), ptr + MARK) = Append(Used(Marks(q), ptr), MARK)
      <4>1. ptr \in Int /\ MARK \in Int
        BY <2>3
      <4> QED
        BY ONLY <3>1, <4>1, UsedAppend
    <3> QED
      BY <2>1, <2>13, <3>2, <3>3
  <2>15. MARK <= HeapSize - ptr /\ HeapSize - ptr' = (HeapSize - ptr) - MARK
    BY <2>1, <2>3
  <2> QED
    BY <2>1, <2>12, <2>14, <2>15, HeapMarks
<1> QED
  BY <1>1, <1>2


\* One mark less.
LEMMA MarksPop ==
  ASSUME NEW q \in Seq(Nat), Len(q) > 0, MARK \in Nat
  PROVE  /\ Marks(Pop(q)) = Pop(Marks(q)) /\ Pop(q) \in Seq(Nat) /\ Len(Pop(q)) = Len(q) - 1
         /\ \A i \in 1 .. Len(q) - 1 : Pop(q)[i] = q[i]
<1>1. PICK k \in Nat : Len(q) = k + 1
  OBVIOUS
<1>2. PICK r : r = Pop(q)
  OBVIOUS
<1>3. r \in Seq(Nat) /\ Len(r) = k /\ \A i \in 1 .. k : r[i] = q[i]
  <2>1. 1 \in Int /\ k \in Int /\ \A i \in 1 .. k : q[i] \in Nat
    BY <1>1
  <2>2. r = SubSeq(q, 1, k)
    BY <1>1, <1>2 DEF Pop
  <2>3. /\ SubSeq(q, 1, k) \in Seq(Nat)
        /\ Len(SubSeq(q, 1, k)) = IF 1 <= k THEN k - 1 + 1 ELSE 0
        /\ \A i \in 1 .. k - 1 + 1 : SubSeq(q, 1, k)[i] = q[1 + i - 1]
    BY <2>1, SubSeqProperties
  <2> QED
    BY <2>2, <2>3
<1>4. PICK m : m = Marks(q)
  OBVIOUS
<1>5. /\ m \in Seq(Int) /\ Len(m) = k + 2
      /\ m[1] = -MARK /\ \A i \in 1 .. k + 1 : m[i + 1] = q[i]
  <2>1. /\ Marks(q) \in Seq(Int) /\ Len(Marks(q)) = (k + 1) + 1
        /\ Marks(q)[1] = -MARK /\ \A i \in 1 .. k + 1 : Marks(q)[i + 1] = q[i]
    BY <1>1, MarksSeq
  <2> QED
    BY <1>4, <2>1
<1>6. PICK u : u = Marks(r)
  OBVIOUS
<1>7. /\ u \in Seq(Int) /\ Len(u) = k + 1
      /\ u[1] = -MARK /\ \A i \in 1 .. k : u[i + 1] = r[i]
  BY <1>3, <1>6, MarksSeq
<1>8. PICK v : v = Pop(m)
  OBVIOUS
<1>9. v \in Seq(Int) /\ Len(v) = k + 1 /\ \A i \in 1 .. k + 1 : v[i] = m[i]
  <2>1. Len(m) > 1
    BY <1>5
  <2>2. Pop(m) \in Seq(Int) /\ IsPop(m, Len(m), Pop(m), Len(Pop(m)))
    BY <1>5, <2>1, PopIsPop
  <2>3. Len(m) - 1 = k + 1
    BY <1>5
  <2> QED
    BY <1>8, <2>2, <2>3 DEF IsPop
<1>10. ASSUME NEW i \in 1 .. k + 1 PROVE u[i] = v[i]
  <2>1. CASE i = 1
    <3>1. v[1] = m[1]
      BY <1>9
    <3> QED
      BY <1>5, <1>7, <2>1, <3>1
  <2>2. CASE i # 1
    <3>1. PICK j \in 1 .. k : i = j + 1
      BY <2>2
    <3>2. j \in 1 .. k + 1
      OBVIOUS
    <3> QED
      BY <1>3, <1>5, <1>7, <1>9, <3>1, <3>2
  <2> QED
    BY <2>1, <2>2
<1>11. u = v
  BY <1>7, <1>9, <1>10, SeqEqual
<1>12. Len(q) - 1 = k
  BY <1>1
<1> QED
  BY <1>2, <1>3, <1>4, <1>6, <1>8, <1>11, <1>12

\* heap_rewind: the bytes since the mark and the mark's are given back.
LEMMA HeapRewindStep ==
  ASSUME HeapSizes, HeapInv, H!heap_rewind
  PROVE  HeapInv' /\ H!Abstract!Next
<1>1. CASE lastmark = -1
  BY <1>1, HeapAborts DEF H!heap_rewind, H!NoMark
<1>2. CASE lastmark # -1
  <2>1. /\ ptr' = marks[lastmark].ptr /\ lastmark' = marks[lastmark].next
        /\ marks' = marks /\ aborted' = aborted /\ ~ aborted
    BY <1>2 DEF H!heap_rewind, H!NoMark
  <2>2. PICK q : InUse(q, ptr, lastmark, marks)
    BY DEF HeapInv
  <2>3. /\ MARK \in Nat /\ ptr \in Nat /\ HeapSize \in Nat /\ ptr <= HeapSize
        /\ LeadsDown(marks) /\ q \in Seq(Nat) /\ lastmark = Before(q, Len(q))
    BY <2>2 DEF HeapSizes, InUse, HeapInv
  <2>4. PICK n \in Nat : n = Len(q)
    BY <2>3
  <2>5. n > 0 /\ n \in 1 .. n /\ lastmark = q[n]
    BY <1>2, <2>3, <2>4 DEF Before
  <2>6. \A i \in 1 .. n : /\ q[i] \in Nat /\ q[i] \in DOMAIN marks
                          /\ marks[q[i]].ptr = q[i] /\ marks[q[i]].next = Before(q, i - 1)
                          /\ q[i] + MARK <= ptr /\ (i < n => q[i] + MARK <= q[i + 1])
    BY <2>2, <2>4 DEF InUse
  <2>7. ptr' = q[n] /\ lastmark' = Before(q, n - 1) /\ q[n] \in Nat /\ q[n] + MARK <= ptr
    BY <2>1, <2>5, <2>6
  <2>8. PICK r : r = Pop(q)
    OBVIOUS
  <2>9. /\ r \in Seq(Nat) /\ Len(r) = n - 1 /\ \A i \in 1 .. n - 1 : r[i] = q[i]
        /\ Marks(r) = Pop(Marks(q))
    <3>1. Len(q) > 0
      BY <2>4, <2>5
    <3> QED
      BY <2>3, <2>4, <2>8, <3>1, MarksPop
  <2>10. \A i \in 0 .. n - 1 : Before(r, i) = Before(q, i)
    <3>1. \A i \in 0 .. n - 1 : i # 0 => i \in 1 .. n - 1
      OBVIOUS
    <3> QED
      BY <2>9, <3>1 DEF Before
  <2>11. ASSUME NEW i \in 1 .. n - 1
         PROVE  /\ r[i] \in DOMAIN marks /\ marks[r[i]].ptr = r[i]
                /\ marks[r[i]].next = Before(r, i - 1)
                /\ r[i] + MARK <= q[n] /\ (i < n - 1 => r[i] + MARK <= r[i + 1])
    <3>1. i \in 1 .. n /\ i - 1 \in 0 .. n - 1 /\ i < n
      BY <2>4
    <3>2. r[i] = q[i] /\ Before(r, i - 1) = Before(q, i - 1)
      BY <2>9, <2>10, <3>1
    <3>3. i < n - 1 => i + 1 \in 1 .. n - 1
      OBVIOUS
    <3>4. i < n - 1 => r[i] + MARK <= r[i + 1]
      BY <2>6, <2>9, <3>1, <3>2, <3>3
    <3>5. q[i] + MARK <= q[n]
      <4>1. PICK T : T = {j \in 1 .. n : i < j /\ ~ (q[i] + MARK <= q[j])}
        OBVIOUS
      <4>2. T = {}
        <5>1. SUFFICES ASSUME T # {} PROVE FALSE
          OBVIOUS
        <5>2. PICK j \in T : \A l \in T : j <= l
          BY <4>1, <5>1, NatMinimum
        <5>3. j \in 1 .. n /\ i < j /\ ~ (q[i] + MARK <= q[j])
          BY <4>1
        <5>4. CASE j = i + 1
          BY <2>6, <3>1, <5>3, <5>4
        <5>5. CASE j # i + 1
          <6>1. PICK l \in 1 .. n : j = l + 1 /\ i < l /\ l < n /\ ~ (j <= l)
            BY <3>1, <5>3, <5>5
          <6>2. q[i] + MARK <= q[l]
            BY <4>1, <5>2, <6>1
          <6>3. q[l] + MARK <= q[j]
            BY <2>6, <6>1
          <6>4. q[i] \in Nat /\ q[l] \in Nat /\ q[j] \in Nat
            BY <2>6, <3>1, <5>3
          <6>5. MARK \in Nat
            BY <2>3
          <6>6. \A x, y, z \in Nat : x + MARK <= y /\ y + MARK <= z => x + MARK <= z
            BY ONLY <6>5
          <6>7. q[i] + MARK <= q[j]
            BY ONLY <6>2, <6>3, <6>4, <6>6
          <6> QED
            BY ONLY <5>3, <6>7
        <5> QED
          BY <5>4, <5>5
      <4> QED
        BY <2>5, <3>1, <4>1, <4>2
    <3> QED
      BY <2>6, <3>1, <3>2, <3>4, <3>5
  <2>12. InUse(r, ptr', lastmark', marks')
    <3>1. lastmark' = Before(r, n - 1)
      <4>1. n - 1 \in 0 .. n - 1
        BY <2>5
      <4> QED
        BY <2>7, <2>10, <4>1
    <3>2. ptr' \in Nat /\ ptr' <= HeapSize
      BY <2>3, <2>7
    <3> QED
      BY <2>1, <2>7, <2>9, <2>11, <3>1, <3>2 DEF InUse
  <2>13. LeadsDown(marks')
    BY <2>1, <2>3
  <2>14. HeapInv'
    BY <2>1, <2>12, <2>13 DEF HeapInv, LeadsDown
  <2>15. H!Scopes = Used(Marks(q), ptr) /\ H!Scopes' = Used(Marks(r), ptr')
    <3>1. ScopesIn(marks, lastmark, ptr) = Used(Marks(q), ptr)
      BY <2>2, <2>3, HeapScopes
    <3>2. ScopesIn(marks', lastmark', ptr') = Used(Marks(r), ptr')
      BY <2>12, <2>13, HeapScopes
    <3> QED
      BY <3>1, <3>2, ScopesNow
  <2>16. PICK m : m = Marks(q)
    OBVIOUS
  <2>17. m \in Seq(Int) /\ Len(m) = n + 1 /\ m[n + 1] = q[n]
    BY <2>3, <2>4, <2>5, <2>16, MarksSeq
  <2>18. /\ Used(Pop(m), m[Len(m)]) = Arena!Outer(Used(m, ptr))
         /\ Arena!Innermost(Used(m, ptr)) = ptr - m[Len(m)]
    <3>1. Len(m) > 1 /\ ptr \in Int
      BY <2>3, <2>5, <2>17
    <3> QED
      BY <2>17, <3>1, UsedPop
  <2>19. H!Scopes' = Arena!Outer(H!Scopes)
    BY <2>7, <2>9, <2>15, <2>16, <2>17, <2>18
  <2>20. HeapSize - ptr' = (HeapSize - ptr) + Arena!Innermost(H!Scopes)
    <3>1. Arena!Innermost(H!Scopes) = ptr - q[n]
      BY <2>15, <2>16, <2>17, <2>18
    <3> QED
      BY <2>3, <2>7, <3>1
  <2>21. Len(H!Scopes) > 1
    <3>1. ptr \in Int /\ Len(m) = n + 1
      BY <2>3, <2>17
    <3>2. Len(Used(m, ptr)) = n + 1
      BY <2>17, <3>1, UsedIsSeq
    <3> QED
      BY <2>5, <2>15, <2>16, <3>2
  <2> QED
    BY <2>1, <2>14, <2>19, <2>20, <2>21, HeapRewinds
<1> QED
  BY <1>1, <1>2

\* An empty HEAP has one scope, with nothing in it.
LEMMA HeapInitRefines ==
  ASSUME HeapSizes, H!Init
  PROVE  HeapInv /\ H!Abstract!Init
<1>1. ptr = 0 /\ lastmark = -1 /\ marks = [a \in {} |-> -1] /\ aborted = FALSE
  BY DEF H!Init, H!NoMark
<1>2. DOMAIN marks = {}
  BY <1>1
<1>3. LeadsDown(marks)
  BY <1>2 DEF LeadsDown
<1>4. PICK q \in Seq(Nat) : q = <<>> /\ Len(q) = 0
  <2>1. <<>> \in Seq(Nat) /\ Len(<<>>) = 0
    OBVIOUS
  <2> QED
    BY <2>1
<1>5. InUse(q, ptr, lastmark, marks)
  <2>1. 1 .. Len(q) = {}
    BY <1>4
  <2>2. lastmark = Before(q, Len(q))
    BY <1>1, <1>4 DEF Before
  <2>3. ptr \in Nat /\ ptr <= HeapSize
    BY <1>1 DEF HeapSizes
  <2> QED
    BY <2>1, <2>2, <2>3 DEF InUse
<1>6. HeapInv
  BY <1>1, <1>3, <1>5 DEF HeapInv
<1>7. PICK m : m = Marks(q)
  OBVIOUS
<1>8. MARK \in Nat /\ HeapSize \in Nat
  BY DEF HeapSizes
<1>9. m \in Seq(Int) /\ Len(m) = 1 /\ m[1] = -MARK
  <2>1. Marks(q) \in Seq(Int) /\ Len(Marks(q)) = Len(q) + 1 /\ Marks(q)[1] = -MARK
    BY ONLY q \in Seq(Nat), <1>8, MarksSeq
  <2>2. Len(q) + 1 = 1
    BY <1>4
  <2> QED
    BY ONLY <1>7, <2>1, <2>2
<1>10. H!Scopes = Used(m, ptr)
  BY <1>3, <1>5, <1>7, HeapScopes, ScopesNow
<1>11. Used(m, ptr) = [i \in 1 .. 1 |-> MARK]
  <2>1. ptr - m[1] = MARK
    BY <1>1, <1>8, <1>9
  <2>2. \A i \in 1 .. 1 : i = 1 /\ ~ (i < 1)
    OBVIOUS
  <2> QED
    BY <1>9, <2>1, <2>2 DEF Used
<1>12. [i \in 1 .. 1 |-> MARK] = <<MARK>>
  OBVIOUS
<1>13. H!Scopes = <<MARK>>
  BY <1>10, <1>11, <1>12
<1>14. HeapSize - ptr = (HeapSize + 2 * MARK) - 2 * MARK
  BY <1>1, <1>8
<1> QED
  BY <1>1, <1>6, <1>13, <1>14 DEF H!Abstract!Init

\* The HEAP implements one stack of scopes over one budget of bytes
\* (HeapSpec): a rewind gives back what was allocated since the mark and the
\* mark itself, whatever lay in that memory before.
THEOREM HeapImplementsScopes ==
  ASSUME HeapSizes
  PROVE  H!Spec => H!HeapSpec
<1>1. H!Init => HeapInv /\ H!Abstract!Init
  BY HeapInitRefines
<1>2. HeapInv /\ [H!Next]_(H!vars) => HeapInv' /\ [H!Abstract!Next]_(H!Abstract!vars)
  <2>1. SUFFICES ASSUME HeapInv, [H!Next]_(H!vars)
                 PROVE  HeapInv' /\ [H!Abstract!Next]_(H!Abstract!vars)
    OBVIOUS
  <2>2. CASE UNCHANGED H!vars
    <3>1. ptr' = ptr /\ lastmark' = lastmark /\ marks' = marks /\ aborted' = aborted
      BY <2>2 DEF H!vars
    <3>2. HeapInv'
      BY <2>1, <3>1 DEF HeapInv, InUse, LeadsDown
    <3>3. H!Scopes' = H!Scopes
      BY <3>1, ScopesNow
    <3> QED
      BY <3>1, <3>2, <3>3 DEF H!Abstract!vars
  <2>3. ASSUME NEW n \in HeapRequests, H!heap_alloc(n)
        PROVE  HeapInv' /\ H!Abstract!Next
    BY <2>1, <2>3, HeapAllocStep
  <2>4. CASE H!heap_mark
    BY <2>1, <2>4, HeapMarkStep
  <2>5. CASE H!heap_rewind
    BY <2>1, <2>5, HeapRewindStep
  <2> QED
    BY <2>1, <2>2, <2>3, <2>4, <2>5 DEF H!Next
<1> QED
  BY <1>1, <1>2, PTL DEF H!Spec, H!HeapSpec, H!Abstract!Spec

=============================================================================
