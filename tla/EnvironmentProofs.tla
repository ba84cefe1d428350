-------------------------- MODULE EnvironmentProofs --------------------------
(***************************************************************************)
(* The scopes of environment.c, proved for every arena, in both            *)
(* directions and whatever calls were abandoned: no table outlives its     *)
(* scope, and a scope gives back what was allocated in it.                 *)
(*                                                                         *)
(* A call that throws may leave a mark behind, so that marks and tables    *)
(* are not one for one: a pop may rewind a mark that no table belongs to.  *)
(* What holds is that above a table, and above each of its nodes, there    *)
(* are at least as many marks as there are tables further in.  The pops    *)
(* that these tables still take then leave it where it is.                 *)
(***************************************************************************)
EXTENDS Environment, FiniteSetTheorems, WellFoundedInduction, SequenceTheorems, TLAPS

Direction == {BS_FORWARD, BS_BACKWARD}

ArenaRec(M) ==
  [fptr : Int, fmark : Int, bptr : Int, bmark : Int,
   dir : [0 .. DirBits - 1 -> Direction], mem : M]

ArenaOK(b) ==
  /\ b \in ArenaRec({b.mem})
  /\ HDR <= b.fptr /\ b.fptr <= b.bptr /\ b.bptr <= Size

\* The environment's end of the arena: its pointer and its newest mark.
Tip(b) == IF dir = BS_FORWARD THEN b.fptr ELSE b.bptr

Newest(b) == IF dir = BS_FORWARD THEN b.fmark ELSE b.bmark

\* The m bytes at x were there before the n bytes at y.
Under(x, m, y, n) == IF dir = BS_FORWARD THEN x + m <= y ELSE y + n <= x

UnderTip(x, m, b) == Under(x, m, Tip(b), 0)

\* The marks at the environment's end lie at P[1] .. P[n].
Marked(P, n, b) ==
  /\ n \in Nat \ {0} /\ P \in [1 .. n -> Int]
  /\ \A i \in 1 .. n :
       /\ HDR <= P[i] /\ P[i] + PTR <= Size /\ UnderTip(P[i], PTR, b)
       /\ Deref(b, P[i]) = IF i = 1 THEN NULL ELSE P[i - 1]
  /\ \A i, k \in 1 .. n : i < k => Under(P[i], PTR, P[k], PTR)
  /\ Newest(b) = P[n]

-----------------------------------------------------------------------------
(* What the operations do to the arena, at the environment's end.          *)

\* The sizes.
LEMMA Sizes ==
  /\ HDR \in Nat \ {0} /\ PTR \in Nat \ {0} /\ DirBits \in Nat \ {0}
  /\ Size \in Nat \ {0} /\ TABLE \in Nat \ {0} /\ NODE \in Nat \ {0}
  /\ HostBlock \in Nat \ {0} /\ HDR + 2 * PTR <= Size
  /\ BS_FORWARD = 0 /\ BS_BACKWARD = 1 /\ Host = BS_BACKWARD /\ NULL = 0
  BY SizesAssumption, EnvironmentAssumption DEF BS_FORWARD, BS_BACKWARD, Host, NULL

\* The fields of the arena.
LEMMA Fields ==
  ASSUME NEW b, ArenaOK(b)
  PROVE  /\ b.fptr \in Int /\ b.bptr \in Int /\ b.fmark \in Int /\ b.bmark \in Int
         /\ b.dir \in [0 .. DirBits - 1 -> Direction]
         /\ HDR <= b.fptr /\ b.fptr <= b.bptr /\ b.bptr <= Size
  BY DEF ArenaOK, ArenaRec

\* What bistack_allocf writes.
LEMMA AllocF ==
  ASSUME NEW b, ArenaOK(b), NEW n, NEW r, r = bistack_allocf(b, n)
  PROVE  /\ r.fptr = b.fptr + n /\ r.fmark = b.fmark
         /\ r.bptr = b.bptr /\ r.bmark = b.bmark /\ r.dir = b.dir /\ r.mem = b.mem
         /\ r.fptr \in Int => r \in ArenaRec({r.mem})
  BY DEF ArenaOK, ArenaRec, bistack_allocf

\* What bistack_allocb writes.
LEMMA AllocB ==
  ASSUME NEW b, ArenaOK(b), NEW n, NEW r, r = bistack_allocb(b, n)
  PROVE  /\ r.bptr = b.bptr - n /\ r.bmark = b.bmark
         /\ r.fptr = b.fptr /\ r.fmark = b.fmark /\ r.dir = b.dir /\ r.mem = b.mem
         /\ r.bptr \in Int => r \in ArenaRec({r.mem})
  BY DEF ArenaOK, ArenaRec, bistack_allocb

\* What bistack_markf writes.
LEMMA MarkF ==
  ASSUME NEW b, ArenaOK(b), NEW r, r = bistack_markf(b)
  PROVE  /\ r.fptr = b.fptr + PTR /\ r.fmark = b.fptr
         /\ r.bptr = b.bptr /\ r.bmark = b.bmark /\ r.dir = b.dir
         /\ r.mem = StorePtr(b.mem, b.fptr, b.fmark)
         /\ r.fptr \in Int => r \in ArenaRec({r.mem})
  BY DEF ArenaOK, ArenaRec, bistack_markf

\* What bistack_markb writes.
LEMMA MarkB ==
  ASSUME NEW b, ArenaOK(b), NEW r, r = bistack_markb(b)
  PROVE  /\ r.bptr = b.bptr - PTR /\ r.bmark = b.bptr - PTR
         /\ r.fptr = b.fptr /\ r.fmark = b.fmark /\ r.dir = b.dir
         /\ r.mem = StorePtr(b.mem, b.bptr - PTR, b.bmark)
         /\ r.bptr \in Int => r \in ArenaRec({r.mem})
  BY DEF ArenaOK, ArenaRec, bistack_markb

\* What bistack_rewindf writes.
LEMMA RewindF ==
  ASSUME NEW b, ArenaOK(b), NEW r, r = bistack_rewindf(b)
  PROVE  /\ r.fptr = b.fmark /\ r.fmark = Deref(b, b.fmark)
         /\ r.bptr = b.bptr /\ r.bmark = b.bmark /\ r.dir = b.dir
         /\ r.mem = Scrub(b.mem, b.fmark, b.fptr)
         /\ r.fmark \in Int => r \in ArenaRec({r.mem})
  BY DEF ArenaOK, ArenaRec, bistack_rewindf

\* What bistack_rewindb writes.
LEMMA RewindB ==
  ASSUME NEW b, ArenaOK(b), NEW r, r = bistack_rewindb(b)
  PROVE  /\ r.bptr = b.bmark + PTR /\ r.bmark = Deref(b, b.bmark)
         /\ r.fptr = b.fptr /\ r.fmark = b.fmark /\ r.dir = b.dir
         /\ r.mem = Scrub(b.mem, b.bptr, b.bmark + PTR)
         /\ r.bptr \in Int /\ r.bmark \in Int => r \in ArenaRec({r.mem})
  BY DEF ArenaOK, ArenaRec, bistack_rewindb

\* A direction is pushed, and nothing but the register changes.
LEMMA PushDirArena ==
  ASSUME NEW b, ArenaOK(b), NEW d \in Direction, NEW r, r = bistack_pushdir(b, d)
  PROVE  /\ ArenaOK(r) /\ r.mem = b.mem
         /\ r.fptr = b.fptr /\ r.fmark = b.fmark /\ r.bptr = b.bptr /\ r.bmark = b.bmark
         /\ r.dir[0] = d
<1> DEFINE bits == [i \in 0 .. DirBits - 1 |-> IF i = 0 THEN d ELSE b.dir[i - 1]]
<1>1. bits \in [0 .. DirBits - 1 -> Direction] /\ bits[0] = d
  <2>1. \A i \in 0 .. DirBits - 1 : i # 0 => i - 1 \in 0 .. DirBits - 1
    BY Sizes
  <2>2. b.dir \in [0 .. DirBits - 1 -> Direction] /\ 0 \in 0 .. DirBits - 1
    BY Fields, Sizes
  <2> QED
    BY <2>1, <2>2
<1>2. r = [b EXCEPT !.dir = bits]
  BY DEF bistack_pushdir
<1> HIDE DEF bits
<1>3. /\ r \in ArenaRec({r.mem}) /\ r.mem = b.mem /\ r.dir = bits
      /\ r.fptr = b.fptr /\ r.fmark = b.fmark /\ r.bptr = b.bptr /\ r.bmark = b.bmark
  BY <1>1, <1>2 DEF ArenaOK, ArenaRec
<1> QED
  BY <1>1, <1>3 DEF ArenaOK

\* A function of the environment begins.
LEMMA EnterArena ==
  ASSUME ArenaOK(bs), dir \in Direction
  PROVE  /\ ArenaOK(Entered) /\ Entered.mem = bs.mem
         /\ Entered.fptr = bs.fptr /\ Entered.fmark = bs.fmark
         /\ Entered.bptr = bs.bptr /\ Entered.bmark = bs.bmark
         /\ Forward(Entered) <=> dir = BS_FORWARD
<1>1. PICK r : r = Entered
  OBVIOUS
<1>2. /\ ArenaOK(r) /\ r.mem = bs.mem
      /\ r.fptr = bs.fptr /\ r.fmark = bs.fmark /\ r.bptr = bs.bptr /\ r.bmark = bs.bmark
      /\ r.dir[0] = dir
  BY <1>1, PushDirArena DEF Entered
<1> QED
  BY <1>1, <1>2 DEF Forward, bistack_dir

\* A direction is popped that was pushed where the register had room for it.
LEMMA LeaveArena ==
  ASSUME ArenaOK(bs), CanPushDir(bs), dir \in Direction,
         NEW b, ArenaOK(b), b.dir = Entered.dir
  PROVE  /\ ArenaOK(Left(b)) /\ Left(b).mem = b.mem /\ Left(b).dir = bs.dir
         /\ Left(b).fptr = b.fptr /\ Left(b).fmark = b.fmark
         /\ Left(b).bptr = b.bptr /\ Left(b).bmark = b.bmark
<1> DEFINE d == [i \in 0 .. DirBits - 1 |-> IF i = DirBits - 1 THEN 0 ELSE b.dir[i + 1]]
<1>1. b.dir = [i \in 0 .. DirBits - 1 |-> IF i = 0 THEN dir ELSE bs.dir[i - 1]]
  BY DEF Entered, bistack_pushdir, ArenaOK, ArenaRec
<1>2. ASSUME NEW i \in 0 .. DirBits - 1
      PROVE  d[i] = bs.dir[i]
  <2>1. CASE i = DirBits - 1
    BY <2>1, Sizes DEF CanPushDir
  <2>2. CASE i # DirBits - 1
    BY <1>1, <2>2, Sizes
  <2> QED
    BY <2>1, <2>2
<1>3. d = bs.dir
  BY <1>2 DEF ArenaOK, ArenaRec
<1>4. Left(b) = [b EXCEPT !.dir = d]
  BY DEF Left, bistack_popdir
<1> HIDE DEF d
<1>5. /\ Left(b) \in ArenaRec({Left(b).mem}) /\ Left(b).mem = b.mem /\ Left(b).dir = bs.dir
      /\ Left(b).fptr = b.fptr /\ Left(b).fmark = b.fmark
      /\ Left(b).bptr = b.bptr /\ Left(b).bmark = b.bmark
  BY <1>3, <1>4 DEF ArenaOK, ArenaRec
<1> QED
  BY <1>5 DEF ArenaOK

\* A block is cut from the gap, at the end that the register says.
LEMMA AllocArena ==
  ASSUME NEW b, ArenaOK(b), NEW n \in Nat, CanAlloc(b, n)
  PROVE  LET r == bistack_alloc(b, n) IN
         /\ ArenaOK(r) /\ r.mem = b.mem /\ r.dir = b.dir
         /\ r.fmark = b.fmark /\ r.bmark = b.bmark
         /\ IF Forward(b) THEN r.fptr = b.fptr + n /\ r.bptr = b.bptr
            ELSE r.bptr = b.bptr - n /\ r.fptr = b.fptr
<1> DEFINE r == bistack_alloc(b, n)
<1>1. b.fptr + n <= b.bptr
  BY DEF CanAlloc
<1>2. CASE Forward(b)
  <2>1. r = bistack_allocf(b, n)
    BY <1>2 DEF bistack_alloc
  <2> HIDE DEF r
  <2>2. b.fptr + n \in Int /\ HDR <= b.fptr + n /\ b.fptr + n <= b.bptr
    BY <1>1, Fields, Sizes
  <2>3. /\ ArenaOK(r) /\ r.fptr = b.fptr + n /\ r.fmark = b.fmark
        /\ r.bptr = b.bptr /\ r.bmark = b.bmark /\ r.dir = b.dir /\ r.mem = b.mem
    <3>1. /\ r.fptr = b.fptr + n /\ r.fmark = b.fmark /\ r.bptr = b.bptr
          /\ r.bmark = b.bmark /\ r.dir = b.dir /\ r.mem = b.mem
      BY <2>1, AllocF
    <3>2. r \in ArenaRec({r.mem})
      BY <2>1, <2>2, AllocF
    <3>3. HDR <= r.fptr /\ r.fptr <= r.bptr /\ r.bptr <= Size
      BY <2>2, <3>1, Fields
    <3>4. ArenaOK(r)
      BY <3>2, <3>3 DEF ArenaOK
    <3> QED
      BY <3>1, <3>4
  <2> QED
    BY <1>2, <2>3 DEF r
<1>3. CASE ~Forward(b)
  <2>1. r = bistack_allocb(b, n)
    BY <1>3 DEF bistack_alloc
  <2> HIDE DEF r
  <2>2. b.bptr - n \in Int /\ b.fptr <= b.bptr - n /\ b.bptr - n <= Size
    BY <1>1, Fields, Sizes
  <2>3. /\ ArenaOK(r) /\ r.bptr = b.bptr - n /\ r.fmark = b.fmark
        /\ r.fptr = b.fptr /\ r.bmark = b.bmark /\ r.dir = b.dir /\ r.mem = b.mem
    <3>1. /\ r.bptr = b.bptr - n /\ r.fmark = b.fmark /\ r.fptr = b.fptr
          /\ r.bmark = b.bmark /\ r.dir = b.dir /\ r.mem = b.mem
      BY <2>1, AllocB
    <3>2. r \in ArenaRec({r.mem})
      BY <2>1, <2>2, AllocB
    <3>3. HDR <= r.fptr /\ r.fptr <= r.bptr /\ r.bptr <= Size
      BY <2>2, <3>1, Fields
    <3>4. ArenaOK(r)
      BY <3>2, <3>3 DEF ArenaOK
    <3> QED
      BY <3>1, <3>4
  <2> QED
    BY <1>3, <2>3 DEF r
<1> QED
  BY <1>2, <1>3

\* The marks are where they were if only the pointers of the arena changed,
\* and the environment's end did not give anything back.
LEMMA KeepMarked ==
  ASSUME dir \in Direction, NEW b, NEW r, NEW P, NEW n, Marked(P, n, b),
         ArenaOK(b), ArenaOK(r), r.mem = b.mem, Newest(r) = Newest(b),
         UnderTip(Tip(b), 0, r)
  PROVE  Marked(P, n, r)
<1>1. \A x \in Int : Deref(r, x) = Deref(b, x)
  BY DEF Deref
<1>2. \A x \in Int : UnderTip(x, PTR, b) => UnderTip(x, PTR, r)
  <2>1. b.fptr \in Int /\ b.bptr \in Int /\ r.fptr \in Int /\ r.bptr \in Int
    BY Fields
  <2> QED
    BY <2>1, Sizes DEF UnderTip, Under, Tip
<1> QED
  BY <1>1, <1>2 DEF Marked

\* The marks with one more.
With(P, n, x) == [i \in 1 .. n + 1 |-> IF i = n + 1 THEN x ELSE P[i]]

\* The words that share no byte with lo .. hi - 1 read in r what they do in b.
SameOutside(b, r, lo, hi) ==
  \A x \in Int : x + PTR <= lo \/ hi <= x => Deref(r, x) = Deref(b, x)

\* What a word of memory reads after a mark was stored.
LEMMA StoreFrame ==
  ASSUME NEW b, NEW r, NEW at \in Int, NEW val, r.mem = StorePtr(b.mem, at, val)
  PROVE  Deref(r, at) = val /\ SameOutside(b, r, at, at + PTR)
<1>1. Deref(r, at) = val
  BY DEF Deref, StorePtr
<1>2. ASSUME NEW x \in Int, x + PTR <= at \/ at + PTR <= x
      PROVE  Deref(r, x) = Deref(b, x)
  <2>1. ~Overlaps(x, at, at + PTR) /\ x # at
    BY Sizes, <1>2 DEF Overlaps
  <2> QED
    BY <2>1 DEF Deref, StorePtr
<1> QED
  BY <1>1, <1>2 DEF SameOutside

\* What a word reads after a range that it is not in was erased.
LEMMA ScrubFrame ==
  ASSUME NEW b, NEW r, NEW lo \in Int, NEW hi \in Int, r.mem = Scrub(b.mem, lo, hi)
  PROVE  SameOutside(b, r, lo, hi)
  BY Sizes DEF SameOutside, Deref, Scrub, Overlaps

\* A mark is put on top of the others.
LEMMA MarkArena ==
  ASSUME dir \in Direction, NEW b, ArenaOK(b), NEW P, NEW n, Marked(P, n, b),
         CanAlloc(b, PTR), Forward(b) <=> dir = BS_FORWARD
  PROVE  LET r == bistack_mark(b)
             x == IF dir = BS_FORWARD THEN b.fptr ELSE b.bptr - PTR
         IN /\ ArenaOK(r) /\ r.dir = b.dir
            /\ Newest(r) = x /\ HDR <= x /\ x + PTR <= Size
            /\ Marked(With(P, n, x), n + 1, r)
            /\ IF dir = BS_FORWARD THEN r.fptr = b.fptr + PTR /\ r.bptr = b.bptr
               ELSE r.bptr = b.bptr - PTR /\ r.fptr = b.fptr
<1> DEFINE r == bistack_mark(b)
           x == IF dir = BS_FORWARD THEN b.fptr ELSE b.bptr - PTR
<1>0. /\ b.fptr \in Int /\ b.bptr \in Int /\ b.fmark \in Int /\ b.bmark \in Int
      /\ HDR <= b.fptr /\ b.bptr <= Size /\ b.fptr + PTR <= b.bptr
  BY Fields DEF CanAlloc
<1>1. /\ ArenaOK(r) /\ r.dir = b.dir
      /\ r.mem = StorePtr(b.mem, x, Newest(b)) /\ Newest(r) = x
      /\ IF dir = BS_FORWARD THEN r.fptr = b.fptr + PTR /\ r.bptr = b.bptr
         ELSE r.bptr = b.bptr - PTR /\ r.fptr = b.fptr
  <2>1. CASE dir = BS_FORWARD
    <3>1. r = bistack_markf(b)
      BY <2>1 DEF bistack_mark
    <3> HIDE DEF r
    <3>2. b.fptr + PTR \in Int /\ HDR <= b.fptr + PTR
      BY <1>0, Sizes
    <3>3. /\ ArenaOK(r) /\ r.dir = b.dir /\ r.mem = StorePtr(b.mem, b.fptr, b.fmark)
          /\ r.fptr = b.fptr + PTR /\ r.fmark = b.fptr /\ r.bptr = b.bptr
      BY <1>0, <3>1, <3>2, MarkF DEF ArenaOK
    <3> QED
      BY <2>1, <3>3 DEF Newest
  <2>2. CASE dir # BS_FORWARD
    <3>1. r = bistack_markb(b)
      BY <2>2 DEF bistack_mark
    <3> HIDE DEF r
    <3>2. b.bptr - PTR \in Int /\ b.fptr <= b.bptr - PTR /\ b.bptr - PTR <= Size
      BY <1>0, Sizes
    <3>3. /\ ArenaOK(r) /\ r.dir = b.dir /\ r.mem = StorePtr(b.mem, b.bptr - PTR, b.bmark)
          /\ r.bptr = b.bptr - PTR /\ r.bmark = b.bptr - PTR /\ r.fptr = b.fptr
      BY <1>0, <3>1, <3>2, MarkB DEF ArenaOK
    <3> QED
      BY <2>2, <3>3 DEF Newest
  <2> QED
    BY <2>1, <2>2
<1>2. x \in Int /\ HDR <= x /\ x + PTR <= Size
  BY <1>0, Sizes
<1> HIDE DEF r
<1>3. \A y \in Int : UnderTip(y, PTR, b) => Under(y, PTR, x, PTR) /\ UnderTip(y, PTR, r)
  BY <1>0, <1>1, Sizes DEF UnderTip, Under, Tip
<1>4. UnderTip(x, PTR, r)
  BY <1>0, <1>1, Sizes DEF UnderTip, Under, Tip
<1> HIDE DEF x
<1>5. /\ Deref(r, x) = Newest(b)
      /\ \A y \in Int : UnderTip(y, PTR, b) => Deref(r, y) = Deref(b, y)
  <2>1. \A y \in Int : UnderTip(y, PTR, b) => y + PTR <= x \/ x + PTR <= y
    BY <1>3 DEF Under
  <2> QED
    <3> DEFINE val == Newest(b)
    <3>0. x \in Int /\ r.mem = StorePtr(b.mem, x, val)
      BY <1>1, <1>2
    <3> HIDE DEF val
    <3>1. /\ Deref(r, x) = val
          /\ \A y \in Int : y + PTR <= x \/ x + PTR <= y => Deref(r, y) = Deref(b, y)
      <4>1. Deref(r, x) = val /\ SameOutside(b, r, x, x + PTR)
        BY <3>0, StoreFrame
      <4> QED
        BY <4>1 DEF SameOutside
    <3> QED
      BY <2>1, <3>1 DEF val
<1>6. Marked(With(P, n, x), n + 1, r)
  <2> DEFINE Q == With(P, n, x)
  <2>1. /\ n \in Nat \ {0} /\ P \in [1 .. n -> Int] /\ Newest(b) = P[n]
        /\ \A i \in 1 .. n : /\ HDR <= P[i] /\ P[i] + PTR <= Size /\ UnderTip(P[i], PTR, b)
                             /\ Deref(b, P[i]) = IF i = 1 THEN NULL ELSE P[i - 1]
        /\ \A i, k \in 1 .. n : i < k => Under(P[i], PTR, P[k], PTR)
    BY DEF Marked
  <2>2. /\ Q \in [1 .. n + 1 -> Int] /\ Q[n + 1] = x
        /\ \A i \in 1 .. n : Q[i] = P[i]
    BY <2>1, <1>2 DEF With
  <2> HIDE DEF Q
  <2>3. ASSUME NEW i \in 1 .. n + 1
        PROVE  /\ HDR <= Q[i] /\ Q[i] + PTR <= Size /\ UnderTip(Q[i], PTR, r)
               /\ Deref(r, Q[i]) = IF i = 1 THEN NULL ELSE Q[i - 1]
    <3>1. CASE i = n + 1
      BY <3>1, <2>1, <2>2, <1>2, <1>4, <1>5
    <3>2. CASE i # n + 1
      <4>1. i \in 1 .. n /\ Q[i] = P[i] /\ P[i] \in Int /\ (i # 1 => Q[i - 1] = P[i - 1])
        BY <3>2, <2>1, <2>2
      <4> QED
        BY <4>1, <2>1, <1>3, <1>5
    <3> QED
      BY <3>1, <3>2
  <2>4. ASSUME NEW i \in 1 .. n + 1, NEW k \in 1 .. n + 1, i < k
        PROVE  Under(Q[i], PTR, Q[k], PTR)
    <3>1. i \in 1 .. n /\ Q[i] = P[i] /\ P[i] \in Int
      BY <2>1, <2>2, <2>4
    <3>2. CASE k = n + 1
      BY <3>1, <3>2, <2>1, <2>2, <1>3
    <3>3. CASE k # n + 1
      BY <3>1, <3>3, <2>1, <2>2, <2>4
    <3> QED
      BY <3>2, <3>3
  <2> QED
    <3>1. n + 1 \in Nat \ {0} /\ Newest(r) = Q[n + 1]
      BY <1>1, <2>1, <2>2
    <3>2. Marked(Q, n + 1, r)
      BY <2>2, <2>3, <2>4, <3>1 DEF Marked
    <3> QED
      BY <3>2 DEF Q
<1> QED
  BY <1>1, <1>2, <1>6 DEF r, x

\* The marks without the newest.
Without(P, n) == [i \in 1 .. n - 1 |-> P[i]]

\* The newest mark is undone, and what came after it given back.
LEMMA RewindArena ==
  ASSUME dir \in Direction, NEW b, ArenaOK(b), NEW P, NEW n, Marked(P, n, b), n > 1,
         Forward(b) <=> dir = BS_FORWARD
  PROVE  LET r == bistack_rewind(b) IN
         /\ CanRewind(b)
         /\ ArenaOK(r) /\ r.dir = b.dir /\ Newest(r) = P[n - 1]
         /\ Marked(Without(P, n), n - 1, r)
         /\ IF dir = BS_FORWARD THEN r.fptr = P[n] /\ r.bptr = b.bptr
            ELSE r.bptr = P[n] + PTR /\ r.fptr = b.fptr
<1> DEFINE r == bistack_rewind(b)
           Q == Without(P, n)
<1>1. /\ n \in Nat \ {0} /\ P \in [1 .. n -> Int] /\ Newest(b) = P[n]
      /\ \A i \in 1 .. n : /\ HDR <= P[i] /\ P[i] + PTR <= Size /\ UnderTip(P[i], PTR, b)
                           /\ Deref(b, P[i]) = IF i = 1 THEN NULL ELSE P[i - 1]
      /\ \A i, k \in 1 .. n : i < k => Under(P[i], PTR, P[k], PTR)
  BY DEF Marked
<1>2. /\ P[n] \in Int /\ HDR <= P[n] /\ P[n] + PTR <= Size /\ UnderTip(P[n], PTR, b)
      /\ P[n - 1] \in Int /\ HDR <= P[n - 1] /\ Deref(b, P[n]) = P[n - 1]
  BY <1>1
<1>3. CanRewind(b)
  BY <1>1, <1>2, Sizes DEF CanRewind, HasMark, Newest
<1>4. CASE dir = BS_FORWARD
  <2>1. r = bistack_rewindf(b) /\ b.fmark = P[n]
    BY <1>1, <1>4 DEF bistack_rewind, Newest
  <2>2. P[n] + PTR <= b.fptr
    BY <1>2, <1>4 DEF UnderTip, Under, Tip
  <2>3. /\ ArenaOK(r) /\ r.dir = b.dir /\ r.fptr = P[n] /\ r.bptr = b.bptr
        /\ r.fmark = P[n - 1] /\ r.mem = Scrub(b.mem, P[n], b.fptr)
    <3>1. P[n] <= b.bptr
      BY <1>2, <2>2, Fields, Sizes
    <3> QED
      <4>1. /\ r.fptr = P[n] /\ r.fmark = P[n - 1] /\ r.bptr = b.bptr
            /\ r.dir = b.dir /\ r.mem = Scrub(b.mem, P[n], b.fptr)
            /\ r \in ArenaRec({r.mem})
        BY <1>2, <2>1, RewindF
      <4> QED
        BY <1>2, <4>1, <3>1, Fields DEF ArenaOK
  <2> HIDE DEF r
  <2>4. \A x \in Int : x + PTR <= P[n] => Deref(r, x) = Deref(b, x)
    BY <1>2, <2>3, Fields, ScrubFrame DEF SameOutside
  <2>5. \A i \in 1 .. n - 1 : P[i] + PTR <= P[n]
    BY <1>1, <1>4 DEF Under
  <2> QED
    BY <2>3, <2>4, <2>5, <1>1, <1>3, <1>4 DEF r, Marked, Without, Newest, UnderTip, Under, Tip
<1>5. CASE dir # BS_FORWARD
  <2>1. r = bistack_rewindb(b) /\ b.bmark = P[n]
    BY <1>1, <1>5 DEF bistack_rewind, Newest
  <2>2. b.bptr <= P[n]
    BY <1>2, <1>5, Fields DEF UnderTip, Under, Tip
  <2>3. /\ ArenaOK(r) /\ r.dir = b.dir /\ r.bptr = P[n] + PTR /\ r.fptr = b.fptr
        /\ r.bmark = P[n - 1] /\ r.mem = Scrub(b.mem, b.bptr, P[n] + PTR)
    <3>1. P[n] + PTR \in Int /\ b.fptr <= P[n] + PTR
      BY <1>2, <2>2, Fields, Sizes
    <3> QED
      BY <1>2, <2>1, <3>1, Fields, RewindB DEF ArenaOK
  <2> HIDE DEF r
  <2>4. \A x \in Int : P[n] + PTR <= x => Deref(r, x) = Deref(b, x)
    BY <1>2, <2>3, Fields, ScrubFrame DEF SameOutside
  <2>5. \A i \in 1 .. n - 1 : P[n] + PTR <= P[i]
    BY <1>1, <1>5 DEF Under
  <2>6. \A i \in 1 .. n - 1 : Deref(r, P[i]) = Deref(b, P[i])
    BY <2>4, <2>5, <1>1
  <2>7. Marked(Q, n - 1, r)
    <3>1. /\ n - 1 \in Nat \ {0} /\ Q \in [1 .. n - 1 -> Int]
          /\ \A i \in 1 .. n - 1 : Q[i] = P[i] /\ P[i] \in Int /\ i \in 1 .. n
          /\ Newest(r) = Q[n - 1]
      BY <1>1, <1>5, <2>3 DEF Without, Newest
    <3> HIDE DEF Q
    <3>2. \A i \in 1 .. n - 1 : UnderTip(Q[i], PTR, r)
      BY <1>2, <1>5, <2>3, <2>5, <3>1, Sizes DEF UnderTip, Under, Tip
    <3>3. \A i \in 1 .. n - 1 : i # 1 => i - 1 \in 1 .. n - 1
      BY <1>1
    <3> QED
      BY <1>1, <2>6, <3>1, <3>2, <3>3 DEF Marked
  <2> QED
    BY <2>3, <2>7, <1>3, <1>5 DEF r, Newest
<1> QED
  BY <1>4, <1>5

-----------------------------------------------------------------------------
(* The calls that a function makes in a row.                               *)

Begun(b) == [bs |-> b, ok |-> TRUE]

\* One call.
LEMMA OneCall ==
  ASSUME NEW b, NEW c
  PROVE  PerformAll(b, <<c>>) = After(Begun(b), c)
<1> DEFINE calls == <<c>>
           D == DOMAIN calls
           Step(done, call) == CHOOSE next \in {After(found, call) : found \in {done}} : TRUE
           G(g) == [s \in SUBSET D |->
                      IF s = {} THEN Begun(b)
                      ELSE LET x == Max(s) IN Step(g[s \ {x}], calls[x])]
           iter == CHOOSE g : g = G(g)
           found == [s \in SUBSET D |-> IF s = {} THEN Begun(b) ELSE After(Begun(b), c)]
<1>1. PerformAll(b, calls) = iter[D]
  BY DEF PerformAll, FoldLeft, MapThenFoldSet, Begun
<1>2. \A done, call : Step(done, call) = After(done, call)
  OBVIOUS
<1>3. D = {1} /\ calls[1] = c
  OBVIOUS
<1>4. Max({1}) = 1
  BY DEF Max
<1> HIDE DEF calls, D, Step
<1>5. found = G(found)
  <2>1. ASSUME NEW s \in SUBSET D
        PROVE  found[s] = IF s = {} THEN Begun(b)
                          ELSE Step(found[s \ {Max(s)}], calls[Max(s)])
    <3>1. CASE s = {}
      BY <3>1
    <3>2. CASE s = {1}
      <4>1. found[s] = After(Begun(b), c) /\ found[{}] = Begun(b)
        BY <3>2, <1>3
      <4>2. s \ {Max(s)} = {} /\ calls[Max(s)] = c
        BY <3>2, <1>3, <1>4
      <4> HIDE DEF found
      <4> QED
        BY <4>1, <4>2, <1>2, <3>2
    <3> QED
      BY <1>3, <3>1, <3>2
  <2> QED
    BY <2>1
<1> HIDE DEF found, G
<1>6. iter = G(iter)
  BY <1>5
<1>7. iter[{}] = Begun(b) /\ iter[D] = Step(iter[D \ {Max(D)}], calls[Max(D)])
  <2> HIDE DEF iter
  <2>1. G(iter) = [s \in SUBSET D |->
                      IF s = {} THEN Begun(b)
                      ELSE LET x == Max(s) IN Step(iter[s \ {x}], calls[x])]
    BY DEF G
  <2>2. {} \in SUBSET D /\ D \in SUBSET D /\ D # {}
    BY <1>3
  <2> QED
    BY <1>6, <2>1, <2>2
<1>8. D \ {Max(D)} = {} /\ calls[Max(D)] = c
  BY <1>3, <1>4
<1> HIDE DEF iter
<1>9. iter[D] = After(Begun(b), c)
  BY <1>2, <1>7, <1>8
<1>10. PerformAll(b, calls) = After(Begun(b), c)
  BY <1>1, <1>9
<1> QED
  BY <1>10 DEF calls

\* Two calls.
LEMMA TwoCalls ==
  ASSUME NEW b, NEW c, NEW d
  PROVE  PerformAll(b, <<c, d>>) = After(After(Begun(b), c), d)
<1> DEFINE calls == <<c, d>>
           D == DOMAIN calls
           Step(done, call) == CHOOSE next \in {After(found, call) : found \in {done}} : TRUE
           G(g) == [s \in SUBSET D |->
                      IF s = {} THEN Begun(b)
                      ELSE LET x == Max(s) IN Step(g[s \ {x}], calls[x])]
           iter == CHOOSE g : g = G(g)
           found == [s \in SUBSET D |-> IF s = {} THEN Begun(b)
                                   ELSE IF s = {1} THEN After(Begun(b), c)
                                   ELSE IF s = {2} THEN After(Begun(b), d)
                                   ELSE After(After(Begun(b), c), d)]
<1>1. PerformAll(b, calls) = iter[D]
  BY DEF PerformAll, FoldLeft, MapThenFoldSet, Begun
<1>2. \A done, call : Step(done, call) = After(done, call)
  OBVIOUS
<1>3. D = {1, 2} /\ calls[1] = c /\ calls[2] = d
  OBVIOUS
<1>4. Max({1}) = 1 /\ Max({2}) = 2 /\ Max({1, 2}) = 2
  BY DEF Max
<1> HIDE DEF calls, D, Step
<1>5. found = G(found)
  <2>1. ASSUME NEW s \in SUBSET D
        PROVE  found[s] = IF s = {} THEN Begun(b)
                          ELSE Step(found[s \ {Max(s)}], calls[Max(s)])
    <3>1. CASE s = {}
      BY <3>1
    <3>2. /\ found[{}] = Begun(b) /\ found[{1}] = After(Begun(b), c)
          /\ found[{2}] = After(Begun(b), d) /\ found[{1, 2}] = After(After(Begun(b), c), d)
      <4>1. {1} # {} /\ {2} # {} /\ {1} # {2} /\ {1, 2} # {} /\ {1, 2} # {1} /\ {1, 2} # {2}
        OBVIOUS
      <4> QED
        BY <4>1, <1>3
    <3> HIDE DEF found
    <3>3. CASE s = {1}
      <4>1. s \ {Max(s)} = {} /\ calls[Max(s)] = c /\ s # {}
        BY <3>3, <1>3, <1>4
      <4> QED
        BY <4>1, <1>2, <3>2, <3>3
    <3>4. CASE s = {2}
      <4>1. s \ {Max(s)} = {} /\ calls[Max(s)] = d /\ s # {}
        BY <3>4, <1>3, <1>4
      <4> QED
        BY <4>1, <1>2, <3>2, <3>4
    <3>5. CASE s = {1, 2}
      <4>1. s \ {Max(s)} = {1} /\ calls[Max(s)] = d /\ s # {}
        BY <3>5, <1>3, <1>4
      <4> QED
        BY <4>1, <1>2, <3>2, <3>5
    <3>6. s = {} \/ s = {1} \/ s = {2} \/ s = {1, 2}
      BY <1>3
    <3> QED
      BY <3>1, <3>3, <3>4, <3>5, <3>6
  <2> QED
    BY <2>1
<1> HIDE DEF found, G
<1>6. iter = G(iter)
  BY <1>5
<1>7. \A s \in SUBSET D : iter[s] = IF s = {} THEN Begun(b)
                                    ELSE Step(iter[s \ {Max(s)}], calls[Max(s)])
  <2> HIDE DEF iter
  <2>1. G(iter) = [s \in SUBSET D |->
                      IF s = {} THEN Begun(b)
                      ELSE LET x == Max(s) IN Step(iter[s \ {x}], calls[x])]
    BY DEF G
  <2> QED
    BY <1>6, <2>1
<1> HIDE DEF iter
<1>8. iter[{}] = Begun(b)
  BY <1>7
<1>9. iter[{1}] = After(Begun(b), c)
  <2>1. {1} \in SUBSET D /\ {1} # {} /\ {1} \ {Max({1})} = {} /\ calls[Max({1})] = c
    BY <1>3, <1>4
  <2> QED
    BY <2>1, <1>2, <1>7, <1>8
<1>10. iter[D] = After(After(Begun(b), c), d)
  <2>1. D \in SUBSET D /\ D # {} /\ D \ {Max(D)} = {1} /\ calls[Max(D)] = d
    BY <1>3, <1>4
  <2> QED
    BY <2>1, <1>2, <1>7, <1>9
<1> QED
  BY <1>1, <1>10 DEF calls

\* Pushing a table takes memory twice, and may stop before either.
LEMMA PushMade ==
  LET made == PerformAll(Entered, PushCalls)
      r    == bistack_mark(Entered)
  IN /\ ~CanAlloc(Entered, PTR) => ~made.ok /\ made.bs = Entered
     /\ CanAlloc(Entered, PTR) =>
          /\ ~CanAlloc(r, TABLE) => ~made.ok /\ made.bs = r
          /\ CanAlloc(r, TABLE) => made.ok /\ made.bs = bistack_alloc(r, TABLE)
<1> DEFINE r == bistack_mark(Entered)
           first == After(Begun(Entered), MarkCall)
<1>1. PerformAll(Entered, PushCalls) = After(first, AllocCall(TABLE))
  BY TwoCalls DEF PushCalls
<1>2. first = IF CanAlloc(Entered, PTR) THEN Begun(r) ELSE [bs |-> Entered, ok |-> FALSE]
  BY DEF After, Begun, MarkCall, Perform
<1> HIDE DEF first, r
<1>3. CASE CanAlloc(Entered, PTR)
  <2>1. first.bs = r /\ first.ok = TRUE
    BY <1>2, <1>3 DEF Begun
  <2>2. After(first, AllocCall(TABLE)) =
          IF CanAlloc(r, TABLE) THEN [bs |-> bistack_alloc(r, TABLE), ok |-> TRUE]
          ELSE [bs |-> r, ok |-> FALSE]
    BY <2>1 DEF After, AllocCall, Perform
  <2> QED
    BY <1>1, <1>3, <2>2 DEF r
<1>4. CASE ~CanAlloc(Entered, PTR)
  <2>1. first.bs = Entered /\ first.ok = FALSE
    BY <1>2, <1>4
  <2>2. After(first, AllocCall(TABLE)) = [bs |-> Entered, ok |-> FALSE]
    BY <2>1 DEF After
  <2> QED
    BY <1>1, <1>4, <2>2
<1> QED
  BY <1>3, <1>4

\* Binding a symbol takes memory once.
LEMMA BindMade ==
  LET made == PerformAll(Entered, <<AllocCall(NODE)>>)
  IN IF CanAlloc(Entered, NODE)
       THEN made.ok /\ made.bs = bistack_alloc(Entered, NODE)
       ELSE ~made.ok /\ made.bs = Entered
<1>1. PerformAll(Entered, <<AllocCall(NODE)>>) = After(Begun(Entered), AllocCall(NODE))
  BY OneCall
<1>2. After(Begun(Entered), AllocCall(NODE)) =
        IF CanAlloc(Entered, NODE) THEN [bs |-> bistack_alloc(Entered, NODE), ok |-> TRUE]
        ELSE [bs |-> Entered, ok |-> FALSE]
  BY DEF After, Begun, AllocCall, Perform
<1> QED
  BY <1>1, <1>2

-----------------------------------------------------------------------------
(* The invariant.                                                          *)

\* The m bytes at x are those of table t or of one of its nodes.
Held(t, x, m) == (x = t /\ m = TABLE) \/ (x \in tables[t].nodes /\ m = NODE)

\* The tables of the chain lie at T[1] .. T[j], the outermost first.
Nested(T, j) ==
  /\ j \in Nat /\ T \in [1 .. j -> Int]
  /\ DOMAIN tables = {T[i] : i \in 1 .. j}
  /\ \A i \in 1 .. j :
       /\ HDR <= T[i]
       /\ tables[T[i]] \in [outer : Int, nodes : SUBSET Int]
       /\ tables[T[i]].outer = IF i = 1 THEN NULL ELSE T[i - 1]
  /\ \A i, k \in 1 .. j : T[i] = T[k] => i = k
  /\ innerbindings = IF j = 0 THEN NULL ELSE T[j]

\* There are as many marks above a table and its nodes as tables further in,
\* at least, so that the pops of these tables leave it.
Placed(P, n, T, j, b) ==
  /\ j < n
  /\ \A i \in 1 .. j : \A x, m : Held(T[i], x, m) =>
       IF i = j THEN UnderTip(x, m, b) ELSE Under(x, m, P[(i + n + 1) - j], PTR)

\* Tables and nodes share no byte.
Distinct(T, j) ==
  \A i, k \in 1 .. j : \A x, m, y, q :
    Held(T[i], x, m) /\ Held(T[k], y, q) =>
      (x = y /\ m = q) \/ x + m <= y \/ y + q <= x

\* Where the pointer was when the mark at x was made.
Base(x) == IF dir = BS_FORWARD THEN x ELSE x + PTR

Scope == [before : Int \X Int \X [0 .. DirBits - 1 -> Direction], abandoned : Nat, first : BOOLEAN]

\* The mark of a scope in which nothing was abandoned is as far from the
\* newest as its table is from the innermost, and leads back to before it.
Scoped(P, n, T, j, d) ==
  /\ scopes \in Seq(Scope) /\ Len(scopes) = j
  /\ \A i \in 1 .. j :
       /\ scopes[i].abandoned <= abandoned
       /\ scopes[i].abandoned = abandoned =>
            scopes[i].before = <<Base(P[(i + n) - j]), P[(i + n) - (j + 1)], d>>
  /\ j > 0 /\ scopes[1].first => globalbindings = T[1]

\* The host is at the other end and its direction in force.
HostApart == abandoned = 0 /\ dir # Host

HostsKept(b, hs) ==
  /\ hs \subseteq Int
  /\ HostApart => /\ \A h \in hs : b.bptr <= h
                  /\ \A h, g \in hs : h = g \/ h + HostBlock <= g \/ g + HostBlock <= h

EnvInv ==
  /\ dir \in Direction /\ abandoned \in Nat
  /\ ArenaOK(bs) /\ (abandoned = 0 => bs.dir[0] = Host)
  /\ HostsKept(bs, hosts)
  /\ \E P, n, T, j :
       /\ Marked(P, n, bs) /\ Nested(T, j)
       /\ Placed(P, n, T, j, bs) /\ Distinct(T, j) /\ Scoped(P, n, T, j, bs.dir)

-----------------------------------------------------------------------------
(* The chain, which its recursion follows from the innermost table on.     *)

\* A set of numbers that is not empty has a least one.
LEMMA NatMinimum ==
  ASSUME NEW U, U \subseteq Nat, U # {}
  PROVE \E n \in U : \A m \in U : n <= m
<1> DEFINE V == {1 .. n : n \in U}
<1>1. IsWellFoundedOn(StrictSubsetOrdering(Nat), FiniteSubsetsOf(Nat))
  BY FS_StrictSubsetOrderingWellFounded
<1>2. \A n \in U : IsFiniteSet(1 .. n) /\ 1 .. n \in SUBSET Nat
  BY FS_Interval
<1>3. V \subseteq FiniteSubsetsOf(Nat) /\ V # {}
  BY <1>2 DEF FiniteSubsetsOf
<1>4. PICK x \in V : \A y \in V : ~ (<<y, x>> \in StrictSubsetOrdering(Nat))
  BY <1>1, <1>3, WFMin
<1>5. PICK n \in U : x = 1 .. n
  OBVIOUS
<1>6. ASSUME NEW m \in U, m < n PROVE FALSE
  <2>1. 1 .. m \in V /\ 1 .. m \subseteq 1 .. n /\ n \in 1 .. n /\ n \notin 1 .. m
    BY <1>6
  <2>2. <<1 .. m, 1 .. n>> \in StrictSubsetOrdering(Nat)
    BY <2>1, <1>2 DEF StrictSubsetOrdering
  <2> QED BY <1>4, <1>5, <2>1, <2>2
<1> QED
  BY <1>6

\* The first i of the tables, the last of them first.
Inward(T, i) == [k \in 1 .. i |-> T[(i + 1) - k]]

\* An element before a sequence.
LEMMA Before ==
  ASSUME NEW n \in Nat, NEW s \in [1 .. n -> Int], NEW y \in Int
  PROVE  <<y>> \o s = [k \in 1 .. n + 1 |-> IF k = 1 THEN y ELSE s[k - 1]]
<1>1. s \in Seq(Int) /\ Len(s) = n
  OBVIOUS
<1>2. <<y>> \in Seq(Int) /\ Len(<<y>>) = 1 /\ <<y>>[1] = y
  OBVIOUS
<1>3. PICK one \in Seq(Int) : one = <<y>> /\ Len(one) = 1 /\ one[1] = y
  BY <1>2
<1>4. PICK t \in Seq(Int) :
        /\ t = one \o s /\ Len(t) = Len(one) + Len(s)
        /\ \A k \in 1 .. Len(one) + Len(s) :
             t[k] = IF k <= Len(one) THEN one[k] ELSE s[k - Len(one)]
  <2>1. /\ one \o s \in Seq(Int) /\ Len(one \o s) = Len(one) + Len(s)
        /\ \A k \in 1 .. Len(one) + Len(s) :
             (one \o s)[k] = IF k <= Len(one) THEN one[k] ELSE s[k - Len(one)]
    BY <1>1, ConcatProperties
  <2> QED
    BY <2>1
<1>5. Len(t) = n + 1 /\ \A k \in 1 .. n + 1 : t[k] = IF k <= 1 THEN one[k] ELSE s[k - 1]
  <2>1. Len(one) + Len(s) = n + 1
    BY <1>1, <1>3
  <2> QED
    BY <1>3, <1>4, <2>1
<1>6. t = [k \in 1 .. n + 1 |-> t[k]]
  BY <1>5, LenProperties
<1>7. \A k \in 1 .. n + 1 : (k <= 1 <=> k = 1)
  OBVIOUS
<1> QED
  BY <1>3, <1>4, <1>5, <1>6, <1>7

\* The i-th table before those that it is inside of.
LEMMA InwardGrows ==
  ASSUME NEW j \in Nat, NEW T \in [1 .. j -> Int], NEW i \in 1 .. j
  PROVE  <<T[i]>> \o Inward(T, i - 1) = Inward(T, i)
<1>1. PICK n \in Nat : n = i - 1 /\ n + 1 = i
  OBVIOUS
<1>2. PICK y \in Int : y = T[i]
  OBVIOUS
<1>3. PICK s \in [1 .. n -> Int] : s = Inward(T, n)
  <2>1. \A k \in 1 .. n : T[(n + 1) - k] \in Int
    BY <1>1
  <2>2. Inward(T, n) \in [1 .. n -> Int]
    BY <2>1 DEF Inward
  <2> QED
    BY <2>2
<1>4. <<y>> \o s = [k \in 1 .. n + 1 |-> IF k = 1 THEN y ELSE s[k - 1]]
  BY Before
<1>5. ASSUME NEW k \in 1 .. n + 1
      PROVE  (IF k = 1 THEN y ELSE s[k - 1]) = T[((n + 1) + 1) - k]
  <2>1. CASE k = 1
    BY <2>1, <1>1, <1>2
  <2>2. CASE k # 1
    <3>1. k - 1 \in 1 .. n /\ (n + 1) - (k - 1) = ((n + 1) + 1) - k
      BY <2>2
    <3>2. s[k - 1] = T[(n + 1) - (k - 1)]
      BY <1>3, <3>1 DEF Inward
    <3> QED
      BY <2>2, <3>1, <3>2
  <2> QED
    BY <2>1, <2>2
<1>6. <<y>> \o s = Inward(T, n + 1)
  BY <1>4, <1>5 DEF Inward
<1> QED
  BY <1>1, <1>2, <1>3, <1>6

\* The chain is the tables, the innermost first.
LEMMA ChainIsNested ==
  ASSUME NEW T, NEW j, Nested(T, j)
  PROVE  Chain = Inward(T, j)
<1> DEFINE D == DOMAIN tables \cup {NULL}
           G(f) == [t \in D |-> IF t = NULL THEN <<>> ELSE <<t>> \o f[tables[t].outer]]
           from == CHOOSE f : f = G(f)
           found == [t \in D |-> IF t = NULL THEN <<>>
                                 ELSE Inward(T, CHOOSE i \in 1 .. j : T[i] = t)]
           At(i) == IF i = 0 THEN NULL ELSE T[i]
<1>1. /\ j \in Nat /\ T \in [1 .. j -> Int] /\ DOMAIN tables = {T[i] : i \in 1 .. j}
      /\ \A i \in 1 .. j : T[i] # NULL /\ tables[T[i]].outer = At(i - 1)
      /\ \A i, k \in 1 .. j : T[i] = T[k] => i = k
      /\ innerbindings = At(j)
  BY Sizes DEF Nested
<1>2. Inward(T, 0) = <<>>
  BY DEF Inward
<1>3. \A i \in 0 .. j : At(i) \in D
  BY <1>1
<1>4. \A t \in D : \E i \in 0 .. j : t = At(i)
  <2>1. 0 \in 0 .. j /\ At(0) = NULL
    BY <1>1
  <2>2. \A i \in 1 .. j : i \in 0 .. j /\ At(i) = T[i]
    BY <1>1
  <2> QED
    BY <1>1, <2>1, <2>2
<1>5. \A i \in 0 .. j : found[At(i)] = Inward(T, i)
  <2>1. TAKE i \in 0 .. j
  <2>2. CASE i = 0
    BY <1>2, <2>2
  <2>3. CASE i # 0
    <3>1. (CHOOSE k \in 1 .. j : T[k] = T[i]) = i
      BY <1>1, <2>3
    <3>2. i \in 1 .. j /\ T[i] \in D /\ T[i] # NULL /\ At(i) = T[i]
      BY <1>1, <1>3, <2>3
    <3> QED
      BY <3>1, <3>2
  <2> QED
    BY <2>2, <2>3
<1> HIDE DEF found
<1>6. found = G(found)
  <2>1. found = [t \in D |-> found[t]]
    BY DEF found
  <2>2. ASSUME NEW t \in D
        PROVE  found[t] = IF t = NULL THEN <<>> ELSE <<t>> \o found[tables[t].outer]
    <3>1. PICK i \in 0 .. j : t = At(i)
      BY <1>4
    <3>2. CASE i = 0
      BY <3>1, <3>2, <1>2, <1>5
    <3>3. CASE i # 0
      <4>1. i \in 1 .. j /\ i - 1 \in 0 .. j /\ t = T[i]
        BY <1>1, <3>1, <3>3
      <4>2. tables[t].outer = At(i - 1) /\ t # NULL
        BY <1>1, <4>1
      <4>3. found[t] = Inward(T, i) /\ found[At(i - 1)] = Inward(T, i - 1)
        BY <1>5, <3>1, <4>1
      <4>4. <<T[i]>> \o Inward(T, i - 1) = Inward(T, i)
        BY <1>1, <4>1, InwardGrows
      <4> QED
        BY <4>1, <4>2, <4>3, <4>4
    <3> QED
      BY <3>2, <3>3
  <2> QED
    BY <2>1, <2>2
<1> HIDE DEF G
<1>7. from = G(from)
  BY <1>6
<1>8. Chain = from[innerbindings]
  BY DEF Chain, G
<1> HIDE DEF from
<1>9. \A t \in D : from[t] = IF t = NULL THEN <<>> ELSE <<t>> \o from[tables[t].outer]
  <2>1. G(from) = [t \in D |-> IF t = NULL THEN <<>> ELSE <<t>> \o from[tables[t].outer]]
    BY DEF G
  <2> QED
    BY <1>7, <2>1
<1>10. \A i \in 0 .. j : from[At(i)] = Inward(T, i)
  <2> DEFINE Wrong == {i \in 0 .. j : from[At(i)] # Inward(T, i)}
  <2>1. SUFFICES ASSUME Wrong # {} PROVE FALSE
    OBVIOUS
  <2>2. PICK i \in Wrong : \A k \in Wrong : i <= k
    <3>1. Wrong \subseteq Nat
      BY <1>1
    <3> QED
      BY <2>1, <3>1, NatMinimum
  <2>3. i \in 0 .. j /\ from[At(i)] # Inward(T, i)
    BY <2>2
  <2>4. i # 0
    BY <1>2, <1>3, <1>9, <2>3
  <2>5. i \in 1 .. j /\ i - 1 \in 0 .. j /\ i - 1 \notin Wrong
    BY <1>1, <2>2, <2>3, <2>4
  <2>6. from[At(i - 1)] = Inward(T, i - 1)
    BY <2>5
  <2>7. from[T[i]] = <<T[i]>> \o from[At(i - 1)]
    <3>1. T[i] \in D /\ T[i] # NULL /\ tables[T[i]].outer = At(i - 1)
      BY <1>1, <2>5
    <3> QED
      BY <1>9, <3>1
  <2>8. <<T[i]>> \o Inward(T, i - 1) = Inward(T, i)
    <3>1. j \in Nat /\ T \in [1 .. j -> Int] /\ i \in 1 .. j
      BY <1>1, <2>5
    <3> QED
      BY <3>1, InwardGrows
  <2> QED
    BY <2>3, <2>4, <2>6, <2>7, <2>8
<1> QED
  BY <1>1, <1>8, <1>10

-----------------------------------------------------------------------------
(* The parts of the invariant under a step.                                *)

\* What is held is bytes of the arena's addresses.
LEMMA HeldTypes ==
  ASSUME NEW T, NEW j, Nested(T, j), NEW i \in 1 .. j, NEW x, NEW m, Held(T[i], x, m)
  PROVE  x \in Int /\ m \in Nat \ {0}
  BY Sizes DEF Nested, Held

\* What was there before the pointer was moved on is so still.
LEMMA StillUnder ==
  ASSUME dir \in Direction, NEW b, NEW r, ArenaOK(b), ArenaOK(r), UnderTip(Tip(b), 0, r)
  PROVE  \A x \in Int, m \in Nat : UnderTip(x, m, b) => UnderTip(x, m, r)
<1>1. b.fptr \in Int /\ b.bptr \in Int /\ r.fptr \in Int /\ r.bptr \in Int
  BY Fields
<1> QED
  BY <1>1 DEF UnderTip, Under, Tip

\* A pointer that moves on leaves tables and nodes in their places.
LEMMA KeepPlaced ==
  ASSUME dir \in Direction, NEW P, NEW n, NEW T, NEW j, NEW b, NEW r,
         Nested(T, j), Placed(P, n, T, j, b), ArenaOK(b), ArenaOK(r),
         UnderTip(Tip(b), 0, r)
  PROVE  Placed(P, n, T, j, r)
<1>1. ASSUME NEW i \in 1 .. j, NEW x, NEW m, Held(T[i], x, m), i = j
      PROVE  UnderTip(x, m, r)
  <2>1. x \in Int /\ m \in Nat
    BY <1>1, HeldTypes
  <2>2. UnderTip(x, m, b)
    BY <1>1 DEF Placed
  <2> QED
    BY <2>1, <2>2, StillUnder
<1> QED
  BY <1>1 DEF Placed

\* A mark that is left behind is above all of them, too.
LEMMA MarkPlaced ==
  ASSUME dir \in Direction, NEW P, NEW n, NEW T, NEW j, NEW b, NEW r, NEW at \in Int,
         Nested(T, j), Placed(P, n, T, j, b), Marked(P, n, b), ArenaOK(b), ArenaOK(r),
         \A x \in Int, m \in Nat : UnderTip(x, m, b) => Under(x, m, at, PTR),
         UnderTip(at, PTR, r)
  PROVE  Placed(With(P, n, at), n + 1, T, j, r)
<1>1. n \in Nat /\ P \in [1 .. n -> Int] /\ j \in Nat /\ j < n
  BY DEF Marked, Placed, Nested
<1>2. /\ With(P, n, at)[n + 1] = at
      /\ \A k \in 1 .. n : With(P, n, at)[k] = P[k]
  BY <1>1 DEF With
<1>3. ASSUME NEW i \in 1 .. j, NEW x, NEW m, Held(T[i], x, m)
      PROVE  /\ Under(x, m, at, PTR)
             /\ i = j => UnderTip(x, m, r)
             /\ i # j => Under(x, m, With(P, n, at)[(i + (n + 1) + 1) - j], PTR)
  <2>1. x \in Int /\ m \in Nat
    BY <1>3, HeldTypes
  <2>2. CASE i = j
    <3>1. Under(x, m, at, PTR)
      BY <1>3, <2>1, <2>2 DEF Placed
    <3>2. UnderTip(x, m, r)
      <4>1. r.fptr \in Int /\ r.bptr \in Int
        BY Fields
      <4> QED
        BY <2>1, <3>1, <4>1, Sizes DEF UnderTip, Under, Tip
    <3> QED
      BY <2>2, <3>1, <3>2
  <2>3. CASE i # j
    <3>1. PICK k \in 1 .. n : k = (i + n + 1) - j /\ (i + (n + 1) + 1) - j = k + 1
      BY <1>1, <2>3
    <3>2. Under(x, m, P[k], PTR)
      BY <1>3, <2>3, <3>1 DEF Placed
    <3>3. Under(P[k], PTR, at, PTR) /\ P[k] \in Int
      BY <1>1, Sizes DEF Marked
    <3>4. Under(x, m, at, PTR)
      BY <2>1, <3>2, <3>3, Sizes DEF Under
    <3>5. CASE k = n
      BY <1>2, <2>3, <3>1, <3>4, <3>5
    <3>6. CASE k # n
      <4>1. k + 1 \in 1 .. n /\ With(P, n, at)[k + 1] = P[k + 1] /\ P[k + 1] \in Int
        BY <1>1, <1>2, <3>6
      <4>2. Under(P[k], PTR, P[k + 1], PTR)
        BY <4>1 DEF Marked
      <4>3. Under(x, m, P[k + 1], PTR)
        BY <2>1, <3>2, <3>3, <4>1, <4>2, Sizes DEF Under
      <4> QED
        BY <2>3, <3>1, <3>4, <4>1, <4>3
    <3> QED
      BY <3>5, <3>6
  <2> QED
    BY <2>2, <2>3
<1>4. j < n + 1
  BY <1>1
<1> QED
  BY <1>3, <1>4 DEF Placed

\* The parts of the invariant after a step that leaves the environment alone.
LEMMA SameTables ==
  ASSUME UNCHANGED <<dir, environment>>
  PROVE  /\ \A T, j : Nested(T, j)' <=> Nested(T, j)
         /\ \A T, j : Distinct(T, j)' <=> Distinct(T, j)
<1>1. tables' = tables /\ innerbindings' = innerbindings
  BY DEF environment
<1> QED
  BY <1>1 DEF Nested, Distinct, Held

\* A step in terms of the arena and the parts of the invariant, where the
\* direction is what it was.
LEMMA Rebuilt ==
  ASSUME UNCHANGED dir, dir \in Direction, abandoned' \in Nat, ArenaOK(bs'),
         abandoned' = 0 => bs'.dir[0] = Host, HostsKept(bs, hosts)',
         NEW P, NEW n, NEW T, NEW j,
         Marked(P, n, bs'), Nested(T, j)', Placed(P, n, T, j, bs)', Distinct(T, j)',
         Scoped(P, n, T, j, bs.dir)'
  PROVE  EnvInv'
<1>1. ArenaOK(bs)'
  BY DEF ArenaOK
<1>2. Marked(P, n, bs)'
  BY DEF Marked, UnderTip, Under, Tip, Newest
<1> QED
  BY <1>1, <1>2 DEF EnvInv

\* Nothing changes that the invariant is about.
LEMMA SameEnvironment ==
  ASSUME EnvInv, UNCHANGED <<bs, dir, environment, hosts, abandoned>>
  PROVE  EnvInv' /\ scopes' = scopes
<1>1. /\ bs' = bs /\ dir' = dir /\ tables' = tables /\ innerbindings' = innerbindings
      /\ globalbindings' = globalbindings /\ scopes' = scopes
      /\ hosts' = hosts /\ abandoned' = abandoned
  BY DEF environment
<1> QED
  <2>1. PICK P, n, T, j :
          /\ Marked(P, n, bs) /\ Nested(T, j)
          /\ Placed(P, n, T, j, bs) /\ Distinct(T, j) /\ Scoped(P, n, T, j, bs.dir)
    BY DEF EnvInv
  <2>2. HostsKept(bs, hosts)'
    BY <1>1 DEF EnvInv, HostsKept, HostApart
  <2>3. Nested(T, j)' /\ Distinct(T, j)'
    BY <1>1, <2>1, SameTables DEF environment
  <2>4. Placed(P, n, T, j, bs)'
    BY <1>1, <2>1 DEF Placed, Held, UnderTip, Under, Tip
  <2>5. Scoped(P, n, T, j, bs.dir)'
    BY <1>1, <2>1 DEF Scoped, Base
  <2> QED
    BY <1>1, <2>1, <2>2, <2>3, <2>4, <2>5, Rebuilt DEF EnvInv

\* A call is abandoned that may have left a mark behind.
LEMMA AbandonStep ==
  ASSUME EnvInv, NEW b, Abandon(b), UNCHANGED <<dir, hosts>>, ArenaOK(b),
         \A P, n, T, j : Marked(P, n, bs) /\ Nested(T, j) /\ Placed(P, n, T, j, bs) =>
            \E Q, q : Marked(Q, q, b) /\ Placed(Q, q, T, j, b)
  PROVE  EnvInv' /\ scopes' = scopes
<1>1. /\ bs' = b /\ dir' = dir /\ abandoned' = abandoned + 1 /\ tables' = tables
      /\ innerbindings' = innerbindings /\ globalbindings' = globalbindings
      /\ scopes' = scopes /\ hosts' = hosts
  BY DEF Abandon, environment
<1>2. PICK P, n, T, j :
        /\ Marked(P, n, bs) /\ Nested(T, j)
        /\ Placed(P, n, T, j, bs) /\ Distinct(T, j) /\ Scoped(P, n, T, j, bs.dir)
  BY DEF EnvInv
<1>3. PICK Q, q : Marked(Q, q, b) /\ Placed(Q, q, T, j, b)
  BY <1>2
<1>4. abandoned \in Nat /\ abandoned' \in Nat /\ abandoned' # 0
  BY <1>1 DEF EnvInv
<1>5. HostsKept(bs, hosts)'
  BY <1>1, <1>4 DEF EnvInv, HostsKept, HostApart
<1>6. Nested(T, j)' /\ Distinct(T, j)' /\ Placed(Q, q, T, j, bs)'
  <2>1. Nested(T, j)' /\ Distinct(T, j)'
    BY <1>1, <1>2, SameTables DEF environment
  <2>2. Placed(Q, q, T, j, bs)'
    BY <1>1, <1>3 DEF Placed, Held, UnderTip, Under, Tip
  <2> QED
    BY <2>1, <2>2
<1>7. Scoped(Q, q, T, j, bs.dir)'
  <2>1. scopes \in Seq(Scope) /\ Len(scopes) = j
    BY <1>2 DEF Scoped
  <2>2. \A i \in 1 .. j : /\ scopes[i] \in Scope /\ scopes[i].abandoned \in Nat
                          /\ scopes[i].abandoned <= abandoned
    <3>1. TAKE i \in 1 .. j
    <3>2. scopes[i] \in Scope
      BY <2>1
    <3>3. scopes[i].abandoned \in Nat
      BY <3>2 DEF Scope
    <3> QED
      BY <1>2, <3>2, <3>3 DEF Scoped
  <2>3. \A i \in 1 .. j : scopes[i].abandoned <= abandoned' /\ scopes[i].abandoned # abandoned'
    BY <1>1, <1>4, <2>2
  <2> QED
    BY <1>1, <1>2, <2>1, <2>3 DEF Scoped
<1> QED
  BY <1>1, <1>3, <1>4, <1>5, <1>6, <1>7, Rebuilt DEF EnvInv

\* All that is in the chain was there before the pointer came to where it is.
LEMMA HeldUnderTip ==
  ASSUME dir \in Direction, NEW P, NEW n, NEW T, NEW j, NEW b, ArenaOK(b), Marked(P, n, b),
         Nested(T, j), Placed(P, n, T, j, b), NEW i \in 1 .. j, NEW x, NEW m, Held(T[i], x, m)
  PROVE  x \in Int /\ m \in Nat /\ UnderTip(x, m, b)
<1>1. x \in Int /\ m \in Nat \ {0}
  BY HeldTypes
<1>2. CASE i = j
  BY <1>1, <1>2 DEF Placed
<1>3. CASE i # j
  <2>1. j \in Nat /\ n \in Nat /\ j < n /\ P \in [1 .. n -> Int]
    BY DEF Nested, Placed, Marked
  <2>2. PICK k \in 1 .. n : k = (i + n + 1) - j
    BY <2>1, <1>3
  <2>3. Under(x, m, P[k], PTR) /\ UnderTip(P[k], PTR, b) /\ P[k] \in Int
    BY <1>3, <2>1, <2>2 DEF Placed, Marked
  <2>4. b.fptr \in Int /\ b.bptr \in Int
    BY Fields
  <2> QED
    BY <1>1, <2>3, <2>4, Sizes DEF UnderTip, Under, Tip
<1> QED
  BY <1>1, <1>2, <1>3

-----------------------------------------------------------------------------
(* One lemma per action.                                                   *)

\* What a function of the environment finds once it has pushed its direction.
LEMMA Begins ==
  ASSUME EnvInv
  PROVE  /\ dir \in Direction /\ ArenaOK(bs) /\ ArenaOK(Entered)
         /\ Entered.fptr = bs.fptr /\ Entered.bptr = bs.bptr /\ Entered.mem = bs.mem
         /\ Tip(Entered) = Tip(bs) /\ Newest(Entered) = Newest(bs)
         /\ Forward(Entered) <=> dir = BS_FORWARD
         /\ \A P, n : Marked(P, n, bs) => Marked(P, n, Entered)
         /\ \A x, m : UnderTip(x, m, bs) <=> UnderTip(x, m, Entered)
         /\ \A P, n, T, j : Placed(P, n, T, j, bs) => Placed(P, n, T, j, Entered)
<1>1. dir \in Direction /\ ArenaOK(bs)
  BY DEF EnvInv
<1>2. /\ ArenaOK(Entered) /\ Entered.mem = bs.mem
      /\ Entered.fptr = bs.fptr /\ Entered.fmark = bs.fmark
      /\ Entered.bptr = bs.bptr /\ Entered.bmark = bs.bmark
      /\ Forward(Entered) <=> dir = BS_FORWARD
  BY <1>1, EnterArena
<1>3. Tip(Entered) = Tip(bs) /\ Newest(Entered) = Newest(bs)
  BY <1>2 DEF Tip, Newest
<1>4. \A x, m : UnderTip(x, m, bs) <=> UnderTip(x, m, Entered)
  BY <1>3 DEF UnderTip
<1>5. \A P, n : Marked(P, n, bs) => Marked(P, n, Entered)
  BY <1>2, <1>3, <1>4 DEF Marked, Deref
<1>6. \A P, n, T, j : Placed(P, n, T, j, bs) => Placed(P, n, T, j, Entered)
  BY <1>4 DEF Placed
<1> QED
  BY <1>1, <1>2, <1>3, <1>4, <1>5, <1>6

\* What it leaves once it has popped it.
LEMMA Ended ==
  ASSUME EnvInv, CanPushDir(bs), NEW b, ArenaOK(b), b.dir = Entered.dir
  PROVE  /\ ArenaOK(Left(b)) /\ Left(b).dir = bs.dir
         /\ Left(b).fptr = b.fptr /\ Left(b).bptr = b.bptr
         /\ Newest(Left(b)) = Newest(b) /\ Tip(Left(b)) = Tip(b)
         /\ \A P, n : Marked(P, n, b) => Marked(P, n, Left(b))
         /\ \A P, n, T, j : Placed(P, n, T, j, b) => Placed(P, n, T, j, Left(b))
<1>1. /\ ArenaOK(Left(b)) /\ Left(b).mem = b.mem /\ Left(b).dir = bs.dir
      /\ Left(b).fptr = b.fptr /\ Left(b).fmark = b.fmark
      /\ Left(b).bptr = b.bptr /\ Left(b).bmark = b.bmark
  BY LeaveArena DEF EnvInv
<1>2. Tip(Left(b)) = Tip(b) /\ Newest(Left(b)) = Newest(b)
  BY <1>1 DEF Tip, Newest
<1>3. \A x, m : UnderTip(x, m, b) <=> UnderTip(x, m, Left(b))
  BY <1>2 DEF UnderTip
<1>4. \A P, n : Marked(P, n, b) => Marked(P, n, Left(b))
  BY <1>1, <1>2, <1>3 DEF Marked, Deref
<1>5. \A P, n, T, j : Placed(P, n, T, j, b) => Placed(P, n, T, j, Left(b))
  BY <1>3 DEF Placed
<1> QED
  BY <1>1, <1>2, <1>4, <1>5

\* The host's blocks are where they were as long as its end does not move
\* towards them, and an abandoned call gives up on them.
LEMMA KeepHosts ==
  ASSUME EnvInv, ArenaOK(bs'), UNCHANGED <<dir, hosts, abandoned>>,
         dir = BS_FORWARD => bs'.bptr = bs.bptr
  PROVE  HostsKept(bs, hosts)'
<1>1. HostApart => dir = BS_FORWARD
  BY Sizes DEF HostApart, EnvInv, Direction
<1>2. HostApart' = HostApart
  BY DEF HostApart
<1> QED
  BY <1>1, <1>2 DEF EnvInv, HostsKept

\* What a sequence that was extended holds.
LEMMA WithValues ==
  ASSUME NEW n \in Nat, NEW P \in [1 .. n -> Int], NEW x \in Int
  PROVE  /\ With(P, n, x) \in [1 .. n + 1 -> Int] /\ With(P, n, x)[n + 1] = x
         /\ \A i \in 1 .. n : With(P, n, x)[i] = P[i]
<1>1. \A i \in 1 .. n : i \in 1 .. n + 1 /\ i # n + 1
  OBVIOUS
<1>2. \A i \in 1 .. n + 1 : i = n + 1 \/ i \in 1 .. n
  OBVIOUS
<1> QED
  BY <1>1, <1>2 DEF With

\* A table and its mark are put on top.
LEMMA PushedStep ==
  ASSUME EnvInv, env_pushsymtable, Runs(TRUE), CanAlloc(Entered, PTR),
         CanAlloc(bistack_mark(Entered), TABLE)
  PROVE  EnvInv' /\ scopes' = Append(scopes, Pushed)
<1>0. PICK r, s, st, at :
        /\ r = bistack_mark(Entered) /\ s = bistack_alloc(r, TABLE)
        /\ st = NextAt(r, TABLE)
        /\ at = IF dir = BS_FORWARD THEN Entered.fptr ELSE Entered.bptr - PTR
  OBVIOUS
<1>1. PICK P, n, T, j :
        /\ Marked(P, n, bs) /\ Nested(T, j)
        /\ Placed(P, n, T, j, bs) /\ Distinct(T, j) /\ Scoped(P, n, T, j, bs.dir)
  BY DEF EnvInv
<1>2. /\ dir \in Direction /\ ArenaOK(bs) /\ ArenaOK(Entered)
      /\ Entered.fptr = bs.fptr /\ Entered.bptr = bs.bptr
      /\ Forward(Entered) <=> dir = BS_FORWARD
      /\ Marked(P, n, Entered) /\ Placed(P, n, T, j, Entered)
      /\ \A x, m : UnderTip(x, m, bs) <=> UnderTip(x, m, Entered)
      /\ Newest(Entered) = Newest(bs)
  BY <1>1, Begins
<1>3. /\ bs' = Left(s)
      /\ tables' = [t \in DOMAIN tables \cup {st} |->
                      IF t = st THEN [outer |-> innerbindings, nodes |-> {}] ELSE tables[t]]
      /\ innerbindings' = st
      /\ globalbindings' = IF globalbindings = NULL THEN st ELSE globalbindings
      /\ scopes' = Append(scopes, Pushed)
      /\ abandoned' = abandoned /\ dir' = dir /\ hosts' = hosts
  <2>1. /\ PerformAll(Entered, PushCalls).ok
        /\ PerformAll(Entered, PushCalls).bs = bistack_alloc(bistack_mark(Entered), TABLE)
    BY PushMade
  <2> QED
    BY <1>0, <2>1 DEF env_pushsymtable
<1>4. /\ ArenaOK(r) /\ r.dir = Entered.dir /\ Newest(r) = at
      /\ HDR <= at /\ at + PTR <= Size
      /\ Marked(With(P, n, at), n + 1, r)
      /\ IF dir = BS_FORWARD THEN r.fptr = Entered.fptr + PTR /\ r.bptr = Entered.bptr
         ELSE r.bptr = Entered.bptr - PTR /\ r.fptr = Entered.fptr
  BY <1>0, <1>2, MarkArena
<1>5. Forward(r) <=> dir = BS_FORWARD
  BY <1>2, <1>4 DEF Forward, bistack_dir
<1>6. /\ ArenaOK(s) /\ s.mem = r.mem /\ s.dir = r.dir
      /\ s.fmark = r.fmark /\ s.bmark = r.bmark
      /\ IF Forward(r) THEN s.fptr = r.fptr + TABLE /\ s.bptr = r.bptr
         ELSE s.bptr = r.bptr - TABLE /\ s.fptr = r.fptr
  <2>1. TABLE \in Nat /\ CanAlloc(r, TABLE)
    BY <1>0, Sizes
  <2> QED
    BY <1>0, <1>4, <2>1, AllocArena
<1>7. st = IF dir = BS_FORWARD THEN r.fptr ELSE r.bptr - TABLE
  BY <1>0, <1>5 DEF NextAt
<1>8. /\ bs.fptr \in Int /\ bs.bptr \in Int /\ at \in Int /\ st \in Int
      /\ HDR <= bs.fptr /\ bs.fptr <= bs.bptr /\ bs.bptr <= Size
      /\ r.fptr \in Int /\ r.bptr \in Int /\ s.fptr \in Int /\ s.bptr \in Int
      /\ HDR <= r.fptr /\ HDR <= s.fptr /\ s.fptr <= s.bptr
  <2>1. /\ bs.fptr \in Int /\ bs.bptr \in Int
        /\ HDR <= bs.fptr /\ bs.fptr <= bs.bptr /\ bs.bptr <= Size
    BY <1>2, Fields
  <2>2. r.fptr \in Int /\ r.bptr \in Int /\ HDR <= r.fptr
    BY <1>4, Fields
  <2>3. s.fptr \in Int /\ s.bptr \in Int /\ HDR <= s.fptr /\ s.fptr <= s.bptr
    BY <1>6, Fields
  <2>4. at \in Int /\ st \in Int
    BY <2>1, <2>2, <1>0, <1>2, <1>7, Sizes
  <2> QED
    BY <2>1, <2>2, <2>3, <2>4
<1>9. HDR <= st /\ st # NULL
  BY <1>5, <1>6, <1>7, <1>8, Sizes
<1>10. /\ \A x \in Int, m \in Nat : UnderTip(x, m, bs) =>
             /\ Under(x, m, at, PTR) /\ Under(x, m, st, TABLE)
             /\ x # st \/ m = 0
       /\ UnderTip(at, PTR, s) /\ UnderTip(st, TABLE, s) /\ Under(at, PTR, st, TABLE)
       /\ UnderTip(Tip(r), 0, s)
  <2>1. CASE dir = BS_FORWARD
    <3>1. /\ at = bs.fptr /\ st = bs.fptr + PTR /\ s.fptr = (bs.fptr + PTR) + TABLE
          /\ r.fptr = bs.fptr + PTR
      BY <2>1, <1>0, <1>2, <1>4, <1>5, <1>6, <1>7
    <3> QED
      BY <2>1, <3>1, <1>8, Sizes DEF UnderTip, Under, Tip
  <2>2. CASE dir # BS_FORWARD
    <3>1. /\ at = bs.bptr - PTR /\ st = (bs.bptr - PTR) - TABLE /\ s.bptr = st
          /\ r.bptr = at
      BY <2>2, <1>0, <1>2, <1>4, <1>5, <1>6, <1>7
    <3> QED
      BY <2>2, <3>1, <1>8, Sizes DEF UnderTip, Under, Tip
  <2> QED
    BY <2>1, <2>2
<1>11. /\ j \in Nat /\ n \in Nat /\ j < n /\ T \in [1 .. j -> Int] /\ P \in [1 .. n -> Int]
       /\ DOMAIN tables = {T[i] : i \in 1 .. j}
       /\ \A i \in 1 .. j : /\ HDR <= T[i] /\ tables[T[i]] \in [outer : Int, nodes : SUBSET Int]
                            /\ tables[T[i]].outer = IF i = 1 THEN NULL ELSE T[i - 1]
       /\ \A i, k \in 1 .. j : T[i] = T[k] => i = k
       /\ innerbindings = IF j = 0 THEN NULL ELSE T[j]
  BY <1>1 DEF Nested, Placed, Marked
<1>12. \A i \in 1 .. j : \A x, m : Held(T[i], x, m) => x \in Int /\ m \in Nat \ {0} /\ UnderTip(x, m, bs)
  <2>1. ASSUME NEW i \in 1 .. j, NEW x, NEW m, Held(T[i], x, m)
        PROVE  x \in Int /\ m \in Nat \ {0} /\ UnderTip(x, m, bs)
    <3>1. x \in Int /\ m \in Nat \ {0}
      BY <1>1, <2>1, HeldTypes
    <3> QED
      BY <3>1, <1>1, <1>2, <2>1, HeldUnderTip
  <2> QED
    BY <2>1
<1>13. \A i \in 1 .. j : T[i] # st
  BY <1>10, <1>12, Sizes DEF Held
<1>14. PICK U : /\ U \in [1 .. j + 1 -> Int] /\ U[j + 1] = st
                /\ \A i \in 1 .. j : U[i] = T[i]
  <2>1. j \in Nat /\ T \in [1 .. j -> Int] /\ st \in Int
    BY <1>8, <1>11
  <2>2. /\ With(T, j, st) \in [1 .. j + 1 -> Int] /\ With(T, j, st)[j + 1] = st
        /\ \A i \in 1 .. j : With(T, j, st)[i] = T[i]
    BY <2>1, WithValues
  <2> QED
    BY <2>2
<1>15. PICK Q : /\ Marked(Q, n + 1, r) /\ Q[n + 1] = at
                /\ \A i \in 1 .. n : Q[i] = P[i]
  <2>1. n \in Nat /\ P \in [1 .. n -> Int] /\ at \in Int
    BY <1>8, <1>11
  <2>2. With(P, n, at)[n + 1] = at /\ \A i \in 1 .. n : With(P, n, at)[i] = P[i]
    BY <2>1, WithValues
  <2> QED
    BY <2>2, <1>4
<1>16. Nested(U, j + 1)'
  <2>1. DOMAIN tables' = {U[i] : i \in 1 .. j + 1}
    <3>1. DOMAIN tables' = DOMAIN tables \cup {st}
      BY <1>3
    <3>2. \A i \in 1 .. j + 1 : i = j + 1 \/ i \in 1 .. j
      BY <1>11
    <3>3. \A i \in 1 .. j : i \in 1 .. j + 1
      BY <1>11
    <3>4. j + 1 \in 1 .. j + 1
      BY <1>11
    <3>5. ASSUME NEW t \in DOMAIN tables'
          PROVE  \E i \in 1 .. j + 1 : t = U[i]
      <4>1. CASE t = st
        BY <4>1, <3>4, <1>14
      <4>2. CASE t # st
        <5>1. t \in DOMAIN tables
          BY <4>2, <3>1, <3>5
        <5>2. PICK i \in 1 .. j : t = T[i]
          BY <5>1, <1>11
        <5> QED
          BY <5>2, <3>3, <1>14
      <4> QED
        BY <4>1, <4>2
    <3>6. ASSUME NEW i \in 1 .. j + 1
          PROVE  U[i] \in DOMAIN tables'
      <4>1. CASE i = j + 1
        BY <4>1, <3>1, <1>14
      <4>2. CASE i \in 1 .. j
        <5>1. T[i] \in DOMAIN tables
          BY <4>2, <1>11
        <5> QED
          BY <5>1, <4>2, <3>1, <1>14
      <4> QED
        BY <4>1, <4>2, <3>2
    <3>7. DOMAIN tables' \subseteq {U[i] : i \in 1 .. j + 1}
      BY <3>5
    <3> QED
      BY <3>6, <3>7
  <2>2. ASSUME NEW i \in 1 .. j + 1
        PROVE  /\ HDR <= U[i]
               /\ tables'[U[i]] \in [outer : Int, nodes : SUBSET Int]
               /\ tables'[U[i]].outer = IF i = 1 THEN NULL ELSE U[i - 1]
    <3>1. CASE i = j + 1
      <4>1. tables'[st] = [outer |-> innerbindings, nodes |-> {}]
        BY <1>3
      <4>2. innerbindings = (IF i = 1 THEN NULL ELSE U[i - 1]) /\ innerbindings \in Int
        BY <3>1, <1>11, <1>14, Sizes
      <4> QED
        BY <3>1, <4>1, <4>2, <1>9, <1>14
    <3>2. CASE i # j + 1
      <4>1. i \in 1 .. j /\ U[i] = T[i] /\ (i # 1 => U[i - 1] = T[i - 1])
        BY <3>2, <1>11, <1>14
      <4>2. tables'[T[i]] = tables[T[i]]
        BY <4>1, <1>3, <1>11, <1>13
      <4> QED
        BY <4>1, <4>2, <1>11
    <3> QED
      BY <3>1, <3>2
  <2>3. \A i, k \in 1 .. j + 1 : U[i] = U[k] => i = k
    <3>1. \A i \in 1 .. j + 1 : i = j + 1 \/ i \in 1 .. j
      BY <1>11
    <3>2. \A i \in 1 .. j : U[i] = T[i] /\ U[i] # U[j + 1]
      BY <1>13, <1>14
    <3>3. TAKE i \in 1 .. j + 1, k \in 1 .. j + 1
    <3>4. CASE i \in 1 .. j /\ k \in 1 .. j
      BY <3>2, <3>4, <1>11
    <3>5. CASE i = j + 1 \/ k = j + 1
      BY <3>1, <3>2, <3>5
    <3> QED
      BY <3>1, <3>4, <3>5
  <2>4. innerbindings' = U[j + 1] /\ j + 1 \in Nat /\ j + 1 # 0
    BY <1>3, <1>11, <1>14
  <2> QED
    BY <2>1, <2>2, <2>3, <2>4, <1>14 DEF Nested
<1>17. /\ \A i \in 1 .. j : \A x, m : Held(U[i], x, m)' <=> Held(T[i], x, m)
       /\ \A x, m : Held(U[j + 1], x, m)' <=> x = st /\ m = TABLE
  <2>1. \A i \in 1 .. j : tables'[T[i]] = tables[T[i]]
    BY <1>3, <1>11, <1>13
  <2>2. tables'[st] = [outer |-> innerbindings, nodes |-> {}]
    BY <1>3
  <2>3. ASSUME NEW i \in 1 .. j
        PROVE  \A x, m : Held(U[i], x, m)' <=> Held(T[i], x, m)
    BY <2>1, <1>14 DEF Held
  <2>4. \A x, m : Held(U[j + 1], x, m)' <=> x = st /\ m = TABLE
    BY <2>2, <1>14 DEF Held
  <2> QED
    BY <2>3, <2>4
<1>18. /\ ArenaOK(bs') /\ bs'.dir = bs.dir
       /\ bs'.fptr = s.fptr /\ bs'.bptr = s.bptr
       /\ Marked(Q, n + 1, bs')
       /\ \A x, m : UnderTip(x, m, bs)' <=> UnderTip(x, m, s)
  <2>1. CanPushDir(bs)
    BY DEF Runs
  <2>2. s.dir = Entered.dir
    BY <1>4, <1>6
  <2>3. Marked(Q, n + 1, s)
    <3>1. Newest(s) = Newest(r)
      BY <1>6 DEF Newest
    <3>2. UnderTip(Tip(r), 0, s)
      BY <1>10
    <3> QED
      BY <3>1, <3>2, <1>2, <1>4, <1>6, <1>15, KeepMarked
  <2>4. /\ ArenaOK(Left(s)) /\ Left(s).dir = bs.dir
        /\ Left(s).fptr = s.fptr /\ Left(s).bptr = s.bptr
        /\ Tip(Left(s)) = Tip(s) /\ Marked(Q, n + 1, Left(s))
    BY <2>1, <2>2, <2>3, <1>6, Ended
  <2>5. \A x, m : UnderTip(x, m, bs)' <=> UnderTip(x, m, s)
    BY <1>3, <2>4 DEF UnderTip, Under, Tip
  <2> QED
    BY <2>4, <2>5, <1>3
<1>19. Placed(Q, n + 1, U, j + 1, bs)'
  <2>1. ASSUME NEW i \in 1 .. j + 1, NEW x, NEW m, Held(U[i], x, m)'
        PROVE  IF i = j + 1 THEN UnderTip(x, m, s)
               ELSE Under(x, m, Q[(i + (n + 1) + 1) - (j + 1)], PTR)
    <3>1. CASE i = j + 1
      BY <2>1, <3>1, <1>10, <1>17
    <3>2. CASE i # j + 1
      <4>1. i \in 1 .. j /\ Held(T[i], x, m)
        BY <2>1, <3>2, <1>11, <1>17
      <4>2. x \in Int /\ m \in Nat /\ UnderTip(x, m, bs)
        BY <4>1, <1>12
      <4>3. PICK k \in 1 .. n + 1 : k = (i + (n + 1) + 1) - (j + 1) /\ k = (i + n + 1) - j
        BY <4>1, <1>11
      <4>4. CASE i = j
        <5>1. k = n + 1
          BY <4>3, <4>4, <1>11
        <5>2. Under(x, m, at, PTR)
          BY <4>2, <1>10
        <5> QED
          BY <3>2, <4>3, <5>1, <5>2, <1>15
      <4>5. CASE i # j
        <5>1. k \in 1 .. n
          BY <4>1, <4>3, <4>5, <1>11
        <5>2. Under(x, m, P[k], PTR)
          BY <4>1, <4>3, <4>5, <1>1 DEF Placed
        <5> QED
          BY <3>2, <4>3, <5>1, <5>2, <1>15
      <4> QED
        BY <4>4, <4>5
    <3> QED
      BY <3>1, <3>2
  <2>2. j + 1 < n + 1
    BY <1>11
  <2>3. /\ \A x, m : UnderTip(x, m, bs)' <=> UnderTip(x, m, s)
        /\ \A x, m, y : Under(x, m, y, PTR)' <=> Under(x, m, y, PTR)
    BY <1>3, <1>18 DEF Under
  <2>4. \A i \in 1 .. j + 1 : \A x, m : Held(U[i], x, m)' =>
          IF i = j + 1 THEN UnderTip(x, m, bs)'
          ELSE Under(x, m, Q[(i + (n + 1) + 1) - (j + 1)], PTR)'
    BY <2>1, <2>3
  <2> QED
    BY <2>2, <2>4 DEF Placed
<1>20. Distinct(U, j + 1)'
  <2>1. ASSUME NEW i \in 1 .. j + 1, NEW k \in 1 .. j + 1, NEW x, NEW m, NEW y, NEW q,
               Held(U[i], x, m)', Held(U[k], y, q)'
        PROVE  (x = y /\ m = q) \/ x + m <= y \/ y + q <= x
    <3>1. (i = j + 1 \/ i \in 1 .. j) /\ (k = j + 1 \/ k \in 1 .. j)
      BY <1>11
    <3>2. CASE i \in 1 .. j /\ k \in 1 .. j
      <4>1. Held(T[i], x, m) /\ Held(T[k], y, q)
        BY <2>1, <3>2, <1>17
      <4> QED
        BY <4>1, <3>2, <1>1 DEF Distinct
    <3>3. CASE i = j + 1 /\ k = j + 1
      BY <2>1, <3>3, <1>17
    <3>4. CASE i = j + 1 /\ k \in 1 .. j
      <4>1. x = st /\ m = TABLE /\ Held(T[k], y, q)
        BY <2>1, <3>4, <1>17
      <4>2. Under(y, q, st, TABLE)
        BY <4>1, <3>4, <1>10, <1>12
      <4> QED
        BY <4>1, <4>2 DEF Under
    <3>5. CASE i \in 1 .. j /\ k = j + 1
      <4>1. y = st /\ q = TABLE /\ Held(T[i], x, m)
        BY <2>1, <3>5, <1>17
      <4>2. Under(x, m, st, TABLE)
        BY <4>1, <3>5, <1>10, <1>12
      <4> QED
        BY <4>1, <4>2 DEF Under
    <3> QED
      BY <3>1, <3>2, <3>3, <3>4, <3>5
  <2> QED
    BY <2>1 DEF Distinct
<1>21. Scoped(Q, n + 1, U, j + 1, bs.dir)'
  <2>1. /\ scopes \in Seq(Scope) /\ Len(scopes) = j
        /\ \A i \in 1 .. j :
             /\ scopes[i].abandoned <= abandoned
             /\ scopes[i].abandoned = abandoned =>
                  scopes[i].before = <<Base(P[(i + n) - j]), P[(i + n) - (j + 1)], bs.dir>>
        /\ j > 0 /\ scopes[1].first => globalbindings = T[1]
    BY <1>1 DEF Scoped
  <2>2. Pushed \in Scope /\ Pushed.before = <<Base(at), P[n], bs.dir>>
    <3>1. Ends(bs) = <<Base(at), P[n], bs.dir>>
      <4>1. Newest(bs) = P[n] /\ bs.bptr \in Int
        BY <1>1, <1>8 DEF Marked
      <4>2. CASE dir = BS_FORWARD
        BY <4>1, <4>2, <1>0, <1>2 DEF Ends, Base, Newest
      <4>3. CASE dir # BS_FORWARD
        <5>1. at + PTR = bs.bptr
          BY <4>1, <4>3, <1>0, <1>2, Sizes
        <5> QED
          BY <4>1, <4>3, <5>1 DEF Ends, Base, Newest
      <4> QED
        BY <4>2, <4>3
    <3>2. Base(at) \in Int /\ P[n] \in Int /\ bs.dir \in [0 .. DirBits - 1 -> Direction]
      <4>1. Base(at) \in Int
        BY <1>8, Sizes DEF Base
      <4>2. P[n] \in Int
        BY <1>1 DEF Marked
      <4>3. bs.dir \in [0 .. DirBits - 1 -> Direction]
        BY <1>2, Fields
      <4> QED
        BY <4>1, <4>2, <4>3
    <3>3. abandoned \in Nat /\ (globalbindings = NULL) \in BOOLEAN
      BY DEF EnvInv
    <3> QED
      BY <3>1, <3>2, <3>3 DEF Pushed, Scope
  <2>3. /\ scopes' \in Seq(Scope) /\ Len(scopes') = j + 1 /\ scopes'[j + 1] = Pushed
        /\ \A i \in 1 .. j : scopes'[i] = scopes[i]
    BY <2>1, <2>2, <1>3
  <2>4. ASSUME NEW i \in 1 .. j + 1
        PROVE  /\ scopes'[i].abandoned <= abandoned
               /\ scopes'[i].abandoned = abandoned =>
                    scopes'[i].before =
                      <<Base(Q[(i + (n + 1)) - (j + 1)]), Q[(i + (n + 1)) - ((j + 1) + 1)], bs.dir>>
    <3>1. CASE i = j + 1
      <4>1. scopes'[i].abandoned = abandoned /\ abandoned \in Nat
        BY <3>1, <2>3 DEF Pushed, EnvInv
      <4>2. (i + (n + 1)) - (j + 1) = n + 1 /\ (i + (n + 1)) - ((j + 1) + 1) = n /\ n \in 1 .. n
        BY <3>1, <1>11
      <4>3. abandoned <= abandoned
        BY <4>1
      <4> QED
        BY <3>1, <4>1, <4>2, <4>3, <2>2, <2>3, <1>15
    <3>2. CASE i # j + 1
      <4>1. i \in 1 .. j /\ scopes'[i] = scopes[i]
        BY <3>2, <2>3, <1>11
      <4>2. PICK k \in 1 .. n : k = (i + n) - j /\ k = (i + (n + 1)) - (j + 1)
        BY <4>1, <1>11
      <4>3. PICK l \in 1 .. n : l = (i + n) - (j + 1) /\ l = (i + (n + 1)) - ((j + 1) + 1)
        BY <4>1, <1>11
      <4>4. Q[k] = P[k] /\ Q[l] = P[l]
        BY <1>15
      <4>5. /\ scopes[i].abandoned <= abandoned
            /\ scopes[i].abandoned = abandoned => scopes[i].before = <<Base(P[k]), P[l], bs.dir>>
        BY <4>1, <4>2, <4>3, <2>1
      <4> QED
        BY <4>1, <4>2, <4>3, <4>4, <4>5
    <3> QED
      BY <3>1, <3>2
  <2>5. scopes'[1].first => globalbindings' = U[1]
    <3>1. CASE j = 0
      <4>1. scopes'[1] = Pushed /\ U[1] = st
        BY <3>1, <2>3, <1>14
      <4>2. Pushed.first => globalbindings = NULL
        BY DEF Pushed
      <4> QED
        BY <4>1, <4>2, <1>3
    <3>2. CASE j # 0
      <4>1. 1 \in 1 .. j /\ j > 0
        BY <3>2, <1>11
      <4>2. T[1] # NULL /\ U[1] = T[1] /\ scopes'[1] = scopes[1]
        BY <4>1, <2>3, <1>11, <1>14, Sizes
      <4> QED
        BY <4>1, <4>2, <2>1, <1>3
    <3> QED
      BY <3>1, <3>2
  <2>6. \A x : Base(x)' = Base(x)
    BY <1>3 DEF Base
  <2>7. abandoned' = abandoned /\ bs'.dir = bs.dir
    BY <1>3, <1>18
  <2>8. ASSUME NEW i \in 1 .. j + 1
        PROVE  /\ scopes'[i].abandoned <= abandoned'
               /\ scopes'[i].abandoned = abandoned' =>
                    scopes'[i].before =
                      <<Base(Q[(i + (n + 1)) - (j + 1)])', Q[(i + (n + 1)) - ((j + 1) + 1)], bs'.dir>>
    BY <2>4, <2>6, <2>7
  <2> QED
    BY <2>3, <2>5, <2>8 DEF Scoped
<1>22. HostsKept(bs, hosts)'
  <2>1. dir = BS_FORWARD => bs'.bptr = bs.bptr
    BY <1>2, <1>4, <1>5, <1>6, <1>18
  <2> QED
    BY <2>1, <1>3, <1>18, KeepHosts
<1>23. abandoned' \in Nat /\ (abandoned' = 0 => bs'.dir[0] = Host)
  BY <1>3, <1>18 DEF EnvInv
<1>24. EnvInv'
  BY <1>2, <1>3, <1>16, <1>18, <1>19, <1>20, <1>21, <1>22, <1>23, Rebuilt
<1> QED
  BY <1>3, <1>24

\* A push that memory ran out in: before its mark, or after it.
LEMMA PushAbandoned ==
  ASSUME EnvInv, env_pushsymtable, Runs(TRUE),
         ~(CanAlloc(Entered, PTR) /\ CanAlloc(bistack_mark(Entered), TABLE))
  PROVE  EnvInv' /\ scopes' = scopes
<1>1. /\ ~CanAlloc(Entered, PTR) => Abandon(Entered)
      /\ CanAlloc(Entered, PTR) => Abandon(bistack_mark(Entered))
      /\ UNCHANGED <<dir, hosts>>
  BY PushMade DEF env_pushsymtable
<1>2. CASE ~CanAlloc(Entered, PTR)
  <2>1. \A P, n, T, j : Marked(P, n, bs) /\ Nested(T, j) /\ Placed(P, n, T, j, bs) =>
           \E Q, q : Marked(Q, q, Entered) /\ Placed(Q, q, T, j, Entered)
    BY Begins
  <2> QED
    BY <1>1, <1>2, <2>1, Begins, AbandonStep
<1>3. CASE CanAlloc(Entered, PTR)
  <2>1. PICK e, r, at :
          /\ e = Entered /\ r = bistack_mark(Entered)
          /\ at = IF dir = BS_FORWARD THEN e.fptr ELSE e.bptr - PTR
    OBVIOUS
  <2>2. dir \in Direction /\ ArenaOK(e) /\ (Forward(e) <=> dir = BS_FORWARD) /\ CanAlloc(e, PTR)
    BY <1>3, <2>1, Begins
  <2>3. /\ \A P, n : Marked(P, n, e) => Marked(With(P, n, at), n + 1, r)
        /\ \A P, n : Marked(P, n, e) => ArenaOK(r)
    BY <2>1, <2>2, MarkArena
  <2>4. e.fptr \in Int /\ e.bptr \in Int /\ at \in Int
    BY <2>1, <2>2, Fields, Sizes
  <2>5. \A x \in Int, m \in Nat : UnderTip(x, m, e) => Under(x, m, at, PTR)
    BY <2>1, <2>4, Sizes DEF UnderTip, Under, Tip
  <2>6. ASSUME NEW P, NEW n, NEW T, NEW j,
               Marked(P, n, bs), Nested(T, j), Placed(P, n, T, j, bs)
        PROVE  Marked(With(P, n, at), n + 1, r) /\ Placed(With(P, n, at), n + 1, T, j, r)
    <3>1. Marked(P, n, e) /\ Placed(P, n, T, j, e)
      BY <2>1, <2>6, Begins
    <3>2. Marked(With(P, n, at), n + 1, r) /\ ArenaOK(r)
      BY <2>3, <3>1
    <3>3. n \in Nat /\ P \in [1 .. n -> Int]
      BY <3>1 DEF Marked
    <3>4. UnderTip(at, PTR, r)
      <4>1. With(P, n, at)[n + 1] = at /\ n + 1 \in 1 .. n + 1
        BY <2>4, <3>3, WithValues
      <4> QED
        BY <3>2, <4>1 DEF Marked
    <3> QED
      BY <2>2, <2>4, <2>5, <2>6, <3>1, <3>2, <3>4, MarkPlaced
  <2>7. ArenaOK(r)
    <3>1. PICK P, n, T, j : Marked(P, n, bs) /\ Nested(T, j) /\ Placed(P, n, T, j, bs)
      BY DEF EnvInv
    <3> QED
      BY <2>1, <2>3, <3>1, Begins
  <2>8. \A P, n, T, j : Marked(P, n, bs) /\ Nested(T, j) /\ Placed(P, n, T, j, bs) =>
           \E Q, q : Marked(Q, q, r) /\ Placed(Q, q, T, j, r)
    BY <2>6
  <2> QED
    BY <1>1, <1>3, <2>1, <2>7, <2>8, AbandonStep
<1> QED
  BY <1>2, <1>3

\* The innermost table goes, with its mark or with a newer one.
LEMMA PopStep ==
  ASSUME EnvInv, env_popsymtable, Runs(innerbindings # NULL)
  PROVE  /\ EnvInv' /\ scopes # <<>> /\ scopes' = Front(scopes)
         /\ Last(scopes).abandoned = abandoned => Ends(bs') = Last(scopes).before
<1>0. PICK e, r : e = Entered /\ r = bistack_rewind(Entered)
  OBVIOUS
<1>1. PICK P, n, T, j :
        /\ Marked(P, n, bs) /\ Nested(T, j)
        /\ Placed(P, n, T, j, bs) /\ Distinct(T, j) /\ Scoped(P, n, T, j, bs.dir)
  BY DEF EnvInv
<1>2. /\ dir \in Direction /\ ArenaOK(bs) /\ ArenaOK(e)
      /\ e.fptr = bs.fptr /\ e.bptr = bs.bptr
      /\ Forward(e) <=> dir = BS_FORWARD
      /\ Marked(P, n, e) /\ Placed(P, n, T, j, e)
  BY <1>0, <1>1, Begins
<1>3. /\ j \in Nat /\ n \in Nat /\ j < n /\ T \in [1 .. j -> Int] /\ P \in [1 .. n -> Int]
      /\ DOMAIN tables = {T[i] : i \in 1 .. j}
      /\ \A i \in 1 .. j : /\ HDR <= T[i] /\ tables[T[i]] \in [outer : Int, nodes : SUBSET Int]
                           /\ tables[T[i]].outer = IF i = 1 THEN NULL ELSE T[i - 1]
      /\ \A i, k \in 1 .. j : T[i] = T[k] => i = k
      /\ innerbindings = IF j = 0 THEN NULL ELSE T[j]
  BY <1>1 DEF Nested, Placed, Marked
<1>4. PICK l \in Nat, p \in Nat \ {0} : j = l + 1 /\ n = p + 1 /\ l < p
  <2>1. j # 0
    BY <1>3 DEF Runs
  <2>2. j - 1 \in Nat /\ n - 1 \in Nat \ {0} /\ j = (j - 1) + 1 /\ n = (n - 1) + 1 /\ j - 1 < n - 1
    BY <1>3, <2>1
  <2> QED
    BY <2>2
<1>5. /\ CanRewind(e) /\ ArenaOK(r) /\ r.dir = e.dir /\ Newest(r) = P[p]
      /\ Marked(Without(P, n), p, r)
      /\ IF dir = BS_FORWARD THEN r.fptr = P[n] /\ r.bptr = e.bptr
         ELSE r.bptr = P[n] + PTR /\ r.fptr = e.fptr
  <2>1. n > 1 /\ n - 1 = p
    BY <1>4
  <2> QED
    BY <1>0, <1>2, <2>1, RewindArena
<1>6. PICK Q : Marked(Q, p, r) /\ \A i \in 1 .. p : Q[i] = P[i]
  <2>1. \A i \in 1 .. p : Without(P, n)[i] = P[i]
    BY <1>4 DEF Without
  <2> QED
    BY <1>5, <2>1
<1>7. PICK U : U \in [1 .. l -> Int] /\ \A i \in 1 .. l : U[i] = T[i]
  <2>1. /\ [i \in 1 .. l |-> T[i]] \in [1 .. l -> Int]
        /\ \A i \in 1 .. l : [k \in 1 .. l |-> T[k]][i] = T[i]
    BY <1>3, <1>4
  <2> QED
    BY <2>1
<1>8. /\ bs' = Left(r) /\ innerbindings' = tables[innerbindings].outer
      /\ tables' = [t \in DOMAIN tables \ {innerbindings} |-> tables[t]]
      /\ scopes' = Front(scopes) /\ globalbindings' = globalbindings
      /\ abandoned' = abandoned /\ dir' = dir /\ hosts' = hosts
  BY <1>0, <1>5 DEF env_popsymtable
<1>9. /\ ArenaOK(bs') /\ bs'.dir = bs.dir /\ bs'.fptr = r.fptr /\ bs'.bptr = r.bptr
      /\ Marked(Q, p, bs') /\ Newest(bs') = P[p] /\ Tip(bs') = Tip(r)
      /\ \A x, m : UnderTip(x, m, bs)' <=> UnderTip(x, m, r)
  <2>1. CanPushDir(bs) /\ r.dir = Entered.dir
    BY <1>0, <1>5 DEF Runs
  <2>2. /\ ArenaOK(Left(r)) /\ Left(r).dir = bs.dir
        /\ Left(r).fptr = r.fptr /\ Left(r).bptr = r.bptr
        /\ Newest(Left(r)) = Newest(r) /\ Tip(Left(r)) = Tip(r) /\ Marked(Q, p, Left(r))
    BY <1>5, <1>6, <2>1, Ended
  <2>3. \A x, m : UnderTip(x, m, bs)' <=> UnderTip(x, m, r)
    BY <1>8, <2>2 DEF UnderTip, Under, Tip
  <2> QED
    BY <1>5, <1>8, <2>2, <2>3
<1>10. innerbindings = T[j] /\ \A i \in 1 .. l : i \in 1 .. j /\ i # j /\ T[i] # T[j]
  <2>1. j \in 1 .. j /\ j # 0 /\ \A i \in 1 .. l : i \in 1 .. j /\ i # j
    BY <1>3, <1>4
  <2> QED
    BY <1>3, <2>1
<1>11. \A i \in 1 .. l : tables'[T[i]] = tables[T[i]]
  BY <1>3, <1>8, <1>10
<1>12. Nested(U, l)'
  <2>1. DOMAIN tables' = {U[i] : i \in 1 .. l}
    <3>1. DOMAIN tables' = DOMAIN tables \ {T[j]}
      BY <1>8, <1>10
    <3>2. ASSUME NEW t \in DOMAIN tables'
          PROVE  \E i \in 1 .. l : t = U[i]
      <4>1. PICK i \in 1 .. j : t = T[i]
        BY <3>1, <3>2, <1>3
      <4>2. i \in 1 .. l
        BY <3>1, <3>2, <4>1, <1>4
      <4> QED
        BY <4>1, <4>2, <1>7
    <3>3. ASSUME NEW i \in 1 .. l
          PROVE  U[i] \in DOMAIN tables'
      <4>1. T[i] \in DOMAIN tables /\ T[i] # T[j] /\ U[i] = T[i]
        BY <1>3, <1>7, <1>10
      <4> QED
        BY <3>1, <4>1
    <3>4. DOMAIN tables' \subseteq {U[i] : i \in 1 .. l}
      BY <3>2
    <3> QED
      BY <3>3, <3>4
  <2>2. ASSUME NEW i \in 1 .. l
        PROVE  /\ HDR <= U[i]
               /\ tables'[U[i]] \in [outer : Int, nodes : SUBSET Int]
               /\ tables'[U[i]].outer = IF i = 1 THEN NULL ELSE U[i - 1]
    <3>1. i \in 1 .. j /\ U[i] = T[i] /\ (i # 1 => U[i - 1] = T[i - 1])
      BY <1>7, <1>10
    <3>2. tables'[U[i]] = tables[T[i]]
      BY <3>1, <1>11
    <3>3. /\ HDR <= T[i] /\ tables[T[i]] \in [outer : Int, nodes : SUBSET Int]
          /\ tables[T[i]].outer = IF i = 1 THEN NULL ELSE T[i - 1]
      BY <3>1, <1>3
    <3> QED
      BY <3>1, <3>2, <3>3
  <2>3. \A i, k \in 1 .. l : U[i] = U[k] => i = k
    BY <1>3, <1>7, <1>10
  <2>4. innerbindings' = IF l = 0 THEN NULL ELSE U[l]
    <3>1. j \in 1 .. j
      BY <1>4
    <3>2. innerbindings' = tables[T[j]].outer
      BY <1>8, <1>10
    <3>3. innerbindings' = IF j = 1 THEN NULL ELSE T[j - 1]
      BY <3>1, <3>2, <1>3
    <3> QED
      BY <3>3, <1>4, <1>7
  <2> QED
    BY <2>1, <2>2, <2>3, <2>4, <1>7 DEF Nested
<1>13. \A i \in 1 .. l : \A x, m : Held(U[i], x, m)' <=> Held(T[i], x, m)
  BY <1>7, <1>11 DEF Held
<1>14. Placed(Q, p, U, l, bs)'
  <2>1. ASSUME NEW i \in 1 .. l, NEW x, NEW m, Held(U[i], x, m)'
        PROVE  IF i = l THEN UnderTip(x, m, r) ELSE Under(x, m, Q[(i + p + 1) - l], PTR)
    <3>1. Held(T[i], x, m) /\ i \in 1 .. j /\ i # j
      BY <2>1, <1>10, <1>13
    <3>2. x \in Int /\ m \in Nat
      BY <1>1, <3>1, HeldTypes
    <3>3. PICK k \in 1 .. n : k = (i + n + 1) - j /\ k = (i + p + 1) - l
      BY <3>1, <1>4
    <3>4. Under(x, m, P[k], PTR)
      BY <1>1, <3>1, <3>3 DEF Placed
    <3>5. CASE i = l
      <4>1. k = n
        BY <3>3, <3>5, <1>4
      <4>2. P[n] \in Int
        BY <1>3, <1>4
      <4>3. UnderTip(x, m, r)
        BY <3>2, <3>4, <4>1, <4>2, <1>5, Sizes DEF UnderTip, Under, Tip
      <4> QED
        BY <4>3, <3>5
    <3>6. CASE i # l
      <4>1. k \in 1 .. p
        BY <3>3, <3>6, <1>4
      <4> QED
        BY <3>3, <3>4, <3>6, <4>1, <1>6
    <3> QED
      BY <3>5, <3>6
  <2>2. \A x, m, y : Under(x, m, y, PTR)' <=> Under(x, m, y, PTR)
    BY <1>8 DEF Under
  <2>3. \A i \in 1 .. l : \A x, m : Held(U[i], x, m)' =>
          IF i = l THEN UnderTip(x, m, bs)' ELSE Under(x, m, Q[(i + p + 1) - l], PTR)'
    BY <2>1, <2>2, <1>9
  <2> QED
    BY <2>3, <1>4 DEF Placed
<1>15. Distinct(U, l)'
  <2>1. ASSUME NEW i \in 1 .. l, NEW k \in 1 .. l, NEW x, NEW m, NEW y, NEW q,
               Held(U[i], x, m)', Held(U[k], y, q)'
        PROVE  (x = y /\ m = q) \/ x + m <= y \/ y + q <= x
    BY <2>1, <1>1, <1>10, <1>13 DEF Distinct
  <2> QED
    BY <2>1 DEF Distinct
<1>16. /\ scopes \in Seq(Scope) /\ Len(scopes) = j /\ scopes # <<>>
       /\ \A i \in 1 .. j :
            /\ scopes[i].abandoned <= abandoned
            /\ scopes[i].abandoned = abandoned =>
                 scopes[i].before = <<Base(P[(i + n) - j]), P[(i + n) - (j + 1)], bs.dir>>
       /\ j > 0 /\ scopes[1].first => globalbindings = T[1]
  <2>1. /\ scopes \in Seq(Scope) /\ Len(scopes) = j
        /\ \A i \in 1 .. j :
             /\ scopes[i].abandoned <= abandoned
             /\ scopes[i].abandoned = abandoned =>
                  scopes[i].before = <<Base(P[(i + n) - j]), P[(i + n) - (j + 1)], bs.dir>>
        /\ j > 0 /\ scopes[1].first => globalbindings = T[1]
    BY <1>1 DEF Scoped
  <2> QED
    BY <2>1, <1>4
<1>17. /\ scopes' \in Seq(Scope) /\ Len(scopes') = l
       /\ \A i \in 1 .. l : scopes'[i] = scopes[i]
  BY <1>4, <1>8, <1>16 DEF Front
<1>18. Scoped(Q, p, U, l, bs.dir)'
  <2>1. ASSUME NEW i \in 1 .. l
        PROVE  /\ scopes'[i].abandoned <= abandoned
               /\ scopes'[i].abandoned = abandoned =>
                    scopes'[i].before = <<Base(Q[(i + p) - l]), Q[(i + p) - (l + 1)], bs.dir>>
    <3>1. i \in 1 .. j /\ scopes'[i] = scopes[i]
      BY <1>10, <1>17
    <3>2. PICK k \in 1 .. p : k = (i + n) - j /\ k = (i + p) - l
      BY <1>4
    <3>3. PICK h \in 1 .. p : h = (i + n) - (j + 1) /\ h = (i + p) - (l + 1)
      BY <1>4
    <3>4. /\ scopes[i].abandoned <= abandoned
          /\ scopes[i].abandoned = abandoned => scopes[i].before = <<Base(P[k]), P[h], bs.dir>>
      BY <3>1, <3>2, <3>3, <1>16
    <3>5. Q[k] = P[k] /\ Q[h] = P[h]
      BY <1>6
    <3> QED
      BY <3>1, <3>2, <3>3, <3>4, <3>5
  <2>2. \A x : Base(x)' = Base(x)
    BY <1>8 DEF Base
  <2>3. abandoned' = abandoned /\ bs'.dir = bs.dir
    BY <1>8, <1>9
  <2>4. ASSUME NEW i \in 1 .. l
        PROVE  /\ scopes'[i].abandoned <= abandoned'
               /\ scopes'[i].abandoned = abandoned' =>
                    scopes'[i].before = <<Base(Q[(i + p) - l])', Q[(i + p) - (l + 1)], bs'.dir>>
    BY <2>1, <2>2, <2>3
  <2>5. l > 0 /\ scopes'[1].first => globalbindings' = U[1]
    <3>1. ASSUME l > 0, scopes'[1].first PROVE globalbindings' = U[1]
      <4>1. 1 \in 1 .. l /\ j > 0
        BY <3>1, <1>4
      <4> QED
        BY <3>1, <4>1, <1>7, <1>8, <1>16, <1>17
    <3> QED
      BY <3>1
  <2> QED
    BY <2>4, <2>5, <1>17 DEF Scoped
<1>19. HostsKept(bs, hosts)'
  <2>1. dir = BS_FORWARD => bs'.bptr = bs.bptr
    BY <1>2, <1>5, <1>9
  <2> QED
    BY <2>1, <1>8, <1>9, KeepHosts
<1>20. abandoned' \in Nat /\ (abandoned' = 0 => bs'.dir[0] = Host)
  BY <1>8, <1>9 DEF EnvInv
<1>21. EnvInv'
  BY <1>2, <1>8, <1>9, <1>12, <1>14, <1>15, <1>18, <1>19, <1>20, Rebuilt
<1>22. ASSUME Last(scopes).abandoned = abandoned
       PROVE  Ends(bs') = Last(scopes).before
  <2>1. Last(scopes) = scopes[j] /\ j \in 1 .. j
    BY <1>4, <1>16 DEF Last
  <2>2. (j + n) - j = n /\ (j + n) - (j + 1) = p
    BY <1>4
  <2>3. Last(scopes).before = <<Base(P[n]), P[p], bs.dir>>
    BY <1>16, <1>22, <2>1, <2>2
  <2>4. CASE dir = BS_FORWARD
    BY <2>3, <2>4, <1>5, <1>9 DEF Ends, Base, Newest
  <2>5. CASE dir # BS_FORWARD
    BY <2>3, <2>5, <1>5, <1>9 DEF Ends, Base, Newest
  <2> QED
    BY <2>4, <2>5
<1> QED
  BY <1>8, <1>16, <1>21, <1>22

\* A node is put on top, and belongs to the innermost table.
LEMMA BoundStep ==
  ASSUME EnvInv, env_bind_symbol, Runs(innerbindings # NULL), CanAlloc(Entered, NODE)
  PROVE  EnvInv' /\ scopes' = scopes
<1>0. PICK e, s, new : e = Entered /\ s = bistack_alloc(e, NODE) /\ new = NextAt(e, NODE)
  OBVIOUS
<1>1. PICK P, n, T, j :
        /\ Marked(P, n, bs) /\ Nested(T, j)
        /\ Placed(P, n, T, j, bs) /\ Distinct(T, j) /\ Scoped(P, n, T, j, bs.dir)
  BY DEF EnvInv
<1>2. /\ dir \in Direction /\ ArenaOK(bs) /\ ArenaOK(e)
      /\ e.fptr = bs.fptr /\ e.bptr = bs.bptr
      /\ Forward(e) <=> dir = BS_FORWARD
      /\ Marked(P, n, e) /\ Placed(P, n, T, j, e)
      /\ \A x, m : UnderTip(x, m, bs) <=> UnderTip(x, m, e)
  BY <1>0, <1>1, Begins
<1>3. /\ j \in Nat /\ n \in Nat /\ j < n /\ T \in [1 .. j -> Int] /\ P \in [1 .. n -> Int]
      /\ DOMAIN tables = {T[i] : i \in 1 .. j}
      /\ \A i \in 1 .. j : /\ HDR <= T[i] /\ tables[T[i]] \in [outer : Int, nodes : SUBSET Int]
                           /\ tables[T[i]].outer = IF i = 1 THEN NULL ELSE T[i - 1]
      /\ \A i, k \in 1 .. j : T[i] = T[k] => i = k
      /\ innerbindings = IF j = 0 THEN NULL ELSE T[j]
  BY <1>1 DEF Nested, Placed, Marked
<1>4. j # 0 /\ j \in 1 .. j /\ innerbindings = T[j] /\ T[j] \in DOMAIN tables
  <2>1. j # 0
    BY <1>3 DEF Runs
  <2> QED
    BY <2>1, <1>3
<1>5. /\ bs' = Left(s)
      /\ tables' = [tables EXCEPT ![innerbindings].nodes = @ \cup {new}]
      /\ UNCHANGED <<innerbindings, globalbindings, scopes, abandoned, dir, hosts>>
  <2>1. /\ PerformAll(Entered, <<AllocCall(NODE)>>).ok
        /\ PerformAll(Entered, <<AllocCall(NODE)>>).bs = bistack_alloc(Entered, NODE)
    BY BindMade
  <2> QED
    BY <1>0, <2>1 DEF env_bind_symbol
<1>6. /\ ArenaOK(s) /\ s.mem = e.mem /\ s.dir = e.dir
      /\ s.fmark = e.fmark /\ s.bmark = e.bmark
      /\ IF dir = BS_FORWARD THEN s.fptr = e.fptr + NODE /\ s.bptr = e.bptr
         ELSE s.bptr = e.bptr - NODE /\ s.fptr = e.fptr
  <2>1. NODE \in Nat /\ CanAlloc(e, NODE)
    BY <1>0, Sizes
  <2> QED
    BY <1>0, <1>2, <2>1, AllocArena
<1>7. new = IF dir = BS_FORWARD THEN e.fptr ELSE e.bptr - NODE
  BY <1>0, <1>2 DEF NextAt
<1>8. e.fptr \in Int /\ e.bptr \in Int /\ new \in Int
  <2>1. e.fptr \in Int /\ e.bptr \in Int
    BY <1>2, Fields
  <2> QED
    BY <2>1, <1>7, Sizes
<1>9. /\ \A x \in Int, m \in Nat : UnderTip(x, m, bs) => Under(x, m, new, NODE)
      /\ UnderTip(new, NODE, s) /\ UnderTip(Tip(e), 0, s)
  <2>1. \A x, m : UnderTip(x, m, bs) <=> Under(x, m, Tip(e), 0)
    BY <1>2 DEF UnderTip
  <2>2. CASE dir = BS_FORWARD
    <3>1. new = e.fptr /\ s.fptr = e.fptr + NODE /\ Tip(e) = e.fptr /\ Tip(s) = s.fptr
      BY <2>2, <1>6, <1>7 DEF Tip
    <3>2. \A x \in Int, m \in Nat : UnderTip(x, m, bs) => Under(x, m, new, NODE)
      BY <2>1, <2>2, <3>1, <1>8 DEF Under
    <3>3. Under(new, NODE, s.fptr, 0) /\ Under(e.fptr, 0, s.fptr, 0)
      BY <2>2, <3>1, <1>8, Sizes DEF Under
    <3> QED
      BY <3>1, <3>2, <3>3 DEF UnderTip
  <2>3. CASE dir # BS_FORWARD
    BY <2>1, <2>3, <1>6, <1>7, <1>8, Sizes DEF UnderTip, Under, Tip
  <2> QED
    BY <2>2, <2>3
<1>10. Marked(P, n, s) /\ Placed(P, n, T, j, s)
  <2>1. Newest(s) = Newest(e)
    BY <1>6 DEF Newest
  <2>2. Marked(P, n, s)
    BY <2>1, <1>2, <1>6, <1>9, KeepMarked
  <2> QED
    BY <2>2, <1>1, <1>2, <1>6, <1>9, KeepPlaced
<1>11. /\ ArenaOK(bs') /\ bs'.dir = bs.dir
       /\ bs'.fptr = s.fptr /\ bs'.bptr = s.bptr
       /\ Marked(P, n, bs')
       /\ \A x, m : UnderTip(x, m, bs)' <=> UnderTip(x, m, s)
  <2>1. CanPushDir(bs) /\ s.dir = Entered.dir
    BY <1>0, <1>6 DEF Runs
  <2>2. /\ ArenaOK(Left(s)) /\ Left(s).dir = bs.dir
        /\ Left(s).fptr = s.fptr /\ Left(s).bptr = s.bptr
        /\ Tip(Left(s)) = Tip(s) /\ Marked(P, n, Left(s))
    BY <2>1, <1>6, <1>10, Ended
  <2>3. \A x, m : UnderTip(x, m, bs)' <=> UnderTip(x, m, s)
    BY <1>5, <2>2 DEF UnderTip, Under, Tip
  <2> QED
    BY <2>2, <2>3, <1>5
<1>12. /\ DOMAIN tables' = DOMAIN tables
       /\ \A i \in 1 .. j : i # j => tables'[T[i]] = tables[T[i]]
       /\ tables'[T[j]].outer = tables[T[j]].outer
       /\ tables'[T[j]].nodes = tables[T[j]].nodes \cup {new}
       /\ tables'[T[j]] \in [outer : Int, nodes : SUBSET Int]
  <2>1. DOMAIN tables' = DOMAIN tables
    BY <1>5
  <2>2. \A i \in 1 .. j : i # j => tables'[T[i]] = tables[T[i]]
    <3>1. \A i \in 1 .. j : T[i] \in DOMAIN tables /\ (i # j => T[i] # T[j])
      BY <1>3, <1>4
    <3> QED
      BY <3>1, <1>4, <1>5
  <2>3. tables'[T[j]] = [tables[T[j]] EXCEPT !.nodes = @ \cup {new}]
    BY <1>4, <1>5
  <2>4. tables[T[j]] \in [outer : Int, nodes : SUBSET Int]
    BY <1>3, <1>4
  <2> QED
    BY <2>1, <2>2, <2>3, <2>4, <1>8
<1>13. Nested(T, j)'
  <2>1. ASSUME NEW i \in 1 .. j
        PROVE  /\ HDR <= T[i] /\ tables'[T[i]] \in [outer : Int, nodes : SUBSET Int]
               /\ tables'[T[i]].outer = IF i = 1 THEN NULL ELSE T[i - 1]
    <3>1. /\ HDR <= T[i] /\ tables[T[i]] \in [outer : Int, nodes : SUBSET Int]
          /\ tables[T[i]].outer = IF i = 1 THEN NULL ELSE T[i - 1]
      BY <1>3
    <3>2. CASE i = j
      BY <3>1, <3>2, <1>12
    <3>3. CASE i # j
      BY <3>1, <3>3, <1>12
    <3> QED
      BY <3>2, <3>3
  <2>2. innerbindings' = innerbindings
    BY <1>5
  <2> QED
    BY <2>1, <2>2, <1>3, <1>12 DEF Nested
<1>14. \A i \in 1 .. j : \A x, m : Held(T[i], x, m)' =>
         Held(T[i], x, m) \/ (i = j /\ x = new /\ m = NODE)
  <2>1. ASSUME NEW i \in 1 .. j, NEW x, NEW m, Held(T[i], x, m)'
        PROVE  Held(T[i], x, m) \/ (i = j /\ x = new /\ m = NODE)
    <3>1. CASE i = j
      BY <2>1, <3>1, <1>12 DEF Held
    <3>2. CASE i # j
      BY <2>1, <3>2, <1>12 DEF Held
    <3> QED
      BY <3>1, <3>2
  <2> QED
    BY <2>1
<1>15. Placed(P, n, T, j, bs)'
  <2>1. ASSUME NEW i \in 1 .. j, NEW x, NEW m, Held(T[i], x, m)'
        PROVE  IF i = j THEN UnderTip(x, m, s) ELSE Under(x, m, P[(i + n + 1) - j], PTR)
    <3>1. CASE Held(T[i], x, m)
      BY <3>1, <1>10 DEF Placed
    <3>2. CASE i = j /\ x = new /\ m = NODE
      BY <3>2, <1>9
    <3>3. Held(T[i], x, m) \/ (i = j /\ x = new /\ m = NODE)
      BY <2>1, <1>14
    <3> QED
      BY <3>1, <3>2, <3>3
  <2>2. \A x, m, y : Under(x, m, y, PTR)' <=> Under(x, m, y, PTR)
    BY <1>5 DEF Under
  <2>3. \A i \in 1 .. j : \A x, m : Held(T[i], x, m)' =>
          IF i = j THEN UnderTip(x, m, bs)' ELSE Under(x, m, P[(i + n + 1) - j], PTR)'
    BY <2>1, <2>2, <1>11
  <2> QED
    BY <2>3, <1>3 DEF Placed
<1>16. \A i \in 1 .. j : \A x, m : Held(T[i], x, m) => Under(x, m, new, NODE)
  <2>1. ASSUME NEW i \in 1 .. j, NEW x, NEW m, Held(T[i], x, m)
        PROVE  Under(x, m, new, NODE)
    <3>1. x \in Int /\ m \in Nat /\ UnderTip(x, m, bs)
      BY <1>1, <1>2, <2>1, HeldUnderTip
    <3> QED
      BY <3>1, <1>9
  <2> QED
    BY <2>1
<1>17. Distinct(T, j)'
  <2>1. ASSUME NEW i \in 1 .. j, NEW k \in 1 .. j, NEW x, NEW m, NEW y, NEW q,
               Held(T[i], x, m)', Held(T[k], y, q)'
        PROVE  (x = y /\ m = q) \/ x + m <= y \/ y + q <= x
    <3>1. CASE Held(T[i], x, m) /\ Held(T[k], y, q)
      BY <3>1, <1>1 DEF Distinct
    <3>2. CASE Held(T[i], x, m) /\ y = new /\ q = NODE
      <4>1. Under(x, m, y, q)
        BY <3>2, <1>16
      <4> QED
        BY <4>1 DEF Under
    <3>3. CASE Held(T[k], y, q) /\ x = new /\ m = NODE
      <4>1. Under(y, q, x, m)
        BY <3>3, <1>16
      <4> QED
        BY <4>1 DEF Under
    <3>4. CASE x = new /\ m = NODE /\ y = new /\ q = NODE
      BY <3>4
    <3> QED
      BY <2>1, <3>1, <3>2, <3>3, <3>4, <1>14
  <2> QED
    BY <2>1 DEF Distinct
<1>18. Scoped(P, n, T, j, bs.dir)'
  <2>1. /\ scopes' = scopes /\ abandoned' = abandoned /\ globalbindings' = globalbindings
        /\ dir' = dir /\ bs'.dir = bs.dir
    BY <1>5, <1>11
  <2> QED
    BY <2>1, <1>1 DEF Scoped, Base
<1>19. HostsKept(bs, hosts)'
  <2>1. dir = BS_FORWARD => bs'.bptr = bs.bptr
    BY <1>2, <1>6, <1>11
  <2> QED
    BY <2>1, <1>5, <1>11, KeepHosts
<1>20. abandoned' \in Nat /\ (abandoned' = 0 => bs'.dir[0] = Host) /\ dir' = dir
  BY <1>5, <1>11 DEF EnvInv
<1>21. EnvInv'
  BY <1>2, <1>11, <1>13, <1>15, <1>17, <1>18, <1>19, <1>20, Rebuilt
<1> QED
  BY <1>5, <1>21

\* A binding that memory ran out in.
LEMMA BindAbandoned ==
  ASSUME EnvInv, env_bind_symbol, Runs(innerbindings # NULL), ~CanAlloc(Entered, NODE)
  PROVE  EnvInv' /\ scopes' = scopes
<1>1. Abandon(Entered) /\ UNCHANGED <<dir, hosts>>
  BY BindMade DEF env_bind_symbol
<1>2. \A P, n, T, j : Marked(P, n, bs) /\ Nested(T, j) /\ Placed(P, n, T, j, bs) =>
         \E Q, q : Marked(Q, q, Entered) /\ Placed(Q, q, T, j, Entered)
  BY Begins
<1> QED
  BY <1>1, <1>2, Begins, AbandonStep

\* A host at the other end allocates away from its blocks; one at the same
\* end does so on top of what the environment has there.
LEMMA HostStep ==
  ASSUME EnvInv, HostAllocates
  PROVE  EnvInv' /\ scopes' = scopes
<1>0. PICK s, new : s = bistack_alloc(bs, HostBlock) /\ new = NextAt(bs, HostBlock)
  OBVIOUS
<1>1. PICK P, n, T, j :
        /\ Marked(P, n, bs) /\ Nested(T, j)
        /\ Placed(P, n, T, j, bs) /\ Distinct(T, j) /\ Scoped(P, n, T, j, bs.dir)
  BY DEF EnvInv
<1>2. /\ bs' = s /\ hosts' = hosts \cup {new} /\ dir' = dir /\ abandoned' = abandoned
      /\ UNCHANGED environment /\ scopes' = scopes /\ globalbindings' = globalbindings
  BY <1>0 DEF HostAllocates, environment
<1>3. dir \in Direction /\ ArenaOK(bs) /\ bs.fptr \in Int /\ bs.bptr \in Int
      /\ bs.dir[0] \in Direction
  <2>1. dir \in Direction /\ ArenaOK(bs)
    BY DEF EnvInv
  <2>2. bs.fptr \in Int /\ bs.bptr \in Int /\ bs.dir \in [0 .. DirBits - 1 -> Direction]
    BY <2>1, Fields
  <2>3. 0 \in 0 .. DirBits - 1
    BY Sizes
  <2> QED
    BY <2>1, <2>2, <2>3
<1>4. /\ ArenaOK(s) /\ s.mem = bs.mem /\ s.dir = bs.dir
      /\ s.fmark = bs.fmark /\ s.bmark = bs.bmark
      /\ IF Forward(bs) THEN s.fptr = bs.fptr + HostBlock /\ s.bptr = bs.bptr
         ELSE s.bptr = bs.bptr - HostBlock /\ s.fptr = bs.fptr
  <2>1. HostBlock \in Nat /\ CanAlloc(bs, HostBlock)
    BY Sizes DEF HostAllocates
  <2> QED
    BY <1>0, <1>3, <2>1, AllocArena
<1>5. UnderTip(Tip(bs), 0, s)
  BY <1>3, <1>4, Sizes DEF UnderTip, Under, Tip
<1>6. Marked(P, n, s) /\ Placed(P, n, T, j, s)
  <2>1. Newest(s) = Newest(bs)
    BY <1>4 DEF Newest
  <2>2. Marked(P, n, s)
    BY <2>1, <1>1, <1>3, <1>4, <1>5, KeepMarked
  <2> QED
    BY <2>2, <1>1, <1>3, <1>4, <1>5, KeepPlaced
<1>7. Nested(T, j)' /\ Distinct(T, j)'
  BY <1>1, <1>2, SameTables
<1>8. Placed(P, n, T, j, bs)'
  <2>1. tables' = tables
    BY <1>2 DEF environment
  <2> QED
    BY <2>1, <1>2, <1>6 DEF Placed, Held, UnderTip, Under, Tip
<1>9. Scoped(P, n, T, j, bs.dir)'
  BY <1>1, <1>2, <1>4 DEF Scoped, Base
<1>10. HostsKept(bs, hosts)'
  <2>1. new = IF Forward(bs) THEN bs.fptr ELSE bs.bptr - HostBlock
    BY <1>0 DEF NextAt
  <2>2. new \in Int /\ hosts' \subseteq Int
    <3>1. new \in Int
      BY <2>1, <1>3, Sizes
    <3>2. hosts \subseteq Int
      BY DEF EnvInv, HostsKept
    <3> QED
      BY <3>1, <3>2, <1>2
  <2>3. ASSUME HostApart
        PROVE  /\ \A h \in hosts' : bs'.bptr <= h
               /\ \A h, g \in hosts' : h = g \/ h + HostBlock <= g \/ g + HostBlock <= h
    <3>1. ~Forward(bs)
      BY <2>3, Sizes DEF HostApart, EnvInv, Forward, bistack_dir
    <3>2. new = bs.bptr - HostBlock /\ bs'.bptr = new
      BY <3>1, <2>1, <1>2, <1>4
    <3>3. /\ \A h \in hosts : h \in Int /\ bs.bptr <= h
          /\ \A h, g \in hosts : h = g \/ h + HostBlock <= g \/ g + HostBlock <= h
      BY <2>3 DEF EnvInv, HostsKept
    <3>4. \A h \in hosts : new + HostBlock <= h /\ new <= h
      BY <3>2, <3>3, <1>3, Sizes
    <3>5. \A h \in hosts' : h \in hosts \/ h = new
      BY <1>2
    <3>6. new <= new
      BY <2>2
    <3> QED
      BY <3>2, <3>3, <3>4, <3>5, <3>6
  <2>4. HostApart' = HostApart
    BY <1>2 DEF HostApart
  <2> QED
    BY <2>2, <2>3, <2>4 DEF HostsKept
<1>11. abandoned' \in Nat /\ (abandoned' = 0 => bs'.dir[0] = Host)
  BY <1>2, <1>4 DEF EnvInv
<1>12. EnvInv'
  BY <1>1, <1>2, <1>3, <1>4, <1>6, <1>7, <1>8, <1>9, <1>10, <1>11, Rebuilt
<1> QED
  BY <1>2, <1>12

\* The arena starts with the oldest mark of each end alone in it.
LEMMA InitStep ==
  ASSUME EnvInit
  PROVE  EnvInv
<1>1. PICK b :
        /\ b = [fptr |-> HDR, fmark |-> NULL, bptr |-> Size, bmark |-> NULL,
                dir |-> [i \in 0 .. DirBits - 1 |-> BS_FORWARD],
                mem |-> [a \in {} |-> NULL]]
  OBVIOUS
<1>2. ArenaOK(b)
  <2>1. HDR \in Int /\ Size \in Int /\ HDR <= HDR /\ HDR <= Size /\ NULL \in Int
    BY Sizes
  <2>2. b.dir \in [0 .. DirBits - 1 -> Direction]
    BY <1>1 DEF Direction
  <2>3. b.mem \in {b.mem}
    OBVIOUS
  <2> QED
    BY <1>1, <2>1, <2>2, <2>3 DEF ArenaOK, ArenaRec
<1>3. PICK f, m : f = bistack_markf(b) /\ m = bistack_markb(f)
  OBVIOUS
<1>4. /\ f.fptr = HDR + PTR /\ f.fmark = HDR /\ f.bptr = Size /\ f.bmark = NULL
      /\ f.dir = b.dir /\ f.mem = StorePtr(b.mem, HDR, NULL) /\ ArenaOK(f)
  <2>1. /\ f.fptr = b.fptr + PTR /\ f.fmark = b.fptr
        /\ f.bptr = b.bptr /\ f.bmark = b.bmark /\ f.dir = b.dir
        /\ f.mem = StorePtr(b.mem, b.fptr, b.fmark)
        /\ f.fptr \in Int => f \in ArenaRec({f.mem})
    BY <1>2, <1>3, MarkF
  <2>2. /\ f.fptr = HDR + PTR /\ f.fmark = HDR /\ f.bptr = Size /\ f.bmark = NULL
        /\ f.mem = StorePtr(b.mem, HDR, NULL)
    BY <1>1, <2>1
  <2>3. HDR + PTR \in Int /\ HDR <= HDR + PTR /\ HDR + PTR <= Size
    BY Sizes
  <2>4. HDR <= f.fptr /\ f.fptr <= f.bptr /\ f.bptr <= Size
    BY <2>2, <2>3, Sizes
  <2> QED
    BY <2>1, <2>2, <2>3, <2>4 DEF ArenaOK
<1>5. /\ m.fptr = HDR + PTR /\ m.fmark = HDR
      /\ m.bptr = Size - PTR /\ m.bmark = Size - PTR
      /\ m.mem = StorePtr(f.mem, Size - PTR, NULL) /\ ArenaOK(m)
  <2>1. /\ m.bptr = f.bptr - PTR /\ m.bmark = f.bptr - PTR
        /\ m.fptr = f.fptr /\ m.fmark = f.fmark /\ m.dir = f.dir
        /\ m.mem = StorePtr(f.mem, f.bptr - PTR, f.bmark)
        /\ m.bptr \in Int => m \in ArenaRec({m.mem})
    BY <1>3, <1>4, MarkB
  <2>2. /\ m.fptr = HDR + PTR /\ m.fmark = HDR
        /\ m.bptr = Size - PTR /\ m.bmark = Size - PTR
        /\ m.mem = StorePtr(f.mem, Size - PTR, NULL)
    BY <1>4, <2>1
  <2>3. Size - PTR \in Int /\ HDR <= HDR + PTR /\ HDR + PTR <= Size - PTR /\ Size - PTR <= Size
    BY Sizes
  <2>4. HDR <= m.fptr /\ m.fptr <= m.bptr /\ m.bptr <= Size
    BY <2>2, <2>3
  <2> QED
    BY <2>1, <2>2, <2>3, <2>4 DEF ArenaOK
<1>6. /\ ArenaOK(bs) /\ bs.mem = m.mem /\ bs.dir[0] = Host
      /\ bs.fptr = HDR + PTR /\ bs.fmark = HDR
      /\ bs.bptr = Size - PTR /\ bs.bmark = Size - PTR
  <2>1. bs = bistack_pushdir(m, Host)
    BY <1>1, <1>3 DEF EnvInit, bistack_init
  <2>2. Host \in Direction
    BY Sizes DEF Direction
  <2> QED
    BY <1>5, <2>1, <2>2, PushDirArena
<1>7. Deref(bs, HDR) = NULL /\ Deref(bs, Size - PTR) = NULL
  <2>1. HDR \in Int /\ Size - PTR \in Int /\ HDR + PTR <= Size - PTR
    BY Sizes
  <2>2. Deref(f, HDR) = NULL
    BY <1>4, <2>1, StoreFrame
  <2>3. Deref(m, Size - PTR) = NULL /\ SameOutside(f, m, Size - PTR, (Size - PTR) + PTR)
    BY <1>5, <2>1, StoreFrame
  <2>4. Deref(m, HDR) = Deref(f, HDR)
    BY <2>1, <2>3 DEF SameOutside
  <2> QED
    BY <2>2, <2>3, <2>4, <1>6 DEF Deref
<1>8. PICK at : at = IF dir = BS_FORWARD THEN HDR ELSE Size - PTR
  OBVIOUS
<1>9. PICK P, T : P = [i \in 1 .. 1 |-> at] /\ T = [i \in 1 .. 0 |-> 0]
  OBVIOUS
<1>10. dir \in Direction
  BY DEF EnvInit, Direction
<1>11. Marked(P, 1, bs)
  <2>1. at \in Int /\ HDR <= at /\ at + PTR <= Size
    BY <1>8, Sizes
  <2>2. UnderTip(at, PTR, bs) /\ Newest(bs) = at
    BY <1>6, <1>8, Sizes DEF UnderTip, Under, Tip, Newest
  <2>3. Deref(bs, at) = NULL
    BY <1>7, <1>8
  <2>4. P \in [1 .. 1 -> Int] /\ P[1] = at /\ \A i \in 1 .. 1 : i = 1
    BY <1>9, <2>1
  <2>5. \A i, k \in 1 .. 1 : ~(i < k)
    OBVIOUS
  <2> QED
    BY <2>1, <2>2, <2>3, <2>4, <2>5 DEF Marked
<1>12. Nested(T, 0)
  <2>1. T \in [1 .. 0 -> Int] /\ 1 .. 0 = {}
    BY <1>9
  <2>2. DOMAIN tables = {} /\ innerbindings = NULL
    BY DEF EnvInit
  <2> QED
    BY <2>1, <2>2 DEF Nested
<1>13. Placed(P, 1, T, 0, bs) /\ Distinct(T, 0)
  BY DEF Placed, Distinct
<1>14. Scoped(P, 1, T, 0, bs.dir)
  <2>1. scopes = <<>>
    BY DEF EnvInit
  <2>2. <<>> \in Seq(Scope) /\ Len(<<>>) = 0
    OBVIOUS
  <2> QED
    BY <2>1, <2>2 DEF Scoped
<1>15. HostsKept(bs, hosts) /\ abandoned \in Nat
  BY DEF EnvInit, HostsKept
<1> QED
  BY <1>6, <1>10, <1>11, <1>12, <1>13, <1>14, <1>15 DEF EnvInv

\* All but the last of a sequence is one shorter.
LEMMA FrontShorter ==
  ASSUME NEW S, NEW q \in Seq(S), q # <<>>
  PROVE  Len(Front(q)) = Len(q) - 1
<1>1. PICK k \in Nat : Len(q) = k + 1
  OBVIOUS
<1>2. 1 \in Int /\ k \in Int /\ \A i \in 1 .. k : q[i] \in S
  BY <1>1
<1>3. Len(SubSeq(q, 1, k)) = IF 1 <= k THEN k - 1 + 1 ELSE 0
  BY <1>2, SubSeqProperties
<1>4. Front(q) = SubSeq(q, 1, k)
  BY <1>1 DEF Front
<1> QED
  BY <1>1, <1>3, <1>4

\* Every step keeps the invariant, and takes a scope only where it gives back
\* what was allocated in it.
LEMMA EnvStep ==
  ASSUME EnvInv, [EnvNext]_envvars
  PROVE  /\ EnvInv'
         /\ scopes # <<>> /\ scopes' = Front(scopes) /\ Last(scopes).abandoned = abandoned
              => Ends(bs') = Last(scopes).before
<1>1. scopes \in Seq(Scope)
  BY DEF EnvInv, Scoped
<1>2. scopes # <<>> => Front(scopes) # scopes /\ Front(scopes) # Append(scopes, Pushed)
  <2>1. ASSUME scopes # <<>>
        PROVE  Front(scopes) # scopes /\ Front(scopes) # Append(scopes, Pushed)
    <3>1. Len(scopes) \in Nat /\ Len(scopes) # 0
      BY <1>1, <2>1
    <3>2. Len(Front(scopes)) = Len(scopes) - 1
      BY <1>1, <2>1, FrontShorter
    <3>3. Len(Append(scopes, Pushed)) = Len(scopes) + 1
      BY <1>1
    <3> QED
      BY <3>1, <3>2, <3>3
  <2> QED
    BY <2>1
<1>3. CASE UNCHANGED envvars
  <2>1. UNCHANGED <<bs, dir, environment, hosts, abandoned>>
    BY <1>3 DEF envvars
  <2>2. EnvInv' /\ scopes' = scopes
    BY <2>1, SameEnvironment
  <2> QED
    BY <1>2, <2>2
<1>4. CASE env_pushsymtable
  <2>1. CASE Runs(TRUE)
    <3>1. CASE CanAlloc(Entered, PTR) /\ CanAlloc(bistack_mark(Entered), TABLE)
      <4>1. EnvInv' /\ scopes' = Append(scopes, Pushed)
        BY <1>4, <2>1, <3>1, PushedStep
      <4> QED
        BY <1>2, <4>1
    <3>2. CASE ~(CanAlloc(Entered, PTR) /\ CanAlloc(bistack_mark(Entered), TABLE))
      <4>1. EnvInv' /\ scopes' = scopes
        BY <1>4, <2>1, <3>2, PushAbandoned
      <4> QED
        BY <1>2, <4>1
    <3> QED
      BY <3>1, <3>2
  <2>2. CASE ~Runs(TRUE)
    <3>1. UNCHANGED <<bs, dir, environment, hosts, abandoned>>
      BY <1>4, <2>2 DEF env_pushsymtable, Asserts, Runs
    <3>2. EnvInv' /\ scopes' = scopes
      BY <3>1, SameEnvironment
    <3> QED
      BY <1>2, <3>2
  <2> QED
    BY <2>1, <2>2
<1>5. CASE env_popsymtable
  <2>1. CASE Runs(innerbindings # NULL)
    BY <1>5, <2>1, PopStep
  <2>2. CASE ~Runs(innerbindings # NULL)
    <3>1. UNCHANGED <<bs, dir, environment, hosts, abandoned>>
      BY <1>5, <2>2 DEF env_popsymtable, Asserts, Runs
    <3>2. EnvInv' /\ scopes' = scopes
      BY <3>1, SameEnvironment
    <3> QED
      BY <1>2, <3>2
  <2> QED
    BY <2>1, <2>2
<1>6. CASE env_bind_symbol
  <2>1. EnvInv' /\ scopes' = scopes
    <3>1. CASE Runs(innerbindings # NULL) /\ CanAlloc(Entered, NODE)
      BY <1>6, <3>1, BoundStep
    <3>2. CASE Runs(innerbindings # NULL) /\ ~CanAlloc(Entered, NODE)
      BY <1>6, <3>2, BindAbandoned
    <3>3. CASE ~Runs(innerbindings # NULL)
      <4>1. UNCHANGED <<bs, dir, environment, hosts, abandoned>>
        BY <1>6, <3>3 DEF env_bind_symbol, Asserts, Runs
      <4> QED
        BY <4>1, SameEnvironment
    <3> QED
      BY <3>1, <3>2, <3>3
  <2> QED
    BY <1>2, <2>1
<1>7. CASE HostAllocates
  <2>1. EnvInv' /\ scopes' = scopes
    BY <1>7, HostStep
  <2> QED
    BY <1>2, <2>1
<1> QED
  BY <1>3, <1>4, <1>5, <1>6, <1>7 DEF EnvNext

-----------------------------------------------------------------------------
(* What follows from the invariant.                                        *)

\* What is reached lies in the tables and nodes of the invariant's list.
LEMMA ReachedIsHeld ==
  ASSUME NEW T, NEW j, Nested(T, j)
  PROVE  /\ Len(Chain) = j /\ (j > 0 => Last(Chain) = T[1])
         /\ \A block \in Reached : \E i \in 1 .. j : Held(T[i], block[1], block[2])
         /\ \A block \in Reached : block = <<block[1], block[2]>>
<1>1. Chain = Inward(T, j)
  BY ChainIsNested
<1>2. j \in Nat /\ T \in [1 .. j -> Int]
  BY DEF Nested
<1>3. PICK s \in Seq(Int) : s = Chain /\ Len(s) = j /\ \A k \in 1 .. j : s[k] = T[(j + 1) - k]
  <2>1. \A k \in 1 .. j : (j + 1) - k \in 1 .. j
    BY <1>2
  <2>2. PICK n, s : n \in Nat /\ n = j /\ s = Inward(T, j)
    BY <1>2
  <2>3. s = [k \in 1 .. n |-> T[(j + 1) - k]]
    BY <2>2 DEF Inward
  <2>4. s \in [1 .. n -> Int]
    BY <2>1, <2>2, <2>3, <1>2
  <2>5. s \in Seq(Int) /\ Len(s) = n
    BY <2>2, <2>4
  <2>6. \A k \in 1 .. j : s[k] = T[(j + 1) - k]
    BY <2>2, <2>3
  <2> QED
    BY <2>2, <2>5, <2>6, <1>1
<1>4. j > 0 => Last(Chain) = T[1]
  <2>1. ASSUME j > 0 PROVE Last(s) = T[1]
    <3>1. j \in 1 .. j /\ (j + 1) - j = 1
      BY <1>2, <2>1
    <3>2. Last(s) = s[j]
      BY <1>3 DEF Last
    <3> QED
      BY <3>1, <3>2, <1>3
  <2> QED
    BY <2>1, <1>3
<1>5. \A t \in Range(Chain) : \E i \in 1 .. j : t = T[i]
  <2>1. ASSUME NEW t \in Range(s)
        PROVE  \E i \in 1 .. j : t = T[i]
    <3>1. PICK k \in 1 .. j : t = s[k]
      BY <1>3 DEF Range
    <3>2. (j + 1) - k \in 1 .. j
      BY <1>2
    <3> QED
      BY <3>1, <3>2, <1>3
  <2> QED
    BY <2>1, <1>3
<1>6. ASSUME NEW block \in Reached
      PROVE  /\ \E i \in 1 .. j : Held(T[i], block[1], block[2])
             /\ block = <<block[1], block[2]>>
  <2>1. \E t \in Range(Chain) : block = <<t, TABLE>> \/ \E n \in tables[t].nodes : block = <<n, NODE>>
    BY <1>6 DEF Reached
  <2>2. PICK t \in Range(Chain) : block = <<t, TABLE>> \/ \E n \in tables[t].nodes : block = <<n, NODE>>
    BY <2>1
  <2>3. Held(t, block[1], block[2]) /\ block = <<block[1], block[2]>>
    BY <2>2 DEF Held
  <2> QED
    BY <2>3, <1>5
<1> QED
  BY <1>3, <1>4, <1>6

\* Whatever is reached is allocated, and the rest of what the run checks.
LEMMA LiveFollows == EnvInv => EnvironmentLive
<1> SUFFICES ASSUME EnvInv PROVE EnvironmentLive
  OBVIOUS
<1>1. PICK P, n, T, j :
        /\ Marked(P, n, bs) /\ Nested(T, j)
        /\ Placed(P, n, T, j, bs) /\ Distinct(T, j) /\ Scoped(P, n, T, j, bs.dir)
  BY DEF EnvInv
<1>2. /\ dir \in Direction /\ ArenaOK(bs) /\ bs.fptr \in Int /\ bs.bptr \in Int
      /\ bs.fptr <= bs.bptr
  <2>1. dir \in Direction /\ ArenaOK(bs)
    BY DEF EnvInv
  <2> QED
    BY <2>1, Fields
<1>3. ASSUME NEW block \in Reached
      PROVE  /\ block[1] \in Int /\ block[2] \in Nat
             /\ UnderTip(block[1], block[2], bs)
  <2>1. PICK i \in 1 .. j : Held(T[i], block[1], block[2])
    BY <1>1, <1>3, ReachedIsHeld
  <2> QED
    BY <1>1, <1>2, <2>1, HeldUnderTip
<1>4. \A block \in Reached : Allocated(block)
  <2>1. ASSUME NEW block \in Reached
        PROVE  Allocated(block)
    <3>1. /\ block[1] \in Int /\ block[2] \in Nat
          /\ UnderTip(block[1], block[2], bs)
      BY <1>3
    <3> QED
      BY <3>1, <1>2, Sizes DEF Allocated, UnderTip, Under, Tip
  <2> QED
    BY <2>1
<1>5. Apart(Reached)
  <2>1. ASSUME NEW x \in Reached, NEW y \in Reached
        PROVE  x = y \/ x[1] + x[2] <= y[1] \/ y[1] + y[2] <= x[1]
    <3>1. PICK i \in 1 .. j : Held(T[i], x[1], x[2])
      BY <1>1, ReachedIsHeld
    <3>2. PICK k \in 1 .. j : Held(T[k], y[1], y[2])
      BY <1>1, ReachedIsHeld
    <3>3. (x[1] = y[1] /\ x[2] = y[2]) \/ x[1] + x[2] <= y[1] \/ y[1] + y[2] <= x[1]
      BY <3>1, <3>2, <1>1 DEF Distinct
    <3>4. x = <<x[1], x[2]>> /\ y = <<y[1], y[2]>>
      BY <1>1, ReachedIsHeld
    <3> QED
      BY <3>3, <3>4
  <2> QED
    BY <2>1 DEF Apart
<1>6. Len(scopes) = j /\ scopes \in Seq(Scope) /\ (j > 0 /\ scopes[1].first => globalbindings = T[1])
  BY <1>1 DEF Scoped
<1>7. scopes # <<>> /\ scopes[1].first => globalbindings = Last(Chain)
  <2>1. scopes # <<>> => j > 0
    BY <1>6
  <2> QED
    BY <2>1, <1>1, <1>6, ReachedIsHeld
<1>8. ASSUME abandoned = 0, dir # Host
      PROVE  Apart(Reached \cup Hosted) /\ \A block \in Hosted : Allocated(block)
  <2>1. HostApart /\ dir = BS_FORWARD
    BY <1>2, <1>8, Sizes DEF HostApart, Direction
  <2>2. /\ \A h \in hosts : h \in Int /\ bs.bptr <= h
        /\ \A h, g \in hosts : h = g \/ h + HostBlock <= g \/ g + HostBlock <= h
    BY <2>1 DEF EnvInv, HostsKept
  <2>3. \A block \in Hosted :
           /\ block[1] \in hosts /\ block = <<block[1], HostBlock>> /\ block[2] = HostBlock
    BY DEF Hosted
  <2>4. \A block \in Hosted : Allocated(block)
    BY <2>2, <2>3 DEF Allocated
  <2>5. ASSUME NEW x \in Reached, NEW y \in Hosted
        PROVE  x[1] + x[2] <= y[1]
    <3>1. x[1] \in Int /\ x[2] \in Nat /\ UnderTip(x[1], x[2], bs)
      BY <1>3
    <3>2. y[1] \in Int /\ bs.bptr <= y[1]
      BY <2>2, <2>3
    <3> QED
      BY <3>1, <3>2, <2>1, <1>2 DEF UnderTip, Under, Tip
  <2>6. ASSUME NEW x \in Hosted, NEW y \in Hosted
        PROVE  x = y \/ x[1] + x[2] <= y[1] \/ y[1] + y[2] <= x[1]
    BY <2>2, <2>3
  <2>7. ASSUME NEW x \in Reached \cup Hosted, NEW y \in Reached \cup Hosted
        PROVE  x = y \/ x[1] + x[2] <= y[1] \/ y[1] + y[2] <= x[1]
    BY <2>5, <2>6, <2>7, <1>5 DEF Apart
  <2>8. Apart(Reached \cup Hosted)
    BY <2>7 DEF Apart
  <2> QED
    BY <2>4, <2>8
<1>9. Len(Chain) = Len(scopes)
  BY <1>1, <1>6, ReachedIsHeld
<1> QED
  BY <1>4, <1>5, <1>7, <1>8, <1>9 DEF EnvironmentLive

\* The invariant of every behaviour.
LEMMA EnvInvariant == EnvSpec => []EnvInv
<1>1. EnvInit => EnvInv
  BY InitStep
<1>2. EnvInv /\ [EnvNext]_envvars => EnvInv'
  BY EnvStep
<1> QED
  BY <1>1, <1>2, PTL DEF EnvSpec

\* What env_pushsymtable, env_popsymtable and env_bind_symbol leave reachable
\* is allocated and in one piece: whatever memory ran out in between, no table
\* of the chain outlives its scope and no node its table, and no two of them,
\* nor the host's where it is safe, share a byte.
THEOREM TablesLive == EnvSpec => []EnvironmentLive
<1>1. EnvInv => EnvironmentLive
  BY LiveFollows
<1> QED
  BY <1>1, EnvInvariant, PTL

\* env_popsymtable gives back what was allocated since its env_pushsymtable
\* and no more, where no call in between was abandoned: the pointer, the mark
\* and the host's direction are those that the push found.
THEOREM ScopesGiveBack == EnvSpec => ScopeGivenBack
<1>1. EnvInv /\ [EnvNext]_envvars =>
        [scopes # <<>> /\ scopes' = Front(scopes) /\ Last(scopes).abandoned = abandoned =>
           Ends(bs') = Last(scopes).before]_envvars
  BY EnvStep
<1> QED
  BY <1>1, EnvInvariant, PTL DEF EnvSpec, ScopeGivenBack
=============================================================================
