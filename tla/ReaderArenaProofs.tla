------------------------- MODULE ReaderArenaProofs -------------------------
(***************************************************************************)
(* Where the reader's contexts and cells lie in the arena, proved for every *)
(* text, every size of the structs and every arena that has room for the    *)
(* reader to begin with.                                                    *)
(***************************************************************************)
EXTENDS ReaderProofs, Pprint, FiniteSetTheorems, WellFoundedInduction

-----------------------------------------------------------------------------
(* The words of the arena that hold marks.                                 *)

LEMMA SizeIsNat == Size \in Nat
BY ReaderAssumption

\* The word at a is the pointer v.
Holds(m, a, v) == a \in DOMAIN m /\ m[a] = v

\* What is written above or below a word leaves it alone.
LEMMA ScrubHolds ==
  ASSUME NEW m, NEW a, NEW v, NEW lo, NEW hi, Holds(m, a, v), ~Overlaps(a, lo, hi)
  PROVE  Holds(Scrub(m, lo, hi), a, v)
BY DEF Holds, Scrub

LEMMA StoreHolds ==
  ASSUME NEW m, NEW a, NEW v, NEW p, NEW w, Holds(m, a, v), ~Overlaps(a, p, p + PTR), a # p
  PROVE  Holds(StorePtr(m, p, w), a, v)
BY DEF Holds, StorePtr

\* A pointer that is stored is there.
LEMMA StoredHolds ==
  ASSUME NEW m, NEW p, NEW w
  PROVE  Holds(StorePtr(m, p, w), p, w)
BY DEF Holds, StorePtr

-----------------------------------------------------------------------------
(* The arena, of which the host and the reader use the backward end, and   *)
(* the cells the forward one.                                              *)

Bits == 0 .. DirBits - 1

ArenaOf(b) ==
  /\ b \in [fptr : Nat, fmark : Nat, bptr : Nat, bmark : Nat, mem : {b.mem},
            dir : [Bits -> {BS_FORWARD, BS_BACKWARD}]]
  /\ b.dir[0] = BS_BACKWARD
  /\ 0 < b.fptr /\ b.fptr <= b.bptr /\ b.bptr <= Size
  /\ b.fmark <= Size /\ b.bmark <= Size

\* What backward calls do: the backward pointer goes down, and no word above
\* it is written.
GrownFrom(a, b) ==
  /\ a.fptr = b.fptr /\ a.bptr <= b.bptr
  /\ \A x, v : x \in Nat /\ b.bptr <= x /\ Holds(b.mem, x, v) => Holds(a.mem, x, v)

LEMMA BackwardAlloc ==
  ASSUME NEW b, ArenaOf(b), NEW n \in Nat, CanAlloc(b, n)
  PROVE  /\ ArenaOf(bistack_alloc(b, n))
         /\ bistack_alloc(b, n).fptr = b.fptr
         /\ bistack_alloc(b, n).bptr = b.bptr - n
         /\ bistack_alloc(b, n).bmark = b.bmark
         /\ bistack_alloc(b, n).mem = b.mem
<1>1. PICK p \in Nat : p = b.bptr - n
  BY DEF CanAlloc, ArenaOf
<1>2. PICK a : a = [b EXCEPT !.bptr = p]
  OBVIOUS
<1>3. bistack_alloc(b, n) = a
  <2>1. ~(b.dir[0] = BS_FORWARD)
    BY DEF ArenaOf, BS_FORWARD, BS_BACKWARD
  <2> QED
    BY <1>1, <1>2, <2>1 DEF bistack_alloc, bistack_allocb, Forward, bistack_dir
<1>4. /\ a.fptr = b.fptr /\ a.bptr = p /\ a.bmark = b.bmark /\ a.mem = b.mem
      /\ a.fmark = b.fmark /\ a.dir = b.dir
      /\ a \in [fptr : Nat, fmark : Nat, bptr : Nat, bmark : Nat, mem : {b.mem},
                dir : [Bits -> {BS_FORWARD, BS_BACKWARD}]]
  BY <1>2 DEF ArenaOf
<1>5. ArenaOf(a)
  <2>1. p <= b.bptr /\ b.fptr <= p
    BY <1>1 DEF ArenaOf, CanAlloc
  <2> QED
    BY <1>4, <2>1, SizeIsNat DEF ArenaOf
<1> QED
  BY <1>1, <1>3, <1>4, <1>5

LEMMA BackwardMark ==
  ASSUME NEW b, ArenaOf(b), CanAlloc(b, PTR)
  PROVE  /\ ArenaOf(bistack_mark(b))
         /\ bistack_mark(b).fptr = b.fptr
         /\ bistack_mark(b).bptr = b.bptr - PTR
         /\ bistack_mark(b).bmark = b.bptr - PTR
         /\ Holds(bistack_mark(b).mem, b.bptr - PTR, b.bmark)
         /\ GrownFrom(bistack_mark(b), b)
<1>0. PTR \in Nat \ {0}
  BY SizesAssumption
<1>1. PICK p \in Nat : p = b.bptr - PTR
  BY <1>0 DEF CanAlloc, ArenaOf
<1>2. PICK m : m = StorePtr(b.mem, p, b.bmark)
  OBVIOUS
<1>3. PICK a : a = [b EXCEPT !.bptr = p, !.bmark = p, !.mem = m]
  OBVIOUS
<1>4. bistack_mark(b) = a
  <2>1. ~(b.dir[0] = BS_FORWARD)
    BY DEF ArenaOf, BS_FORWARD, BS_BACKWARD
  <2> QED
    BY <1>1, <1>2, <1>3, <2>1 DEF bistack_mark, bistack_markb, Forward, bistack_dir
<1>5. /\ a.fptr = b.fptr /\ a.bptr = p /\ a.bmark = p /\ a.mem = m
      /\ a.fmark = b.fmark /\ a.dir = b.dir
      /\ a \in [fptr : Nat, fmark : Nat, bptr : Nat, bmark : Nat, mem : {m},
                dir : [Bits -> {BS_FORWARD, BS_BACKWARD}]]
  BY <1>3 DEF ArenaOf
<1>6. ArenaOf(a)
  <2>1. p <= b.bptr /\ b.fptr <= p
    BY <1>0, <1>1 DEF ArenaOf, CanAlloc
  <2> QED
    BY <1>5, <2>1, SizeIsNat DEF ArenaOf
<1>7. Holds(m, p, b.bmark)
  BY <1>2, StoredHolds
<1>8. ASSUME NEW x, NEW v, x \in Nat, b.bptr <= x, Holds(b.mem, x, v)
      PROVE  Holds(m, x, v)
  <2>1. ~Overlaps(x, p, p + PTR) /\ x # p
    BY <1>0, <1>1, <1>8 DEF Overlaps, ArenaOf
  <2> QED
    BY <1>2, <1>8, <2>1, StoreHolds
<1>9. GrownFrom(a, b)
  BY <1>0, <1>1, <1>5, <1>8 DEF GrownFrom, ArenaOf
<1> QED
  BY <1>1, <1>4, <1>5, <1>6, <1>7, <1>9

LEMMA ForwardAlloc ==
  ASSUME NEW b, ArenaOf(b), NEW n \in Nat, CanAlloc(b, n)
  PROVE  /\ ArenaOf(bistack_allocf(b, n))
         /\ bistack_allocf(b, n).fptr = b.fptr + n
         /\ bistack_allocf(b, n).bptr = b.bptr
         /\ bistack_allocf(b, n).bmark = b.bmark
         /\ bistack_allocf(b, n).mem = b.mem
<1>1. PICK p \in Nat : p = b.fptr + n
  BY DEF ArenaOf
<1>2. PICK a : a = [b EXCEPT !.fptr = p]
  OBVIOUS
<1>3. bistack_allocf(b, n) = a
  BY <1>1, <1>2 DEF bistack_allocf
<1>4. /\ a.fptr = p /\ a.bptr = b.bptr /\ a.bmark = b.bmark /\ a.mem = b.mem
      /\ a.fmark = b.fmark /\ a.dir = b.dir
      /\ a \in [fptr : Nat, fmark : Nat, bptr : Nat, bmark : Nat, mem : {b.mem},
                dir : [Bits -> {BS_FORWARD, BS_BACKWARD}]]
  BY <1>2 DEF ArenaOf
<1>5. ArenaOf(a)
  BY <1>1, <1>4 DEF ArenaOf, CanAlloc
<1> QED
  BY <1>1, <1>3, <1>4, <1>5

\* A rewind gives back all down from the newest mark.
LEMMA BackwardRewind ==
  ASSUME NEW b, ArenaOf(b), NEW v \in Nat, v # 0, v <= Size,
         Holds(b.mem, b.bmark, v), b.bptr <= b.bmark, b.bmark + PTR <= Size
  PROVE  /\ CanRewind(b)
         /\ ArenaOf(bistack_rewind(b))
         /\ bistack_rewind(b).fptr = b.fptr
         /\ bistack_rewind(b).bptr = b.bmark + PTR
         /\ StackTop(bistack_rewind(b)) = b.bmark + PTR
         /\ bistack_rewind(b).bmark = v
         /\ \A x, w : x \in Nat /\ b.bmark + PTR <= x /\ Holds(b.mem, x, w)
                        => Holds(bistack_rewind(b).mem, x, w)
<1>0. PTR \in Nat \ {0} /\ b.bmark \in Nat /\ b.bptr \in Nat /\ b.fptr \in Nat
  BY SizesAssumption DEF ArenaOf
<1>1. PICK p \in Nat : p = b.bmark + PTR
  BY <1>0
<1>2. PICK m : m = Scrub(b.mem, b.bptr, p)
  OBVIOUS
<1>3. PICK a : a = [b EXCEPT !.bptr = p, !.bmark = v, !.mem = m]
  OBVIOUS
<1>4. ~(b.dir[0] = BS_FORWARD)
  BY DEF ArenaOf, BS_FORWARD, BS_BACKWARD
<1>5. Deref(b, b.bmark) = v
  BY DEF Deref, Holds
<1>6. bistack_rewind(b) = a
  BY <1>1, <1>2, <1>3, <1>4, <1>5 DEF bistack_rewind, bistack_rewindb, Forward, bistack_dir
<1>7. CanRewind(b)
  <2>1. b.bmark # 0
    BY <1>0 DEF ArenaOf
  <2> QED
    BY <1>4, <1>5, <2>1 DEF CanRewind, HasMark, Forward, bistack_dir, NULL
<1>8. /\ a.fptr = b.fptr /\ a.bptr = p /\ a.bmark = v /\ a.mem = m
      /\ a.fmark = b.fmark /\ a.dir = b.dir
      /\ a \in [fptr : Nat, fmark : Nat, bptr : Nat, bmark : Nat, mem : {m},
                dir : [Bits -> {BS_FORWARD, BS_BACKWARD}]]
  BY <1>3 DEF ArenaOf
<1>9. ArenaOf(a)
  BY <1>0, <1>1, <1>8 DEF ArenaOf
<1>10. StackTop(a) = p
  BY <1>4, <1>8 DEF StackTop, Forward, bistack_dir
<1>11. ASSUME NEW x, NEW w, x \in Nat, p <= x, Holds(b.mem, x, w)
       PROVE  Holds(m, x, w)
  <2>1. ~Overlaps(x, b.bptr, p)
    BY <1>0, <1>1, <1>11 DEF Overlaps
  <2> QED
    BY <1>2, <1>11, <2>1, ScrubHolds
<1> QED
  BY <1>1, <1>6, <1>7, <1>8, <1>9, <1>10, <1>11

-----------------------------------------------------------------------------
(* Calls in a row.                                                         *)

\* A set of numbers that is not empty has a least one, ...
LEMMA LeastNumber ==
  ASSUME NEW T, T \subseteq Nat, T # {}
  PROVE \E n \in T : \A m \in T : n <= m
<1> DEFINE U == {1 .. n : n \in T}
<1>1. IsWellFoundedOn(StrictSubsetOrdering(Nat), FiniteSubsetsOf(Nat))
  BY FS_StrictSubsetOrderingWellFounded
<1>2. \A n \in T : IsFiniteSet(1 .. n) /\ 1 .. n \in SUBSET Nat
  BY FS_Interval
<1>3. U \subseteq FiniteSubsetsOf(Nat) /\ U # {}
  BY <1>2 DEF FiniteSubsetsOf
<1>4. PICK x \in U : \A y \in U : ~ (<<y, x>> \in StrictSubsetOrdering(Nat))
  BY <1>1, <1>3, WFMin
<1>5. PICK n \in T : x = 1 .. n
  OBVIOUS
<1>6. ASSUME NEW m \in T, m < n PROVE FALSE
  <2>1. 1 .. m \in U /\ 1 .. m \subseteq 1 .. n /\ n \in 1 .. n /\ n \notin 1 .. m
    BY <1>6
  <2>2. <<1 .. m, 1 .. n>> \in StrictSubsetOrdering(Nat)
    BY <2>1, <1>2 DEF StrictSubsetOrdering
  <2> QED BY <1>4, <1>5, <2>1, <2>2
<1> QED
  BY <1>6

\* ... and a largest, if there is a bound to them.
LEMMA LargestNumber ==
  ASSUME NEW n \in Nat, NEW s \in SUBSET (1 .. n), s # {}
  PROVE  Max(s) \in s /\ \A x \in s : x <= Max(s)
<1>1. PICK m \in Nat : /\ \A x \in s : x <= m
                       /\ \A u \in Nat : (\A x \in s : x <= u) => m <= u
  <2> DEFINE U == {u \in Nat : \A x \in s : x <= u}
  <2>1. n \in U
    <3>1. \A x \in s : x <= n
      OBVIOUS
    <3> QED
      BY <3>1
  <2>2. PICK m \in U : \A u \in U : m <= u
    BY <2>1, LeastNumber
  <2> QED
    BY <2>2
<1>2. m \in s
  <2>1. SUFFICES ASSUME m \notin s PROVE FALSE
    OBVIOUS
  <2>2. PICK y : y \in s
    OBVIOUS
  <2>3. m - 1 \in Nat
    <3>1. y \in Nat /\ y >= 1 /\ y <= m
      BY <1>1, <2>2
    <3> QED
      BY <3>1
  <2>4. \A x \in s : x <= m - 1
    BY <1>1, <2>1
  <2> QED
    BY <1>1, <2>3, <2>4
<1>3. \A x \in s : m >= x
  BY <1>1
<1> QED
  BY <1>2, <1>3 DEF Max

Begun(b) == [bs |-> b, ok |-> TRUE]

\* f is what the calls have done, one after the other.
Done(f, b, calls) ==
  /\ f[0] = Begun(b)
  /\ \A k \in 1 .. Len(calls) : f[k] = After(f[k - 1], calls[k])

\* PerformAll is the last of what the calls do, one after the other.
LEMMA CallByCall ==
  ASSUME NEW b, NEW S, NEW calls \in Seq(S)
  PROVE  \E f : Done(f, b, calls) /\ PerformAll(b, calls) = f[Len(calls)]
<1> DEFINE D == DOMAIN calls
           Step(done, call) == CHOOSE next \in {After(found, call) : found \in {done}} : TRUE
           Val(g, s) == IF s = {} THEN Begun(b)
                        ELSE LET x == Max(s) IN Step(g[s \ {x}], calls[x])
           G(g) == [s \in SUBSET D |-> Val(g, s)]
           iter == CHOOSE g : g = G(g)
           Good(k) == \E g : \A s \in SUBSET (1 .. k) : g[s] = Val(g, s)
<1>1. PerformAll(b, calls) = iter[D]
  BY DEF PerformAll, FoldLeft, MapThenFoldSet, Begun
<1>2. \A done, call : Step(done, call) = After(done, call)
  OBVIOUS
<1>3. PICK n \in Nat : n = Len(calls) /\ D = 1 .. n
  OBVIOUS
<1> HIDE DEF Step, D
<1>4. ASSUME NEW k \in 1 .. n, Good(k - 1)
      PROVE  Good(k)
  <2>1. PICK g : \A s \in SUBSET (1 .. k - 1) : g[s] = Val(g, s)
    BY <1>4
  <2> DEFINE h == [s \in SUBSET (1 .. k) |->
                     IF k \in s THEN Step(g[s \ {k}], calls[k]) ELSE g[s]]
  <2>2. ASSUME NEW s \in SUBSET (1 .. k) PROVE h[s] = Val(h, s)
    <3>1. CASE k \in s
      <4>1. s # {} /\ Max(s) = k
        <5>1. k \in Nat /\ s # {}
          BY <3>1
        <5>2. Max(s) \in s /\ \A x \in s : x <= Max(s)
          BY <5>1, LargestNumber
        <5>3. Max(s) \in 1 .. k /\ k <= Max(s)
          BY <3>1, <5>2
        <5> QED
          BY <5>1, <5>3
      <4>2. s \ {k} \in SUBSET (1 .. k) /\ k \notin s \ {k}
        OBVIOUS
      <4>3. h[s \ {k}] = g[s \ {k}]
        BY <4>2
      <4>4. h[s] = Step(g[s \ {k}], calls[k])
        BY <3>1
      <4> HIDE DEF h
      <4> QED
        BY <4>1, <4>3, <4>4
    <3>2. CASE k \notin s
      <4>1. s \in SUBSET (1 .. k - 1) /\ h[s] = g[s]
        BY <3>2
      <4>2. CASE s = {}
        BY <2>1, <4>1, <4>2
      <4>3. CASE s # {}
        <5>1. Max(s) \in s
          <6>1. k - 1 \in Nat
            OBVIOUS
          <6> QED
            BY <4>1, <4>3, <6>1, LargestNumber
        <5>2. s \ {Max(s)} \in SUBSET (1 .. k) /\ k \notin s \ {Max(s)}
          BY <3>2
        <5>3. h[s \ {Max(s)}] = g[s \ {Max(s)}]
          BY <5>2
        <5>4. g[s] = Val(g, s)
          BY <2>1, <4>1
        <5> HIDE DEF h
        <5> QED
          BY <4>1, <4>3, <5>3, <5>4
      <4> QED
        BY <4>2, <4>3
    <3> QED
      BY <3>1, <3>2
  <2> QED
    BY <2>2
<1>5. Good(0)
  <2>1. \A s \in SUBSET (1 .. 0) : s = {}
    OBVIOUS
  <2>2. \A s \in SUBSET (1 .. 0) : [u \in SUBSET (1 .. 0) |-> Begun(b)][s] = Begun(b)
    OBVIOUS
  <2> QED
    BY <2>1, <2>2
<1>6. Good(n)
  <2>1. SUFFICES ASSUME ~Good(n) PROVE FALSE
    OBVIOUS
  <2> HIDE DEF Good
  <2> DEFINE T == {k \in 0 .. n : ~Good(k)}
  <2>2. T \in SUBSET Nat /\ T # {}
    BY <2>1
  <2>3. PICK k \in T : \A x \in T : k <= x
    BY <2>2, LeastNumber
  <2>4. k # 0
    BY <1>5, <2>3
  <2>5. k \in 1 .. n /\ k - 1 \in 0 .. n
    BY <2>3, <2>4
  <2>6. Good(k - 1)
    BY <2>3, <2>5
  <2> QED
    BY <1>4, <2>3, <2>5, <2>6
<1>7. iter = G(iter)
  <2>1. PICK g : \A s \in SUBSET (1 .. n) : g[s] = Val(g, s)
    BY <1>6
  <2> DEFINE found == [s \in SUBSET D |-> g[s]]
  <2>2. ASSUME NEW s \in SUBSET D PROVE found[s] = Val(found, s)
    <3>1. found[s] = g[s] /\ g[s] = Val(g, s)
      BY <1>3, <2>1
    <3>2. CASE s = {}
      BY <3>1, <3>2
    <3>3. CASE s # {}
      <4>1. s \ {Max(s)} \in SUBSET D
        OBVIOUS
      <4>2. found[s \ {Max(s)}] = g[s \ {Max(s)}]
        BY <4>1
      <4> HIDE DEF found
      <4> QED
        BY <3>1, <3>3, <4>2
    <3> QED
      BY <3>2, <3>3
  <2>3. found = [s \in SUBSET D |-> found[s]]
    OBVIOUS
  <2> HIDE DEF found, Val
  <2>4. found = G(found)
    BY <2>2, <2>3
  <2> HIDE DEF G
  <2> QED
    BY <2>4
<1>8. \A s \in SUBSET D : iter[s] = Val(iter, s)
  <2> HIDE DEF iter, Val
  <2>1. G(iter) = [s \in SUBSET D |-> Val(iter, s)]
    OBVIOUS
  <2> HIDE DEF G
  <2> QED
    BY <1>7, <2>1
<1> HIDE DEF iter, G, Good
<1> DEFINE f == [k \in 0 .. n |-> iter[1 .. k]]
<1>9. f[0] = Begun(b)
  <2>1. f[0] = iter[{}]
    <3>1. 1 .. 0 = {}
      OBVIOUS
    <3> QED
      BY <3>1
  <2>2. {} \in SUBSET D
    OBVIOUS
  <2> QED
    BY <1>8, <2>1, <2>2
<1>10. ASSUME NEW k \in 1 .. n PROVE f[k] = After(f[k - 1], calls[k])
  <2>1. 1 .. k \in SUBSET D /\ 1 .. k # {}
    BY <1>3
  <2>2. Max(1 .. k) = k
    <3>1. Max(1 .. k) \in 1 .. k /\ \A x \in 1 .. k : x <= Max(1 .. k)
      <4>1. k \in Nat /\ 1 .. k \in SUBSET (1 .. k) /\ 1 .. k # {}
        BY <2>1
      <4> QED
        BY <4>1, LargestNumber
    <3>2. k \in 1 .. k
      OBVIOUS
    <3> QED
      BY <3>1, <3>2
  <2>3. (1 .. k) \ {k} = 1 .. k - 1
    OBVIOUS
  <2>4. iter[1 .. k] = Step(iter[1 .. k - 1], calls[k])
    BY <1>8, <2>1, <2>2, <2>3
  <2>5. f[k] = iter[1 .. k] /\ f[k - 1] = iter[1 .. k - 1]
    OBVIOUS
  <2> QED
    BY <1>2, <2>4, <2>5
<1>11. f[n] = iter[D]
  BY <1>3
<1> QED
  BY <1>1, <1>3, <1>9, <1>10, <1>11 DEF Done

\* Two calls.
LEMMA CallTwice ==
  ASSUME NEW b, NEW c, NEW d
  PROVE  PerformAll(b, <<c, d>>) = After(After(Begun(b), c), d)
<1>1. PICK calls : calls = <<c, d>>
  OBVIOUS
<1>2. calls \in Seq({c, d}) /\ Len(calls) = 2 /\ calls[1] = c /\ calls[2] = d
  BY <1>1
<1>3. PICK f : Done(f, b, calls) /\ PerformAll(b, calls) = f[2]
  BY <1>2, CallByCall
<1>4. f[1] = After(f[0], c) /\ f[2] = After(f[1], d) /\ f[0] = Begun(b)
  <2>1. \A k \in 1 .. 2 : f[k] = After(f[k - 1], calls[k])
    BY <1>2, <1>3 DEF Done
  <2>2. f[1] = After(f[1 - 1], calls[1]) /\ f[2] = After(f[2 - 1], calls[2])
    BY <2>1
  <2>3. 1 - 1 = 0 /\ 2 - 1 = 1
    OBVIOUS
  <2> QED
    BY <1>2, <1>3, <2>2, <2>3 DEF Done
<1> QED
  BY <1>1, <1>3, <1>4

\* What calls leave: an arena in which memory was taken from the gap only.
CallsOf(a, b) == ArenaOf(a.bs) /\ a.ok \in BOOLEAN /\ GrownFrom(a.bs, b)

LEMMA GrownTwice ==
  ASSUME NEW a, NEW b, NEW c, ArenaOf(a), ArenaOf(b), ArenaOf(c),
         GrownFrom(a, b), GrownFrom(b, c)
  PROVE  GrownFrom(a, c)
<1>1. a.bptr \in Nat /\ b.bptr \in Nat /\ c.bptr \in Nat
  BY DEF ArenaOf
<1>2. a.fptr = c.fptr /\ a.bptr <= c.bptr
  BY <1>1 DEF GrownFrom
<1>3. ASSUME NEW x, NEW v, x \in Nat, c.bptr <= x, Holds(c.mem, x, v)
      PROVE  Holds(a.mem, x, v)
  <2>1. b.bptr <= x
    BY <1>1, <1>3 DEF GrownFrom
  <2>2. Holds(b.mem, x, v)
    BY <1>3 DEF GrownFrom
  <2> QED
    BY <1>3, <2>1, <2>2 DEF GrownFrom
<1> QED
  BY <1>2, <1>3 DEF GrownFrom

LEMMA GrownSame ==
  ASSUME NEW b, ArenaOf(b)
  PROVE  GrownFrom(b, b)
<1>1. b.bptr <= b.bptr
  <2>1. b.bptr \in Nat
    BY DEF ArenaOf
  <2> QED
    BY <2>1
<1> QED
  BY <1>1 DEF GrownFrom

LEMMA MarkFirst ==
  ASSUME NEW b, ArenaOf(b), NEW a, a = After(Begun(b), MarkCall)
  PROVE  /\ CallsOf(a, b)
         /\ IF a.ok THEN /\ a.bs.bptr = b.bptr - PTR /\ a.bs.bmark = b.bptr - PTR
                         /\ Holds(a.bs.mem, b.bptr - PTR, b.bmark)
                    ELSE a.bs = b
<1>1. Begun(b).ok = TRUE /\ Begun(b).bs = b
  BY DEF Begun
<1>2. MarkCall.op = "bistack_mark" /\ MarkCall.size = PTR
  BY DEF MarkCall
<1>3. CASE CanAlloc(b, PTR)
  <2>1. a = [bs |-> bistack_mark(b), ok |-> TRUE]
    BY <1>1, <1>2, <1>3 DEF After, Perform
  <2>2. a.bs = bistack_mark(b) /\ a.ok = TRUE
    BY <2>1
  <2> QED
    BY <1>3, <2>2, BackwardMark DEF CallsOf
<1>4. CASE ~CanAlloc(b, PTR)
  <2>1. a = [bs |-> b, ok |-> FALSE]
    BY <1>1, <1>2, <1>4 DEF After
  <2>2. a.bs = b /\ a.ok = FALSE
    BY <2>1
  <2>3. CallsOf(a, b)
    <3>1. ArenaOf(a.bs) /\ GrownFrom(a.bs, b) /\ a.ok \in BOOLEAN
      BY <2>2, GrownSame
    <3> QED
      BY <3>1 DEF CallsOf
  <2> QED
    BY <2>2, <2>3
<1> QED
  BY <1>3, <1>4

LEMMA AllocNext ==
  ASSUME NEW d, ArenaOf(d.bs), d.ok \in BOOLEAN, NEW n \in Nat, NEW a,
         a = After(d, AllocCall(n))
  PROVE  /\ CallsOf(a, d.bs)
         /\ a.bs.bmark = d.bs.bmark /\ a.bs.mem = d.bs.mem
         /\ IF a.ok THEN d.ok /\ a.bs.bptr = d.bs.bptr - n
                    ELSE a.bs = d.bs
<1>2. AllocCall(n).op = "bistack_alloc" /\ AllocCall(n).size = n
  BY DEF AllocCall
<1>0. d.bs.bptr \in Nat
  BY DEF ArenaOf
<1>3. CASE d.ok /\ CanAlloc(d.bs, n)
  <2>1. a = [bs |-> bistack_alloc(d.bs, n), ok |-> TRUE]
    BY <1>2, <1>3 DEF After, Perform
  <2>2. a.bs = bistack_alloc(d.bs, n) /\ a.ok = TRUE
    BY <2>1
  <2>3. /\ ArenaOf(a.bs) /\ a.bs.fptr = d.bs.fptr /\ a.bs.bptr = d.bs.bptr - n
        /\ a.bs.bmark = d.bs.bmark /\ a.bs.mem = d.bs.mem
    BY <1>3, <2>2, BackwardAlloc
  <2>4. a.bs.bptr <= d.bs.bptr
    BY <1>0, <2>3
  <2> QED
    BY <1>3, <2>2, <2>3, <2>4 DEF CallsOf, GrownFrom
<1>4. CASE ~(d.ok /\ CanAlloc(d.bs, n))
  <2>1. a = [bs |-> d.bs, ok |-> FALSE]
    BY <1>2, <1>4 DEF After
  <2>2. a.bs = d.bs /\ a.ok = FALSE
    BY <2>1
  <2>3. CallsOf(a, d.bs)
    <3>1. ArenaOf(a.bs) /\ GrownFrom(a.bs, d.bs) /\ a.ok \in BOOLEAN
      BY <2>2, GrownSame
    <3> QED
      BY <3>1 DEF CallsOf
  <2> QED
    BY <2>2, <2>3
<1> QED
  BY <1>3, <1>4

\* The cell is the only call that goes forward.
LEMMA CellNext ==
  ASSUME NEW d, ArenaOf(d.bs), d.ok \in BOOLEAN, NEW n \in Nat, NEW a,
         a = After(d, AllocFCall(n))
  PROVE  /\ ArenaOf(a.bs) /\ a.ok \in BOOLEAN
         /\ a.bs.bmark = d.bs.bmark /\ a.bs.mem = d.bs.mem /\ a.bs.bptr = d.bs.bptr
         /\ IF a.ok THEN d.ok /\ a.bs.fptr = d.bs.fptr + n
                    ELSE a.bs = d.bs
<1>2. AllocFCall(n).op = "bistack_allocf" /\ AllocFCall(n).size = n
  BY DEF AllocFCall
<1>3. CASE d.ok /\ CanAlloc(d.bs, n)
  <2>1. a = [bs |-> bistack_allocf(d.bs, n), ok |-> TRUE]
    BY <1>2, <1>3 DEF After, Perform
  <2>2. a.bs = bistack_allocf(d.bs, n) /\ a.ok = TRUE
    BY <2>1
  <2>3. PICK e : e = d.bs
    OBVIOUS
  <2>4. ArenaOf(e) /\ CanAlloc(e, n)
    BY <1>3, <2>3
  <2>5. /\ ArenaOf(bistack_allocf(e, n))
        /\ bistack_allocf(e, n).fptr = e.fptr + n
        /\ bistack_allocf(e, n).bptr = e.bptr
        /\ bistack_allocf(e, n).bmark = e.bmark
        /\ bistack_allocf(e, n).mem = e.mem
    BY <2>4, ForwardAlloc
  <2> QED
    BY <1>3, <2>2, <2>3, <2>5
<1>4. CASE ~(d.ok /\ CanAlloc(d.bs, n))
  <2>1. a = [bs |-> d.bs, ok |-> FALSE]
    BY <1>2, <1>4 DEF After
  <2>2. a.bs = d.bs /\ a.ok = FALSE
    BY <2>1
  <2> QED
    BY <2>2
<1> QED
  BY <1>3, <1>4

-----------------------------------------------------------------------------
(* A new context.                                                          *)

LEMMA SizesAreNat ==
  /\ SizeOf["READER_CONTEXT"] \in Nat /\ SizeOf["CELLHEADER"] \in Nat
  /\ SizeOf["PUT_MISSING_CONTEXT"] \in Nat /\ SizeOf["LIST"] \in Nat
  /\ SizeOf["FRAME"] \in Nat /\ SizeOf["LIST_NODE"] \in Nat
  /\ SizeOf["PPRINT_CONTEXT"] \in Nat /\ SizeOf["PPRINT_FRAME"] \in Nat
  /\ SizeOf["ENVIRONMENT"] \in Nat /\ SizeOf["READER"] \in Nat
  /\ \A type \in Types : OwnSize(type) \in Nat
  /\ PTR \in Nat \ {0}
<1>1. \A s \in Structs : SizeOf[s] \in Nat
  BY ReaderAssumption
<1>2. ASSUME NEW type \in Types PROVE OwnSize(type) \in Nat
  <2>1. CASE type = "AST_LIST"
    BY <1>1, <2>1 DEF OwnSize, Structs
  <2>2. CASE type = "AST_SYMBOL"
    BY <1>1, <2>2 DEF OwnSize, Structs
  <2>3. CASE type = "AST_INTEGER"
    BY <1>1, <2>3 DEF OwnSize, Structs
  <2> QED
    BY <2>1, <2>2, <2>3 DEF Types
<1> QED
  BY <1>1, <1>2, SizesAssumption DEF Structs

\* What new_reader_context leaves: where it threw, memory that was taken; where
\* it did not, a mark, the two structs below it, and a header for the cell.
LEMMA NewContext ==
  ASSUME NEW b, ArenaOf(b), NEW type \in Types \cup {"AST_NONE"}, NEW prefix,
         NEW new, new = new_reader_context(b, type, prefix)
  PROVE  /\ ArenaOf(new.bs) /\ new.bs.bptr <= b.bptr
         /\ \A x, v : x \in Nat /\ b.bptr <= x /\ Holds(b.mem, x, v)
                        => Holds(new.bs.mem, x, v)
         /\ new.err \in {"none", "BISTACK_OUT_OF_MEMORY", "READER_SYNTAX_ERROR"}
         /\ IF new.err = "none"
              THEN /\ type \in Types
                   /\ new.bs.fptr = b.fptr + SizeOf["CELLHEADER"]
                   /\ new.bs.bptr = ((b.bptr - PTR) - SizeOf["READER_CONTEXT"]) - OwnSize(type)
                   /\ new.bs.bmark = b.bptr - PTR
                   /\ Holds(new.bs.mem, b.bptr - PTR, b.bmark)
              ELSE new.bs.fptr = b.fptr
<1> DEFINE context == PerformAll(b, ContextCalls)
           all == PerformAll(context.bs, TypeCalls(type))
           refused == \/ type = "AST_NONE"
                      \/ type = "AST_SYMBOL" /\ prefix \in WidePrefixes
<1>1. new = IF ~context.ok
              THEN [bs |-> context.bs, err |-> "BISTACK_OUT_OF_MEMORY"]
            ELSE IF refused
              THEN [bs |-> context.bs, err |-> "READER_SYNTAX_ERROR"]
            ELSE [bs  |-> all.bs,
                  err |-> IF all.ok THEN "none" ELSE "BISTACK_OUT_OF_MEMORY"]
  BY DEF new_reader_context
<1>2. PICK m : m = After(Begun(b), MarkCall)
  OBVIOUS
<1>a. PICK r \in Nat : r = SizeOf["READER_CONTEXT"]
  BY SizesAreNat
<1>b. PICK h \in Nat : h = SizeOf["CELLHEADER"]
  BY SizesAreNat
<1>3. PICK c : c = After(m, AllocCall(r))
  OBVIOUS
<1>4. context = c
  BY <1>2, <1>3, <1>a, CallTwice DEF ContextCalls
<1>5. /\ CallsOf(m, b)
      /\ IF m.ok THEN /\ m.bs.bptr = b.bptr - PTR /\ m.bs.bmark = b.bptr - PTR
                      /\ Holds(m.bs.mem, b.bptr - PTR, b.bmark)
                 ELSE m.bs = b
  BY <1>2, MarkFirst
<1>6. /\ CallsOf(c, m.bs)
      /\ c.bs.bmark = m.bs.bmark /\ c.bs.mem = m.bs.mem
      /\ IF c.ok THEN m.ok /\ c.bs.bptr = m.bs.bptr - r
                 ELSE c.bs = m.bs
  <2>1. ArenaOf(m.bs) /\ m.ok \in BOOLEAN
    BY <1>5 DEF CallsOf
  <2> QED
    BY <1>3, <2>1, AllocNext
<1>7. ArenaOf(c.bs) /\ GrownFrom(c.bs, b) /\ c.ok \in BOOLEAN
  BY <1>5, <1>6, GrownTwice DEF CallsOf
<1> HIDE DEF context
<1>8. CASE ~c.ok \/ refused
  <2>1. /\ new.bs = c.bs
        /\ new.err \in {"BISTACK_OUT_OF_MEMORY", "READER_SYNTAX_ERROR"}
    BY <1>1, <1>4, <1>8
  <2> QED
    BY <1>7, <2>1 DEF GrownFrom
<1>9. CASE c.ok /\ ~refused
  <2>1. type \in Types
    BY <1>9
  <2>2. PICK n \in Nat : n = OwnSize(type)
    BY <2>1, SizesAreNat
  <2>3. PICK o : o = After(Begun(c.bs), AllocCall(n))
    OBVIOUS
  <2>4. PICK a : a = After(o, AllocFCall(h))
    OBVIOUS
  <2>5. all = a
    BY <1>b, <1>4, <2>2, <2>3, <2>4, CallTwice DEF TypeCalls
  <2>6. /\ CallsOf(o, c.bs)
        /\ o.bs.bmark = c.bs.bmark /\ o.bs.mem = c.bs.mem
        /\ IF o.ok THEN o.bs.bptr = c.bs.bptr - n
                   ELSE o.bs = c.bs
    <3>1. Begun(c.bs).bs = c.bs /\ Begun(c.bs).ok \in BOOLEAN
      BY DEF Begun
    <3> QED
      BY <1>7, <2>3, <3>1, AllocNext
  <2>7. /\ ArenaOf(a.bs) /\ a.ok \in BOOLEAN
        /\ a.bs.bmark = o.bs.bmark /\ a.bs.mem = o.bs.mem /\ a.bs.bptr = o.bs.bptr
        /\ IF a.ok THEN o.ok /\ a.bs.fptr = o.bs.fptr + h
                   ELSE a.bs = o.bs
    <3>1. ArenaOf(o.bs) /\ o.ok \in BOOLEAN
      BY <2>6 DEF CallsOf
    <3> QED
      BY <2>4, <3>1, CellNext
  <2>8. ArenaOf(o.bs) /\ GrownFrom(o.bs, b) /\ o.bs.fptr = b.fptr /\ o.bs.bptr <= b.bptr
    BY <1>7, <2>6, GrownTwice DEF CallsOf, ArenaOf, GrownFrom
  <2> HIDE DEF all
  <2>9. new.bs = a.bs /\ new.err = IF a.ok THEN "none" ELSE "BISTACK_OUT_OF_MEMORY"
    BY <1>1, <1>4, <1>9, <2>5
  <2>10. a.bs.bptr <= b.bptr /\ \A x, v : x \in Nat /\ b.bptr <= x /\ Holds(b.mem, x, v)
                        => Holds(a.bs.mem, x, v)
    BY <2>7, <2>8 DEF GrownFrom
  <2>11. CASE a.ok
    <3>1. /\ a.bs.fptr = b.fptr + h
          /\ a.bs.bptr = ((b.bptr - PTR) - r) - n
          /\ a.bs.bmark = b.bptr - PTR
          /\ Holds(a.bs.mem, b.bptr - PTR, b.bmark)
      BY <1>5, <1>6, <1>9, <2>6, <2>7, <2>8, <2>11
    <3> QED
      BY <1>a, <1>b, <2>1, <2>2, <2>7, <2>9, <2>10, <2>11, <3>1
  <2>12. CASE ~a.ok
    <3>1. a.bs.fptr = b.fptr
      BY <2>7, <2>8, <2>12
    <3> QED
      BY <2>7, <2>9, <2>10, <2>12, <3>1
  <2> QED
    BY <2>11, <2>12
<1> QED
  BY <1>8, <1>9

-----------------------------------------------------------------------------
(* What put_missing and pprint take: a mark and structs below it.          *)

Downward(calls) ==
  /\ \E S : calls \in Seq(S)
  /\ Len(calls) > 0 /\ calls[1] = MarkCall
  /\ \A i \in 2 .. Len(calls) : \E n \in Nat : calls[i] = AllocCall(n)

\* w is how far down the first k calls may go.
Weighs(w, calls) ==
  /\ \A k \in 0 .. Len(calls) : w[k] \in Nat
  /\ \A k \in 1 .. Len(calls) : w[k] = w[k - 1] + calls[k].size

LEMMA DownwardCalls ==
  ASSUME NEW b, ArenaOf(b), NEW calls, Downward(calls), NEW w, Weighs(w, calls),
         NEW done, done = PerformAll(b, calls)
  PROVE  /\ CallsOf(done, b)
         /\ b.bptr - w[Len(calls)] <= done.bs.bptr
         /\ done.ok => /\ done.bs.bmark = b.bptr - PTR /\ done.bs.bptr <= b.bptr - PTR
                       /\ Holds(done.bs.mem, b.bptr - PTR, b.bmark)
<1>1. PICK n \in Nat \ {0} : n = Len(calls)
  BY DEF Downward
<1>2. PICK f : Done(f, b, calls) /\ done = f[n]
  BY <1>1, CallByCall DEF Downward
<1> DEFINE Marked(d) == d.ok => /\ d.bs.bmark = b.bptr - PTR /\ d.bs.bptr <= b.bptr - PTR
                                /\ Holds(d.bs.mem, b.bptr - PTR, b.bmark)
           Good(k) == /\ CallsOf(f[k], b) /\ b.bptr - w[k] <= f[k].bs.bptr
                      /\ Marked(f[k])
<1>0. b.bptr \in Nat /\ PTR \in Nat
  BY SizesAreNat DEF ArenaOf
<1>3. /\ w[0] \in Nat /\ \A k \in 1 .. n : w[k] \in Nat /\ w[k - 1] \in Nat
      /\ \A k \in 1 .. n : w[k] = w[k - 1] + calls[k].size
  <2>1. \A k \in 1 .. n : k - 1 \in 0 .. n /\ k \in 0 .. n
    OBVIOUS
  <2> QED
    BY <1>1, <2>1 DEF Weighs
<1>4. Good(1)
  <2>1. f[1] = After(f[1 - 1], calls[1]) /\ f[0] = Begun(b)
    BY <1>1, <1>2 DEF Done
  <2>2. f[1] = After(Begun(b), MarkCall)
    BY <2>1 DEF Downward
  <2>3. /\ CallsOf(f[1], b)
        /\ IF f[1].ok THEN /\ f[1].bs.bptr = b.bptr - PTR /\ f[1].bs.bmark = b.bptr - PTR
                           /\ Holds(f[1].bs.mem, b.bptr - PTR, b.bmark)
                      ELSE f[1].bs = b
    BY <2>2, MarkFirst
  <2>4. w[1] >= PTR
    <3>1. w[1] = w[1 - 1] + calls[1].size
      BY <1>3
    <3>2. w[1] = w[0] + PTR
      BY <3>1 DEF Downward, MarkCall
    <3> QED
      BY <1>0, <1>3, <3>2
  <2>5. b.bptr - w[1] <= f[1].bs.bptr
    <3>1. f[1].bs.bptr = b.bptr - PTR \/ f[1].bs.bptr = b.bptr
      BY <2>3
    <3> QED
      BY <1>0, <1>3, <2>4, <3>1
  <2>6. Marked(f[1])
    BY <1>0, <2>3
  <2> QED
    BY <2>3, <2>5, <2>6
<1>5. ASSUME NEW k \in 2 .. n, Good(k - 1)
      PROVE  Good(k)
  <2>1. k \in 1 .. n
    OBVIOUS
  <2>2. PICK s \in Nat : calls[k] = AllocCall(s)
    BY <1>1 DEF Downward
  <2>3. f[k] = After(f[k - 1], AllocCall(s))
    BY <1>1, <1>2, <2>1, <2>2 DEF Done
  <2>4. PICK d : d = f[k - 1]
    OBVIOUS
  <2>5. CallsOf(d, b) /\ b.bptr - w[k - 1] <= d.bs.bptr /\ Marked(d)
    BY <1>5, <2>4
  <2>6. ArenaOf(d.bs) /\ d.ok \in BOOLEAN
    BY <2>5 DEF CallsOf
  <2>7. PICK a : a = f[k]
    OBVIOUS
  <2>8. /\ CallsOf(a, d.bs)
        /\ a.bs.bmark = d.bs.bmark /\ a.bs.mem = d.bs.mem
        /\ IF a.ok THEN d.ok /\ a.bs.bptr = d.bs.bptr - s
                   ELSE a.bs = d.bs
    BY <2>3, <2>4, <2>6, <2>7, AllocNext
  <2>9. CallsOf(a, b)
    BY <2>5, <2>8, GrownTwice DEF CallsOf
  <2>10. a.bs.bptr \in Nat /\ d.bs.bptr \in Nat /\ w[k] = w[k - 1] + s
    BY <1>3, <2>1, <2>2, <2>6, <2>8 DEF CallsOf, ArenaOf, AllocCall
  <2>11. a.bs.bptr <= d.bs.bptr /\ b.bptr - w[k] <= a.bs.bptr
    <3>1. a.bs.bptr = d.bs.bptr - s \/ a.bs.bptr = d.bs.bptr
      BY <2>8
    <3>2. w[k - 1] \in Nat
      BY <1>3, <2>1
    <3> QED
      BY <1>0, <2>5, <2>10, <3>1, <3>2
  <2>12. Marked(a)
    BY <1>0, <2>5, <2>8, <2>10, <2>11
  <2> QED
    BY <2>7, <2>9, <2>11, <2>12
<1> HIDE DEF Good
<1>6. Good(n)
  <2>1. SUFFICES ASSUME ~Good(n) PROVE FALSE
    OBVIOUS
  <2> DEFINE T == {k \in 1 .. n : ~Good(k)}
  <2>2. T \in SUBSET Nat /\ T # {}
    BY <2>1
  <2>3. PICK k \in T : \A x \in T : k <= x
    BY <2>2, LeastNumber
  <2>4. k # 1
    BY <1>4, <2>3
  <2>5. k \in 2 .. n /\ k - 1 \in 1 .. n
    BY <2>3, <2>4
  <2>6. Good(k - 1)
    BY <2>3, <2>5
  <2> QED
    BY <1>5, <2>3, <2>5, <2>6
<1> QED
  BY <1>1, <1>2, <1>6 DEF Good

\* The bytes of the frames, two structs for each.
LEMMA FramesWeigh ==
  ASSUME NEW n \in Nat
  PROVE  /\ Downward(FrameCalls(n))
         /\ \E w : /\ Weighs(w, FrameCalls(n))
                   /\ w[Len(FrameCalls(n))]
                        = ((PTR + SizeOf["PUT_MISSING_CONTEXT"]) + SizeOf["LIST"])
                            + n * (SizeOf["FRAME"] + SizeOf["LIST_NODE"])
<1>1. PICK p \in Nat : p = SizeOf["PUT_MISSING_CONTEXT"]
  BY SizesAreNat
<1>2. PICK l \in Nat : l = SizeOf["LIST"]
  BY SizesAreNat
<1>3. PICK r \in Nat : r = SizeOf["FRAME"]
  BY SizesAreNat
<1>4. PICK o \in Nat : o = SizeOf["LIST_NODE"]
  BY SizesAreNat
<1>5. PTR \in Nat
  BY SizesAreNat
<1> DEFINE S == {MarkCall} \cup {AllocCall(x) : x \in Nat}
           head == <<MarkCall, AllocCall(p), AllocCall(l)>>
           SizeAt(i) == IF i % 2 = 1 THEN r ELSE o
           tail == [i \in 1 .. 2 * n |-> AllocCall(SizeAt(i))]
           w == [k \in 0 .. 3 + 2 * n |->
                   IF k = 0 THEN 0 ELSE IF k = 1 THEN PTR ELSE IF k = 2 THEN PTR + p
                   ELSE ((PTR + p) + l) + ((k - 3) \div 2) * (r + o)
                          + (IF (k - 3) % 2 = 1 THEN r ELSE 0)]
<1>6. PICK calls : calls = FrameCalls(n)
  OBVIOUS
<1>7. calls = head \o tail
  <2>1. \A i : AllocCall(SizeAt(i)) = AllocCall(SizeOf[IF i % 2 = 1 THEN "FRAME" ELSE "LIST_NODE"])
    BY <1>3, <1>4
  <2>2. tail = [i \in 1 .. 2 * n |->
                  AllocCall(SizeOf[IF i % 2 = 1 THEN "FRAME" ELSE "LIST_NODE"])]
    BY <2>1
  <2> HIDE DEF tail
  <2> QED
    BY <1>1, <1>2, <1>6, <2>2 DEF FrameCalls
<1>8. head \in Seq(S) /\ tail \in Seq(S) /\ Len(head) = 3 /\ Len(tail) = 2 * n
  <2>1. \A i : AllocCall(SizeAt(i)) \in S
    OBVIOUS
  <2>2. tail \in [1 .. 2 * n -> S]
    BY <2>1
  <2>3. head \in Seq(S) /\ Len(head) = 3
    OBVIOUS
  <2>4. 2 * n \in Nat
    OBVIOUS
  <2> HIDE DEF S, tail, head
  <2>5. tail \in Seq(S) /\ Len(tail) = 2 * n
    BY <2>2, <2>4
  <2> QED
    BY <2>3, <2>5
<1>9. head[1] = MarkCall /\ head[2] = AllocCall(p) /\ head[3] = AllocCall(l)
  OBVIOUS
<1>10. \A i \in 1 .. 2 * n : tail[i] = AllocCall(SizeAt(i))
  OBVIOUS
<1> HIDE DEF head, tail, S
<1>11. PICK m \in Nat : m = 2 * n
  OBVIOUS
<1>12. calls \in Seq(S) /\ Len(calls) = 3 + m
       /\ \A i \in 1 .. 3 + m : calls[i] = IF i <= 3 THEN head[i] ELSE tail[i - 3]
  <2>1. /\ head \o tail \in Seq(S) /\ Len(head \o tail) = Len(head) + Len(tail)
        /\ \A i \in 1 .. Len(head) + Len(tail) :
             (head \o tail)[i] = IF i <= Len(head) THEN head[i] ELSE tail[i - Len(head)]
    BY <1>8, ConcatProperties
  <2>2. Len(head) = 3 /\ Len(tail) = m
    BY <1>8, <1>11
  <2> QED
    BY <1>7, <2>1, <2>2
<1>13. ASSUME NEW k \in 4 .. 3 + m
       PROVE  calls[k] = AllocCall(SizeAt(k - 3))
  <2>1. k \in 1 .. 3 + m /\ ~(k <= 3) /\ k - 3 \in 1 .. m
    OBVIOUS
  <2> QED
    BY <1>10, <1>11, <1>12, <2>1
<1>14. /\ calls[1] = MarkCall /\ calls[2] = AllocCall(p) /\ calls[3] = AllocCall(l)
  <2>1. 1 \in 1 .. 3 + m /\ 2 \in 1 .. 3 + m /\ 3 \in 1 .. 3 + m
    OBVIOUS
  <2> QED
    BY <1>9, <1>12, <2>1
<1>15. Downward(calls)
  <2>1. ASSUME NEW i \in 2 .. Len(calls) PROVE \E x \in Nat : calls[i] = AllocCall(x)
    <3>1. i = 2 \/ i = 3 \/ i \in 4 .. 3 + m
      BY <1>12
    <3>2. \A j : SizeAt(j) \in Nat
      OBVIOUS
    <3> QED
      BY <1>13, <1>14, <3>1, <3>2
  <2>2. Len(calls) > 0 /\ \E U : calls \in Seq(U)
    BY <1>12
  <2> QED
    BY <1>14, <2>1, <2>2 DEF Downward
<1>16. \A k \in 0 .. 3 + m : w[k] = IF k = 0 THEN 0 ELSE IF k = 1 THEN PTR ELSE IF k = 2 THEN PTR + p
                   ELSE ((PTR + p) + l) + ((k - 3) \div 2) * (r + o)
                          + (IF (k - 3) % 2 = 1 THEN r ELSE 0)
  BY <1>11
<1> HIDE DEF w
<1>17. PICK c \in Nat : c = r + o
  OBVIOUS
<1>18. ASSUME NEW i \in Nat
       PROVE  (i \div 2) * c \in Nat
  <2>1. PICK q \in Nat : q = i \div 2
    OBVIOUS
  <2> QED
    BY <2>1
<1>19. ASSUME NEW k \in 0 .. 3 + m PROVE w[k] \in Nat
  <2>1. CASE k <= 2
    BY <1>5, <1>16, <2>1
  <2>2. CASE ~(k <= 2)
    <3>1. PICK i \in Nat : i = k - 3
      BY <2>2
    <3>2. w[k] = ((PTR + p) + l) + (i \div 2) * c + (IF i % 2 = 1 THEN r ELSE 0)
      BY <1>16, <1>17, <2>2, <3>1
    <3> QED
      BY <1>5, <1>18, <3>2
  <2> QED
    BY <2>1, <2>2
<1>20. /\ w[1] = w[0] + calls[1].size /\ w[2] = w[1] + calls[2].size
       /\ w[3] = w[2] + calls[3].size
  <2>1. calls[1].size = PTR /\ calls[2].size = p /\ calls[3].size = l
    BY <1>14 DEF MarkCall, AllocCall
  <2>2. w[0] = 0 /\ w[1] = PTR /\ w[2] = PTR + p
    BY <1>16
  <2>3. w[3] = ((PTR + p) + l) + (0 \div 2) * c + (IF 0 % 2 = 1 THEN r ELSE 0)
    BY <1>16, <1>17
  <2>4. 0 \div 2 = 0 /\ 0 % 2 = 0 /\ 0 * c = 0
    OBVIOUS
  <2>5. w[3] = (PTR + p) + l
    BY <1>5, <2>3, <2>4
  <2> QED
    BY <1>5, <2>1, <2>2, <2>5
<1>21. ASSUME NEW k \in 4 .. 3 + m PROVE w[k] = w[k - 1] + calls[k].size
  <2>1. PICK i \in Nat \ {0} : i = k - 3
    OBVIOUS
  <2>2. PICK q \in Nat : q = (i - 1) \div 2
    BY <2>1
  <2>3. calls[k].size = IF i % 2 = 1 THEN r ELSE o
    <3>1. calls[k] = AllocCall(SizeAt(i))
      BY <1>13, <2>1
    <3>2. \A x : AllocCall(x).size = x
      BY DEF AllocCall
    <3> QED
      BY <3>1, <3>2
  <2>4. /\ w[k] = ((PTR + p) + l) + (i \div 2) * c + (IF i % 2 = 1 THEN r ELSE 0)
        /\ w[k - 1] = ((PTR + p) + l) + q * c + (IF (i - 1) % 2 = 1 THEN r ELSE 0)
    <3>1. /\ k \in 0 .. 3 + m /\ k # 0 /\ k # 1 /\ k # 2 /\ k - 3 = i
          /\ k - 1 \in 0 .. 3 + m /\ k - 1 # 0 /\ k - 1 # 1 /\ k - 1 # 2 /\ (k - 1) - 3 = i - 1
      BY <2>1
    <3>2. w[k] = ((PTR + p) + l) + ((k - 3) \div 2) * (r + o)
                   + (IF (k - 3) % 2 = 1 THEN r ELSE 0)
      BY <1>16, <3>1
    <3>3. w[k - 1] = ((PTR + p) + l) + (((k - 1) - 3) \div 2) * (r + o)
                   + (IF ((k - 1) - 3) % 2 = 1 THEN r ELSE 0)
      BY <1>16, <3>1
    <3> QED
      BY <1>17, <2>2, <3>1, <3>2, <3>3
  <2>5. (q + 1) * c = q * c + c /\ q * c \in Nat
    OBVIOUS
  <2>6. CASE i % 2 = 1
    <3>1. i \div 2 = q /\ (i - 1) % 2 = 0
      BY <2>1, <2>2, <2>6
    <3> QED
      BY <1>5, <2>3, <2>4, <2>5, <2>6, <3>1
  <2>7. CASE i % 2 = 0
    <3>1. i \div 2 = q + 1 /\ (i - 1) % 2 = 1
      BY <2>1, <2>2, <2>7
    <3>2. w[k] = ((PTR + p) + l) + (q * c + c) /\ w[k - 1] = ((PTR + p) + l) + q * c + r
      BY <1>5, <2>4, <2>5, <2>7, <3>1
    <3>3. calls[k].size = o
      BY <2>3, <2>7
    <3> QED
      BY <1>5, <1>17, <2>5, <3>2, <3>3
  <2>8. i % 2 = 0 \/ i % 2 = 1
    BY <2>1
  <2> QED
    BY <2>6, <2>7, <2>8
<1>22. Weighs(w, calls)
  <2>1. ASSUME NEW k \in 1 .. 3 + m PROVE w[k] = w[k - 1] + calls[k].size
    <3>1. k = 1 \/ k = 2 \/ k = 3 \/ k \in 4 .. 3 + m
      OBVIOUS
    <3>2. 1 - 1 = 0 /\ 2 - 1 = 1 /\ 3 - 1 = 2
      OBVIOUS
    <3> QED
      BY <1>20, <1>21, <3>1, <3>2
  <2> QED
    BY <1>12, <1>19, <2>1 DEF Weighs
<1>23. w[Len(calls)] = ((PTR + p) + l) + n * c
  <2>1. 3 + m \in 0 .. 3 + m /\ 3 + m # 0 /\ 3 + m # 1 /\ 3 + m # 2 /\ (3 + m) - 3 = m
    OBVIOUS
  <2>2. w[3 + m] = ((PTR + p) + l) + (((3 + m) - 3) \div 2) * (r + o)
                   + (IF ((3 + m) - 3) % 2 = 1 THEN r ELSE 0)
    BY <1>16, <2>1
  <2>3. m \div 2 = n /\ m % 2 = 0
    BY <1>11
  <2>4. n * c \in Nat
    OBVIOUS
  <2> QED
    BY <1>5, <1>12, <1>17, <2>1, <2>2, <2>3, <2>4
<1> QED
  BY <1>1, <1>2, <1>3, <1>4, <1>6, <1>15, <1>17, <1>22, <1>23

\* Those of a printer.
LEMMA PrinterWeighs ==
  /\ Downward(PprintCalls)
  /\ \E w : Weighs(w, PprintCalls) /\ w[Len(PprintCalls)] = PrinterBytes
<1>1. PICK p \in Nat : p = SizeOf["PPRINT_CONTEXT"]
  BY SizesAreNat
<1>2. PICK l \in Nat : l = SizeOf["LIST"]
  BY SizesAreNat
<1>3. PICK r \in Nat : r = SizeOf["PPRINT_FRAME"]
  BY SizesAreNat
<1>4. PICK o \in Nat : o = SizeOf["LIST_NODE"]
  BY SizesAreNat
<1>5. PTR \in Nat
  BY SizesAreNat
<1>6. PICK calls : calls = PprintCalls
  OBVIOUS
<1>7. /\ calls \in Seq({MarkCall} \cup {AllocCall(x) : x \in Nat}) /\ Len(calls) = 5
      /\ calls[1] = MarkCall /\ calls[2] = AllocCall(p) /\ calls[3] = AllocCall(l)
      /\ calls[4] = AllocCall(r) /\ calls[5] = AllocCall(o)
  BY <1>1, <1>2, <1>3, <1>4, <1>6 DEF PprintCalls
<1>8. Downward(calls)
  <2>1. \A i \in 2 .. 5 : i = 2 \/ i = 3 \/ i = 4 \/ i = 5
    OBVIOUS
  <2>2. \A i \in 2 .. 5 : \E n \in Nat : calls[i] = AllocCall(n)
    BY <1>7, <2>1
  <2>3. Len(calls) > 0 /\ \E S : calls \in Seq(S)
    BY <1>7
  <2> QED
    BY <1>7, <2>2, <2>3 DEF Downward
<1> DEFINE w == [k \in 0 .. 5 |-> IF k = 0 THEN 0 ELSE IF k = 1 THEN PTR ELSE IF k = 2 THEN PTR + p
                   ELSE IF k = 3 THEN PTR + p + l ELSE IF k = 4 THEN PTR + p + l + r
                   ELSE PTR + p + l + r + o]
<1>9. /\ w[0] = 0 /\ w[1] = PTR /\ w[2] = PTR + p /\ w[3] = PTR + p + l
      /\ w[4] = PTR + p + l + r /\ w[5] = PTR + p + l + r + o
  OBVIOUS
<1> HIDE DEF w
<1>10. /\ calls[1].size = PTR /\ calls[2].size = p /\ calls[3].size = l
       /\ calls[4].size = r /\ calls[5].size = o
  BY <1>7 DEF MarkCall, AllocCall
<1>11. ASSUME NEW k \in 1 .. 5 PROVE w[k] = w[k - 1] + calls[k].size
  <2>1. k = 1 \/ k = 2 \/ k = 3 \/ k = 4 \/ k = 5
    OBVIOUS
  <2>2. 1 - 1 = 0 /\ 2 - 1 = 1 /\ 3 - 1 = 2 /\ 4 - 1 = 3 /\ 5 - 1 = 4
    OBVIOUS
  <2> QED
    BY <1>5, <1>9, <1>10, <2>1, <2>2
<1>12. ASSUME NEW k \in 0 .. 5 PROVE w[k] \in Nat
  <2>1. k = 0 \/ k = 1 \/ k = 2 \/ k = 3 \/ k = 4 \/ k = 5
    OBVIOUS
  <2> QED
    BY <1>5, <1>9, <2>1
<1>13. Weighs(w, calls)
  BY <1>7, <1>11, <1>12 DEF Weighs
<1>14. w[Len(calls)] = PrinterBytes
  BY <1>1, <1>2, <1>3, <1>4, <1>5, <1>7, <1>9 DEF PrinterBytes
<1> QED
  BY <1>6, <1>8, <1>13, <1>14

-----------------------------------------------------------------------------
(* The contexts on the backward stack.                                     *)

OpenContext == [type : Types, prefix : AstPrefixes, mark : 0 .. Size, cell : Nat,
                is_escaped : BOOLEAN]

\* Each context but the innermost is a list.
Contexts(o) ==
  /\ o \in Seq(OpenContext) /\ o # <<>>
  /\ \A i \in 1 .. Len(o) - 1 : o[i].type = "AST_LIST"

\* Each context lies under the one before, on a mark that leads to the one
\* before, and the stack goes down no less far.
Chain(b, o) ==
  /\ \A i \in 1 .. Len(o) : b.bptr <= Below(o[i])
  /\ \A i, j \in 1 .. Len(o) : i < j => o[j].mark <= Below(o[i])
  /\ \A i \in 1 .. Len(o) - 1 : o[i + 1].mark = Below(o[i])
  /\ \A i \in 1 .. Len(o) - 1 : Holds(b.mem, o[i + 1].mark - PTR, o[i].mark - PTR)

\* The innermost context is on top of the stack, ...
OnTop(b, o) == b.bptr = Below(Last(o)) /\ b.bmark = Last(o).mark - PTR

\* ... or a mark that leads to its own.
Topped(b, o, mark) ==
  /\ mark = Below(Last(o)) /\ b.bmark = mark - PTR /\ b.bptr <= mark - PTR
  /\ Holds(b.mem, mark - PTR, Last(o).mark - PTR)

LEMMA BelowIsInt ==
  ASSUME NEW c \in OpenContext
  PROVE  /\ c.mark \in Nat /\ c.mark <= Size /\ Below(c) \in Int /\ Below(c) <= c.mark - PTR
         /\ Below(c) < c.mark
         /\ Below(c) = ((c.mark - PTR) - SizeOf["READER_CONTEXT"]) - OwnSize(c.type)
<1>1. c.mark \in Nat /\ c.mark <= Size /\ c.type \in Types
  BY SizeIsNat DEF OpenContext
<1>2. PICK n \in Nat : n = OwnSize(c.type)
  BY <1>1, SizesAreNat
<1>3. PICK r \in Nat : r = SizeOf["READER_CONTEXT"]
  BY SizesAreNat
<1>4. Below(c) = c.mark - PTR - r - n
  BY <1>2, <1>3 DEF Below
<1>5. PTR \in Nat \ {0}
  BY SizesAreNat
<1> QED
  BY <1>1, <1>2, <1>3, <1>4, <1>5

LEMMA ContextsLast ==
  ASSUME NEW o, Contexts(o)
  PROVE  /\ Len(o) \in Nat \ {0} /\ Last(o) = o[Len(o)] /\ Last(o) \in OpenContext
         /\ \A i \in 1 .. Len(o) : o[i] \in OpenContext
BY DEF Contexts, Last

\* Where a context would be made.
LEMMA MadeAt ==
  ASSUME NEW b, ArenaOf(b), NEW type \in Types, NEW prefix \in AstPrefixes, NEW n \in Nat
  PROVE  /\ Context(b, type, prefix, n) \in OpenContext
         /\ Context(b, type, prefix, n).mark = b.bptr
         /\ Context(b, type, prefix, n).type = type
         /\ Context(b, type, prefix, n).cell = n
<1>1. StackTop(b) = b.bptr
  BY DEF ArenaOf, StackTop, Forward, bistack_dir, BS_FORWARD, BS_BACKWARD
<1>2. b.bptr \in 0 .. Size
  BY SizeIsNat DEF ArenaOf
<1>3. Context(b, type, prefix, n) =
        [type |-> type, prefix |-> prefix, mark |-> b.bptr, cell |-> n, is_escaped |-> FALSE]
  BY <1>1 DEF Context
<1> QED
  BY <1>2, <1>3 DEF OpenContext

\* reader_new and reader_init begin a chain, ...
LEMMA RootChain ==
  ASSUME NEW b, ArenaOf(b), NEW new, new = new_reader_context(b, "AST_LIST", "AST_NOPREFIX"),
         new.err = "none", NEW o, o = <<Context(b, "AST_LIST", "AST_NOPREFIX", 1)>>
  PROVE  Contexts(o) /\ Chain(new.bs, o) /\ OnTop(new.bs, o)
<1>1. PICK c : c = Context(b, "AST_LIST", "AST_NOPREFIX", 1)
  OBVIOUS
<1>2. c \in OpenContext /\ c.mark = b.bptr /\ c.type = "AST_LIST"
  <2>1. "AST_LIST" \in Types /\ "AST_NOPREFIX" \in AstPrefixes
    BY DEF Types, AstPrefixes
  <2> QED
    BY <1>1, <2>1, MadeAt
<1>3. o \in Seq(OpenContext) /\ o # <<>> /\ Len(o) = 1 /\ o[1] = c
  BY <1>1, <1>2
<1>4. /\ new.bs.bptr = ((b.bptr - PTR) - SizeOf["READER_CONTEXT"]) - OwnSize("AST_LIST")
      /\ new.bs.bmark = b.bptr - PTR
  BY NewContext DEF Types
<1>5. Last(o) = c
  BY <1>3 DEF Last
<1>6. new.bs.bptr = Below(c) /\ new.bs.bmark = c.mark - PTR /\ Below(c) \in Int
  BY <1>2, <1>4, BelowIsInt
<1>7. Contexts(o)
  BY <1>3 DEF Contexts
<1>8. Chain(new.bs, o)
  <2>1. \A i \in 1 .. Len(o) : new.bs.bptr <= Below(o[i])
    BY <1>3, <1>6
  <2>2. \A i, j \in 1 .. Len(o) : ~(i < j)
    BY <1>3
  <2>3. \A i \in 1 .. Len(o) - 1 : FALSE
    BY <1>3
  <2> QED
    BY <2>1, <2>2, <2>3 DEF Chain
<1> QED
  BY <1>5, <1>6, <1>7, <1>8 DEF OnTop

\* ... a cell adds to it, ...
LEMMA PushChain ==
  ASSUME NEW b, ArenaOf(b), NEW o, Contexts(o), Chain(b, o), OnTop(b, o),
         Last(o).type = "AST_LIST", NEW type \in Types, NEW prefix \in AstPrefixes,
         NEW n \in Nat, NEW new, new = new_reader_context(b, type, prefix),
         new.err = "none", NEW p, p = Append(o, Context(b, type, prefix, n))
  PROVE  Contexts(p) /\ Chain(new.bs, p) /\ OnTop(new.bs, p)
<1>1. PICK c : c = Context(b, type, prefix, n)
  OBVIOUS
<1>2. c \in OpenContext /\ c.mark = b.bptr /\ c.type = type
  BY <1>1, MadeAt
<1>3. PICK l \in Nat \ {0} : l = Len(o)
  BY ContextsLast
<1>4. o \in Seq(OpenContext) /\ (\A i \in 1 .. l : o[i] \in OpenContext) /\ Last(o) = o[l]
  BY <1>3, ContextsLast DEF Contexts
<1>5. /\ p \in Seq(OpenContext) /\ Len(p) = l + 1 /\ p[l + 1] = c
      /\ \A i \in 1 .. l : p[i] = o[i]
  BY <1>1, <1>2, <1>3, <1>4, AppendProperties
<1>6. /\ ArenaOf(new.bs) /\ new.bs.bptr <= b.bptr
      /\ \A x, v : x \in Nat /\ b.bptr <= x /\ Holds(b.mem, x, v) => Holds(new.bs.mem, x, v)
      /\ new.bs.bptr = ((b.bptr - PTR) - SizeOf["READER_CONTEXT"]) - OwnSize(type)
      /\ new.bs.bmark = b.bptr - PTR
      /\ Holds(new.bs.mem, b.bptr - PTR, b.bmark)
  BY NewContext
<1>7. new.bs.bptr = Below(c) /\ new.bs.bmark = c.mark - PTR /\ Below(c) \in Int
  BY <1>2, <1>6, BelowIsInt
<1>8. b.bptr \in Nat /\ new.bs.bptr \in Nat /\ PTR \in Nat
  BY <1>6, SizesAreNat DEF ArenaOf
<1>9. \A i \in 1 .. l : b.bptr <= Below(o[i]) /\ Below(o[i]) \in Int
  BY <1>3, <1>4, BelowIsInt DEF Chain
<1>10. Last(p) = c
  BY <1>3, <1>5 DEF Last
<1>11. Contexts(p)
  <2>1. ASSUME NEW i \in 1 .. Len(p) - 1 PROVE p[i].type = "AST_LIST"
    <3>1. i \in 1 .. l /\ (i = l \/ i \in 1 .. l - 1)
      BY <1>3, <1>5
    <3>2. p[i] = o[i]
      BY <1>5, <3>1
    <3> QED
      BY <1>3, <1>4, <3>1, <3>2 DEF Contexts
  <2>2. p # <<>>
    BY <1>3, <1>5
  <2> QED
    BY <1>5, <2>1, <2>2 DEF Contexts
<1>12. ASSUME NEW i \in 1 .. Len(p) PROVE new.bs.bptr <= Below(p[i])
  <2>1. i = l + 1 \/ i \in 1 .. l
    BY <1>3, <1>5
  <2>2. CASE i = l + 1
    BY <1>5, <1>7, <2>2
  <2>3. CASE i \in 1 .. l
    <3>1. p[i] = o[i]
      BY <1>5, <2>3
    <3>2. b.bptr <= Below(p[i]) /\ Below(p[i]) \in Int
      BY <1>9, <2>3, <3>1
    <3> QED
      BY <1>6, <1>8, <3>2
  <2> QED
    BY <2>1, <2>2, <2>3
<1>13. ASSUME NEW i \in 1 .. Len(p), NEW j \in 1 .. Len(p), i < j
       PROVE  p[j].mark <= Below(p[i])
  <2>1. i \in 1 .. l /\ (j = l + 1 \/ j \in 1 .. l)
    BY <1>3, <1>5, <1>13
  <2>2. p[i] = o[i]
    BY <1>5, <2>1
  <2>3. CASE j = l + 1
    BY <1>2, <1>5, <1>9, <2>1, <2>2, <2>3
  <2>4. CASE j \in 1 .. l
    <3>1. p[j] = o[j]
      BY <1>5, <2>4
    <3>2. o[j].mark <= Below(o[i])
      BY <1>3, <1>13, <2>1, <2>4 DEF Chain
    <3> QED
      BY <2>2, <3>1, <3>2
  <2> QED
    BY <2>1, <2>3, <2>4
<1>14. ASSUME NEW i \in 1 .. Len(p) - 1
       PROVE  /\ p[i + 1].mark = Below(p[i])
              /\ Holds(new.bs.mem, p[i + 1].mark - PTR, p[i].mark - PTR)
  <2>1. i \in 1 .. l /\ (i = l \/ i \in 1 .. l - 1) /\ p[i] = o[i]
    BY <1>3, <1>5
  <2>2. CASE i = l
    <3>1. p[i + 1] = c /\ p[i] = Last(o)
      BY <1>4, <1>5, <2>1, <2>2
    <3>2. b.bptr = Below(Last(o)) /\ b.bmark = Last(o).mark - PTR
      BY DEF OnTop
    <3> QED
      BY <1>2, <1>6, <3>1, <3>2
  <2>3. CASE i \in 1 .. l - 1
    <3>1. i + 1 \in 1 .. l
      BY <1>3, <2>3
    <3>2. p[i + 1] = o[i + 1]
      BY <1>5, <3>1
    <3>3. o[i + 1].mark = Below(o[i]) /\ Holds(b.mem, o[i + 1].mark - PTR, o[i].mark - PTR)
      BY <1>3, <2>3 DEF Chain
    <3>4. /\ b.bptr <= Below(o[i + 1]) /\ Below(o[i + 1]) <= o[i + 1].mark - PTR
          /\ Below(o[i + 1]) \in Int /\ o[i + 1].mark \in Nat
      BY <1>4, <1>9, <3>1, BelowIsInt
    <3>5. o[i + 1].mark - PTR \in Nat /\ b.bptr <= o[i + 1].mark - PTR
      BY <1>8, <3>4
    <3>6. Holds(new.bs.mem, o[i + 1].mark - PTR, o[i].mark - PTR)
      BY <1>6, <3>3, <3>5
    <3> QED
      BY <2>1, <3>2, <3>3, <3>6
  <2> QED
    BY <2>1, <2>2, <2>3
<1>15. Chain(new.bs, p)
  BY <1>12, <1>13, <1>14 DEF Chain
<1> QED
  BY <1>7, <1>10, <1>11, <1>15 DEF OnTop

\* What the chain says of a shorter or equal one, once the memory below it is
\* given back.
LEMMA KeptChain ==
  ASSUME NEW b, ArenaOf(b), NEW o, Contexts(o), Chain(b, o), NEW m \in 1 .. Len(o),
         NEW p, p \in Seq(OpenContext), Len(p) = m, \A i \in 1 .. m : p[i] = o[i],
         NEW r, ArenaOf(r), r.bptr = Below(o[m]),
         \A x, w : x \in Nat /\ Below(o[m]) <= x /\ Holds(b.mem, x, w) => Holds(r.mem, x, w)
  PROVE  Contexts(p) /\ Chain(r, p)
<1>1. PICK l \in Nat \ {0} : l = Len(o)
  BY ContextsLast
<1>2. m \in 1 .. l /\ \A i \in 1 .. l : o[i] \in OpenContext
  BY <1>1, ContextsLast
<1>3. /\ \A i \in 1 .. l : Below(o[i]) \in Int /\ o[i].mark \in Nat
      /\ \A i \in 1 .. l : Below(o[i]) <= o[i].mark - PTR /\ Below(o[i]) < o[i].mark
  BY <1>2, BelowIsInt
<1>4. PTR \in Nat /\ r.bptr \in Nat
  BY SizesAreNat DEF ArenaOf
<1>5. ASSUME NEW i \in 1 .. m PROVE r.bptr <= Below(o[i])
  <2>1. CASE i = m
    BY <1>3, <1>4, <2>1, <1>2
  <2>2. CASE i < m
    <3>1. o[m].mark <= Below(o[i])
      BY <1>1, <1>2, <2>2 DEF Chain
    <3> QED
      BY <1>2, <1>3, <3>1
  <2> QED
    BY <1>2, <2>1, <2>2
<1>6. ASSUME NEW i \in 1 .. m - 1
      PROVE  /\ p[i + 1].mark = Below(p[i])
             /\ Holds(r.mem, p[i + 1].mark - PTR, p[i].mark - PTR)
  <2>1. i \in 1 .. m /\ i + 1 \in 1 .. m /\ i \in 1 .. l - 1 /\ i + 1 \in 1 .. l
    BY <1>2
  <2>2. p[i] = o[i] /\ p[i + 1] = o[i + 1]
    BY <2>1
  <2>3. o[i + 1].mark = Below(o[i]) /\ Holds(b.mem, o[i + 1].mark - PTR, o[i].mark - PTR)
    BY <1>1, <2>1 DEF Chain
  <2>4. r.bptr <= Below(o[i + 1])
    BY <1>5, <2>1
  <2>5. o[i + 1].mark - PTR \in Nat /\ Below(o[m]) <= o[i + 1].mark - PTR
    <3>1. Below(o[i + 1]) \in Int /\ o[i + 1].mark \in Nat /\ Below(o[i + 1]) <= o[i + 1].mark - PTR
      BY <1>3, <2>1
    <3>2. r.bptr <= o[i + 1].mark - PTR
      BY <1>4, <2>4, <3>1
    <3> QED
      BY <1>4, <3>1, <3>2
  <2>6. Holds(r.mem, o[i + 1].mark - PTR, o[i].mark - PTR)
    BY <2>3, <2>5
  <2> QED
    BY <2>2, <2>3, <2>6
<1>7. ASSUME NEW i \in 1 .. m, NEW j \in 1 .. m, i < j PROVE p[j].mark <= Below(p[i])
  <2>1. i \in 1 .. l /\ j \in 1 .. l /\ p[i] = o[i] /\ p[j] = o[j]
    BY <1>2
  <2> QED
    BY <1>1, <1>7, <2>1 DEF Chain
<1>8. ASSUME NEW i \in 1 .. m PROVE r.bptr <= Below(p[i])
  BY <1>5
<1>9. Chain(r, p)
  BY <1>6, <1>7, <1>8 DEF Chain
<1>10. Contexts(p)
  <2>1. ASSUME NEW i \in 1 .. m - 1 PROVE p[i].type = "AST_LIST"
    <3>1. i \in 1 .. m /\ i \in 1 .. l - 1
      BY <1>2
    <3> QED
      BY <1>1, <3>1 DEF Contexts
  <2>2. p # <<>>
    BY <1>2
  <2> QED
    BY <2>1, <2>2 DEF Contexts
<1> QED
  BY <1>9, <1>10

\* ... and is taken off when it is complete: the mark is its own, and the list
\* it is in is on top again.
LEMMA PopChain ==
  ASSUME NEW b, ArenaOf(b), NEW o, Contexts(o), Chain(b, o), OnTop(b, o), Len(o) > 1,
         NEW r, r = bistack_rewind(b)
  PROVE  /\ CanRewind(b) /\ StackTop(r) = Last(o).mark
         /\ ArenaOf(r) /\ r.fptr = b.fptr
         /\ Contexts(Front(o)) /\ Last(Front(o)).type = "AST_LIST"
         /\ Len(Front(o)) = Len(o) - 1 /\ \A i \in 1 .. Len(o) - 1 : Front(o)[i] = o[i]
         /\ Last(Front(o)) = o[Len(o) - 1]
         /\ Chain(r, Front(o)) /\ OnTop(r, Front(o))
<1>1. PICK m \in Nat \ {0} : Len(o) = m + 1
  <2>1. Len(o) - 1 \in Nat \ {0} /\ Len(o) = (Len(o) - 1) + 1
    BY ContextsLast
  <2> QED
    BY <2>1
<1>2. PICK c : c = o[m + 1]
  OBVIOUS
<1>3. PICK d : d = o[m]
  OBVIOUS
<1>4. c \in OpenContext /\ d \in OpenContext /\ Last(o) = c
  <2>1. m \in 1 .. Len(o) /\ m + 1 \in 1 .. Len(o)
    BY <1>1
  <2> QED
    BY <1>1, <1>2, <1>3, <2>1, ContextsLast
<1>5. c.mark = Below(d) /\ Holds(b.mem, c.mark - PTR, d.mark - PTR) /\ d.type = "AST_LIST"
  <2>1. m \in 1 .. Len(o) - 1
    BY <1>1
  <2> QED
    BY <1>2, <1>3, <2>1 DEF Chain, Contexts
<1>6. /\ c.mark \in Nat /\ c.mark <= Size /\ Below(c) \in Int /\ Below(c) <= c.mark - PTR
      /\ d.mark \in Nat /\ d.mark <= Size /\ Below(d) <= d.mark - PTR
  BY <1>4, BelowIsInt
<1>7. b.bptr = Below(c) /\ b.bmark = c.mark - PTR
  BY <1>4 DEF OnTop
<1>8. PTR \in Nat \ {0} /\ b.bptr \in Nat /\ 0 < b.bptr
  BY SizesAreNat DEF ArenaOf
<1>9. PICK v \in Nat : v = d.mark - PTR
  BY <1>5, <1>6, <1>8
<1>10. v # 0 /\ v <= Size
  BY <1>5, <1>6, <1>7, <1>8, <1>9, SizeIsNat
<1>11. Holds(b.mem, b.bmark, v) /\ b.bptr <= b.bmark /\ b.bmark + PTR <= Size
       /\ b.bmark + PTR = c.mark
  BY <1>5, <1>6, <1>7, <1>8, <1>9
<1>12. /\ CanRewind(b) /\ ArenaOf(r) /\ r.fptr = b.fptr
       /\ r.bptr = b.bmark + PTR /\ StackTop(r) = b.bmark + PTR /\ r.bmark = v
       /\ \A x, w : x \in Nat /\ b.bmark + PTR <= x /\ Holds(b.mem, x, w) => Holds(r.mem, x, w)
  BY <1>10, <1>11, BackwardRewind
<1>13. PICK f : f = Front(o)
  OBVIOUS
<1>14. f \in Seq(OpenContext) /\ Len(f) = m /\ \A i \in 1 .. m : f[i] = o[i]
  <2>1. f = SubSeq(o, 1, m)
    BY <1>1, <1>13 DEF Front
  <2>2. 1 \in Int /\ m \in Int /\ \A i \in 1 .. m : o[i] \in OpenContext
    BY <1>1, ContextsLast
  <2> QED
    BY <2>1, <2>2, SubSeqProperties
<1>15. Last(f) = d
  BY <1>3, <1>14 DEF Last
<1>16. OnTop(r, f)
  BY <1>5, <1>9, <1>11, <1>12, <1>15 DEF OnTop
<1>17. Contexts(f) /\ Chain(r, f)
  <2>1. m \in 1 .. Len(o)
    BY <1>1
  <2>2. r.bptr = Below(o[m])
    BY <1>3, <1>5, <1>11, <1>12
  <2>3. \A x, w : x \in Nat /\ Below(o[m]) <= x /\ Holds(b.mem, x, w) => Holds(r.mem, x, w)
    BY <1>3, <1>5, <1>11, <1>12
  <2> QED
    BY <1>12, <1>14, <2>1, <2>2, <2>3, KeptChain
<1>18. \A i \in 1 .. Len(o) - 1 : Front(o)[i] = o[i]
  BY <1>1, <1>13, <1>14
<1>19. Len(o) - 1 = m
  BY <1>1
<1> QED
  BY <1>3, <1>4, <1>5, <1>11, <1>12, <1>13, <1>14, <1>15, <1>16, <1>17, <1>18, <1>19

\* The frames of put_missing, and those of a printer, lie on a mark of their own, ...
LEMMA TopChain ==
  ASSUME NEW b, ArenaOf(b), NEW o, Contexts(o), Chain(b, o), OnTop(b, o),
         NEW a, ArenaOf(a), GrownFrom(a, b),
         a.bmark = b.bptr - PTR, a.bptr <= b.bptr - PTR, Holds(a.mem, b.bptr - PTR, b.bmark)
  PROVE  Chain(a, o) /\ Topped(a, o, b.bptr)
<1>1. PICK l \in Nat \ {0} : l = Len(o)
  BY ContextsLast
<1>2. \A i \in 1 .. l : /\ Below(o[i]) \in Int /\ o[i].mark \in Nat
                        /\ Below(o[i]) <= o[i].mark - PTR
  BY <1>1, ContextsLast, BelowIsInt
<1>3. a.bptr \in Nat /\ b.bptr \in Nat /\ PTR \in Nat
  BY SizesAreNat DEF ArenaOf
<1>4. ASSUME NEW i \in 1 .. l PROVE a.bptr <= Below(o[i]) /\ b.bptr <= Below(o[i])
  <2>1. b.bptr <= Below(o[i]) /\ a.bptr <= b.bptr
    BY <1>1 DEF Chain, GrownFrom
  <2> QED
    BY <1>2, <1>3, <2>1
<1>5. ASSUME NEW i \in 1 .. l - 1 PROVE Holds(a.mem, o[i + 1].mark - PTR, o[i].mark - PTR)
  <2>1. i + 1 \in 1 .. l
    BY <1>1
  <2>2. Holds(b.mem, o[i + 1].mark - PTR, o[i].mark - PTR)
    BY <1>1 DEF Chain
  <2>3. o[i + 1].mark - PTR \in Nat /\ b.bptr <= o[i + 1].mark - PTR
    <3>1. /\ Below(o[i + 1]) \in Int /\ o[i + 1].mark \in Nat
          /\ Below(o[i + 1]) <= o[i + 1].mark - PTR /\ b.bptr <= Below(o[i + 1])
      BY <1>2, <1>4, <2>1
    <3> QED
      BY <1>3, <3>1
  <2> QED
    BY <2>2, <2>3 DEF GrownFrom
<1>6. Chain(a, o)
  BY <1>1, <1>4, <1>5 DEF Chain
<1>7. Topped(a, o, b.bptr)
  BY DEF Topped, OnTop
<1> QED
  BY <1>6, <1>7

\* ... and when they are given back the innermost context is on top again.
LEMMA UntopChain ==
  ASSUME NEW b, ArenaOf(b), NEW o, Contexts(o), NEW mark, Chain(b, o), Topped(b, o, mark),
         NEW r, r = bistack_rewind(b)
  PROVE  /\ CanRewind(b) /\ StackTop(r) = mark
         /\ ArenaOf(r) /\ r.fptr = b.fptr
         /\ Chain(r, o) /\ OnTop(r, o)
<1>1. PICK l \in Nat \ {0} : l = Len(o)
  BY ContextsLast
<1>2. PICK c : c = Last(o)
  OBVIOUS
<1>3. c \in OpenContext /\ c = o[l]
  BY <1>1, <1>2, ContextsLast
<1>4. c.mark \in Nat /\ c.mark <= Size /\ Below(c) \in Int /\ Below(c) <= c.mark - PTR
  BY <1>3, BelowIsInt
<1>5. /\ mark = Below(c) /\ b.bmark = mark - PTR /\ b.bptr <= mark - PTR
      /\ Holds(b.mem, mark - PTR, c.mark - PTR)
  BY <1>2 DEF Topped
<1>6. PTR \in Nat \ {0} /\ b.bptr \in Nat /\ 0 < b.bptr /\ b.bmark \in Nat
  BY SizesAreNat DEF ArenaOf
<1>7. PICK v \in Nat : v = c.mark - PTR
  BY <1>4, <1>5, <1>6
<1>8. v # 0 /\ v <= Size
  BY <1>4, <1>5, <1>6, <1>7, SizeIsNat
<1>9. /\ Holds(b.mem, b.bmark, v) /\ b.bptr <= b.bmark /\ b.bmark + PTR <= Size
      /\ b.bmark + PTR = mark
  BY <1>4, <1>5, <1>6, <1>7, SizeIsNat
<1>10. /\ CanRewind(b) /\ ArenaOf(r) /\ r.fptr = b.fptr
       /\ r.bptr = b.bmark + PTR /\ StackTop(r) = b.bmark + PTR /\ r.bmark = v
       /\ \A x, w : x \in Nat /\ b.bmark + PTR <= x /\ Holds(b.mem, x, w) => Holds(r.mem, x, w)
  BY <1>8, <1>9, BackwardRewind
<1>11. OnTop(r, o)
  BY <1>2, <1>5, <1>7, <1>9, <1>10 DEF OnTop
<1>12. Chain(r, o)
  <2>1. l \in 1 .. Len(o) /\ o \in Seq(OpenContext) /\ Len(o) = l
    BY <1>1 DEF Contexts
  <2>2. r.bptr = Below(o[l])
    BY <1>3, <1>5, <1>9, <1>10
  <2>3. \A x, w : x \in Nat /\ Below(o[l]) <= x /\ Holds(b.mem, x, w) => Holds(r.mem, x, w)
    BY <1>3, <1>5, <1>9, <1>10
  <2>4. \A i \in 1 .. l : o[i] = o[i]
    OBVIOUS
  <2> QED
    BY <1>10, <2>1, <2>2, <2>3, <2>4, KeptChain
<1> QED
  BY <1>9, <1>10, <1>11, <1>12

\* An escape in a symbol is noted in its context, and the chain is the same.
Escaped(o, e) == [o EXCEPT ![Len(o)].is_escaped = e]

LEMMA EscapedChain ==
  ASSUME NEW o, Contexts(o), NEW e \in BOOLEAN, NEW p, p = Escaped(o, e)
  PROVE  /\ Contexts(p) /\ Len(p) = Len(o)
         /\ \A i \in 1 .. Len(o) : /\ p[i].type = o[i].type /\ p[i].mark = o[i].mark
                                   /\ p[i].cell = o[i].cell /\ p[i].prefix = o[i].prefix
                                   /\ Below(p[i]) = Below(o[i])
         /\ Last(p).type = Last(o).type /\ Last(p).mark = Last(o).mark
         /\ Last(p).cell = Last(o).cell /\ Below(Last(p)) = Below(Last(o))
         /\ \A b : Chain(b, o) => Chain(b, p)
         /\ \A b : OnTop(b, o) => OnTop(b, p)
<1>1. PICK l \in Nat \ {0} : l = Len(o)
  BY ContextsLast
<1>2. o \in Seq(OpenContext) /\ (\A i \in 1 .. l : o[i] \in OpenContext) /\ Last(o) = o[l]
  BY <1>1, ContextsLast DEF Contexts
<1>3. PICK c : c = [o[l] EXCEPT !.is_escaped = e]
  OBVIOUS
<1>4. /\ c \in OpenContext /\ c.type = o[l].type /\ c.mark = o[l].mark /\ c.cell = o[l].cell
      /\ c.prefix = o[l].prefix
  BY <1>1, <1>2, <1>3 DEF OpenContext
<1>5. p = [o EXCEPT ![l] = c]
  BY <1>1, <1>3 DEF Escaped
<1>6. /\ p \in Seq(OpenContext) /\ Len(p) = l /\ p[l] = c
      /\ \A i \in 1 .. l : i # l => p[i] = o[i]
  BY <1>1, <1>2, <1>4, <1>5
<1>7. ASSUME NEW i \in 1 .. l
      PROVE  /\ p[i].type = o[i].type /\ p[i].mark = o[i].mark /\ p[i].cell = o[i].cell
             /\ p[i].prefix = o[i].prefix
  BY <1>4, <1>6
<1>8. \A i \in 1 .. l : Below(p[i]) = Below(o[i])
  BY <1>7 DEF Below
<1>9. Last(p) = p[l] /\ p # <<>>
  BY <1>6 DEF Last
<1>10. \A i \in 1 .. l - 1 : p[i].type = "AST_LIST"
  BY <1>1, <1>7 DEF Contexts
<1>11. Contexts(p)
  BY <1>6, <1>9, <1>10 DEF Contexts
<1>12. ASSUME NEW b, Chain(b, o) PROVE Chain(b, p)
  <2>1. \A i \in 1 .. l - 1 : i \in 1 .. l /\ i + 1 \in 1 .. l
    BY <1>1
  <2> QED
    BY <1>1, <1>6, <1>7, <1>8, <1>12, <2>1 DEF Chain
<1>13. l \in 1 .. l
  BY <1>1
<1>14. Last(p).mark = Last(o).mark /\ Below(Last(p)) = Below(Last(o))
       /\ Last(p).type = Last(o).type /\ Last(p).cell = Last(o).cell
  BY <1>2, <1>7, <1>8, <1>9, <1>13
<1>15. ASSUME NEW b, OnTop(b, o) PROVE OnTop(b, p)
  BY <1>14, <1>15 DEF OnTop
<1> QED
  BY <1>1, <1>6, <1>7, <1>8, <1>11, <1>12, <1>14, <1>15

-----------------------------------------------------------------------------
(* The arena that the reader begins on.                                    *)

LEMMA HostArenaOf ==
  ArenaOf(HostArena)
<1>1. PICK b : b = HostArena
  OBVIOUS
<1>2. PICK e \in Nat : e = SizeOf["ENVIRONMENT"]
  BY SizesAreNat
<1>3. PICK r \in Nat : r = SizeOf["READER"]
  BY SizesAreNat
<1>4. PTR \in Nat \ {0} /\ HDR \in Nat \ {0} /\ DirBits \in Nat \ {0}
  BY SizesAssumption
<1>5. PICK i : i = bistack_init(Size)
  OBVIOUS
<1>6. /\ i = [i EXCEPT !.fptr = HDR + PTR, !.fmark = HDR, !.bptr = Size - PTR,
                       !.bmark = Size - PTR]
      /\ i.dir \in [Bits -> {BS_FORWARD}]
      /\ i \in [fptr : Int, fmark : Int, bptr : Int, bmark : Int, mem : {i.mem}, dir : {i.dir}]
  BY <1>4, <1>5, SizeIsNat DEF bistack_init, bistack_markb, bistack_markf, Bits
<1>7. PICK p : p = bistack_pushdir(i, BS_BACKWARD)
  OBVIOUS
<1>8. /\ p.fptr = HDR + PTR /\ p.fmark = HDR /\ p.bptr = Size - PTR /\ p.bmark = Size - PTR
      /\ p.dir \in [Bits -> {BS_FORWARD, BS_BACKWARD}] /\ p.dir[0] = BS_BACKWARD
      /\ p \in [fptr : Int, fmark : Int, bptr : Int, bmark : Int, mem : {p.mem}, dir : {p.dir}]
  <2>1. PICK d : d = [k \in Bits |-> IF k = 0 THEN BS_BACKWARD ELSE i.dir[k - 1]]
    OBVIOUS
  <2>2. p = [i EXCEPT !.dir = d]
    BY <1>7, <2>1 DEF bistack_pushdir, Bits
  <2>3. \A k \in Bits : k # 0 => k - 1 \in Bits
    BY <1>4 DEF Bits
  <2>4. 0 \in Bits
    BY <1>4 DEF Bits
  <2>5. d \in [Bits -> {BS_FORWARD, BS_BACKWARD}] /\ d[0] = BS_BACKWARD
    BY <1>6, <2>1, <2>3, <2>4
  <2>6. i.fptr = HDR + PTR /\ i.fmark = HDR /\ i.bptr = Size - PTR /\ i.bmark = Size - PTR
    BY <1>6
  <2> QED
    BY <1>6, <2>2, <2>5, <2>6
<1>9. PICK q : q = bistack_alloc(p, e)
  OBVIOUS
<1>10. \A a : a.dir[0] = BS_BACKWARD => ~Forward(a)
  BY DEF Forward, bistack_dir, BS_FORWARD, BS_BACKWARD
<1>11. q = [p EXCEPT !.bptr = p.bptr - e]
  BY <1>8, <1>9, <1>10 DEF bistack_alloc, bistack_allocb
<1>12. b = bistack_alloc(q, r)
  BY <1>1, <1>2, <1>3, <1>5, <1>7, <1>9 DEF HostArena
<1>13. /\ q.fptr = p.fptr /\ q.fmark = p.fmark /\ q.bmark = p.bmark /\ q.dir = p.dir
       /\ q.bptr = p.bptr - e
       /\ q \in [fptr : {p.fptr}, fmark : {p.fmark}, bptr : {p.bptr - e}, bmark : {p.bmark},
                 mem : {q.mem}, dir : {p.dir}]
  BY <1>8, <1>11
<1>14. /\ b.fptr = q.fptr /\ b.fmark = q.fmark /\ b.bmark = q.bmark /\ b.dir = q.dir
       /\ b.bptr = q.bptr - r
       /\ b \in [fptr : {q.fptr}, fmark : {q.fmark}, bptr : {q.bptr - r}, bmark : {q.bmark},
                 mem : {b.mem}, dir : {q.dir}]
  <2>1. b = [q EXCEPT !.bptr = q.bptr - r]
    BY <1>8, <1>10, <1>12, <1>13 DEF bistack_alloc, bistack_allocb
  <2> QED
    BY <1>13, <2>1
<1>15. /\ b.fptr = HDR + PTR /\ b.fmark = HDR /\ b.bmark = Size - PTR
       /\ b.bptr = ((Size - PTR) - e) - r
       /\ b.dir \in [Bits -> {BS_FORWARD, BS_BACKWARD}] /\ b.dir[0] = BS_BACKWARD
  BY <1>8, <1>13, <1>14
<1>16. CanAlloc(b, PTR)
  <2>1. PICK c : c = PerformAll(b, ContextCalls)
    OBVIOUS
  <2>2. c.ok
    <3>1. new_reader_context(b, "AST_LIST", "AST_NOPREFIX").err = "none"
      BY <1>1, RoomAssumption
    <3>2. ~c.ok => new_reader_context(b, "AST_LIST", "AST_NOPREFIX")
                     = [bs |-> c.bs, err |-> "BISTACK_OUT_OF_MEMORY"]
      BY <2>1 DEF new_reader_context
    <3> QED
      BY <3>1, <3>2
  <2>3. PICK s \in Nat : s = SizeOf["READER_CONTEXT"]
    BY SizesAreNat
  <2>4. c = After(After(Begun(b), MarkCall), AllocCall(s))
    BY <2>1, <2>3, CallTwice DEF ContextCalls
  <2>5. After(Begun(b), MarkCall).ok
    BY <2>2, <2>4 DEF After
  <2> QED
    BY <2>5 DEF After, Begun, MarkCall
<1>17. b.fptr + PTR <= b.bptr
  BY <1>16 DEF CanAlloc
<1>18. PICK z \in Nat : z = Size
  BY SizeIsNat
<1>19. /\ b.bptr \in Nat /\ b.bmark \in Nat /\ b.fptr \in Nat /\ b.fmark \in Nat
       /\ 0 < b.fptr /\ b.fptr <= b.bptr /\ b.bptr <= Size /\ b.fmark <= Size
       /\ b.bmark <= Size
  <2>1. HDR + PTR + PTR <= z - PTR - e - r
    BY <1>4, <1>15, <1>17, <1>18
  <2>2. b.bptr = z - PTR - e - r /\ b.bmark = z - PTR
    BY <1>15, <1>18
  <2> QED
    BY <1>4, <1>15, <1>18, <2>1, <2>2
<1>20. b \in [fptr : Nat, fmark : Nat, bptr : Nat, bmark : Nat, mem : {b.mem},
              dir : [Bits -> {BS_FORWARD, BS_BACKWARD}]]
  BY <1>14, <1>15, <1>19
<1> QED
  BY <1>1, <1>15, <1>19, <1>20 DEF ArenaOf

-----------------------------------------------------------------------------
(* The cells on the forward stack.                                         *)

LEMMA SubsetsOf ==
  ASSUME NEW k \in Nat
  PROVE  IsFiniteSet(SUBSET (1 .. k)) /\ Cardinality(SUBSET (1 .. k)) = 2 ^ k
<1>1. IsFiniteSet(1 .. k) /\ Cardinality(1 .. k) = k
  <2>1. Cardinality(1 .. k) = IF 1 > k THEN 0 ELSE k - 1 + 1
    BY FS_Interval
  <2> QED
    BY <2>1, FS_Interval
<1> QED
  BY <1>1, FS_SUBSET

LEMMA PowerOfTwo ==
  ASSUME NEW k \in Nat
  PROVE  2 ^ k \in Nat \ {0}
<1>1. IsFiniteSet(SUBSET (1 .. k)) /\ Cardinality(SUBSET (1 .. k)) = 2 ^ k
  BY SubsetsOf
<1>2. Cardinality(SUBSET (1 .. k)) \in Nat /\ Cardinality(SUBSET (1 .. k)) # 0
  <2>1. SUBSET (1 .. k) # {}
    OBVIOUS
  <2> QED
    BY <1>1, <2>1, FS_EmptySet, FS_CardinalityType
<1> QED
  BY <1>1, <1>2

LEMMA WidthsAreNat == MaxSymbol \in Nat /\ ListModulus \in Nat \ {0}
<1>1. 2 ^ CELL_SYMBOL_LENGTH_BITS \in Nat \ {0} /\ 2 ^ CELL_LIST_LENGTH_BITS \in Nat \ {0}
  BY WidthsAssumption, PowerOfTwo
<1>2. \A n \in Nat \ {0} : n - 1 \in Nat
  OBVIOUS
<1> QED
  BY <1>1, <1>2 DEF MaxSymbol, ListModulus

CellRecord == [cell : Cells, at : 0 .. Size]

\* Where a cell that is complete ends.
EndOf(c) ==
  c.at + SizeOf["CELLHEADER"] + IF c.cell.type = "AST_SYMBOL" THEN c.cell.length ELSE 0

\* Nothing is reserved for the characters of a symbol that is not complete.
Ending(o, cs) ==
  IF Last(o).type = "AST_SYMBOL" THEN cs[Len(cs)].at + SizeOf["CELLHEADER"]
                                 ELSE EndOf(cs[Len(cs)])

\* The characters of a cell.
TextFits(c) ==
  IF c.type = "AST_SYMBOL" THEN Len(c.text) = c.length /\ c.length <= MaxSymbol
                           ELSE c.text = <<>>

\* Each context has its cell, an atom's is the last, and the cells are one
\* block that ends at f.
Tree(f, o, cs) ==
  /\ cs \in Seq(CellRecord)
  /\ \A i \in 1 .. Len(o) :
       o[i].cell \in 1 .. Len(cs) /\ cs[o[i].cell].cell.type = o[i].type
  /\ Last(o).type # "AST_LIST" => Last(o).cell = Len(cs)
  /\ \A i \in 1 .. Len(cs) - 1 : cs[i + 1].at = EndOf(cs[i])
  /\ \A i \in 1 .. Len(cs) : TextFits(cs[i].cell)
  /\ f = Ending(o, cs)

\* A tree has a cell.
LEMMA TreeCells ==
  ASSUME NEW f, NEW o, Contexts(o), NEW cs, Tree(f, o, cs)
  PROVE  /\ Len(cs) \in Nat \ {0} /\ \A i \in 1 .. Len(cs) : cs[i] \in CellRecord
         /\ Last(o).cell \in 1 .. Len(cs) /\ cs[Last(o).cell].cell.type = Last(o).type
<1>1. Len(o) \in 1 .. Len(o) /\ Last(o) = o[Len(o)]
  BY ContextsLast
<1>2. Last(o).cell \in 1 .. Len(cs) /\ cs[Last(o).cell].cell.type = Last(o).type
  BY <1>1 DEF Tree
<1>3. Len(cs) \in Nat /\ \A i \in 1 .. Len(cs) : cs[i] \in CellRecord
  BY DEF Tree
<1> QED
  BY <1>2, <1>3

LEMMA NewCellFits ==
  ASSUME NEW type \in Types, NEW prefix \in AstPrefixes
  PROVE  /\ NewCell(type, prefix) \in Cells /\ NewCell(type, prefix).type = type
         /\ NewCell(type, prefix).length = 0 /\ NewCell(type, prefix).text = <<>>
         /\ TextFits(NewCell(type, prefix))
<1>1. PICK c : c = NewCell(type, prefix)
  OBVIOUS
<1>2. PICK q \in AstPrefixes : q = IF type = "AST_INTEGER" THEN "AST_NOPREFIX" ELSE prefix
  BY DEF AstPrefixes
<1>3. c = [type |-> type, prefix |-> q, length |-> 0, text |-> <<>>, sign |-> 1, value |-> 0]
  BY <1>1, <1>2 DEF NewCell
<1>4. c.type = type /\ c.length = 0 /\ c.text = <<>>
  BY <1>3
<1>5. 0 \in 0 .. IntegerModulus - 1
  <2>1. 2 ^ 13 \in Nat \ {0}
    BY PowerOfTwo
  <2> QED
    BY <2>1 DEF IntegerModulus
<1>6. <<>> \in Seq(Chars \cup {Garbage}) /\ Len(<<>>) = 0 /\ 0 <= MaxSymbol
  BY WidthsAreNat
<1>7. PICK T : T = Seq(Chars \cup {Garbage})
  OBVIOUS
<1>8. PICK V : V = 0 .. IntegerModulus - 1
  OBVIOUS
<1>9. c \in Cells
  <2>1. <<>> \in T /\ 0 \in V /\ 0 \in Nat /\ 1 \in {0, 1}
    BY <1>5, <1>6, <1>7, <1>8
  <2>2. c \in [type : Types, prefix : AstPrefixes, length : Nat, text : T, sign : {0, 1}, value : V]
    BY ONLY <1>2, <1>3, <2>1, type \in Types
  <2> QED
    BY <1>7, <1>8, <2>2 DEF Cells
<1> QED
  BY <1>1, <1>4, <1>6, <1>9 DEF TextFits

\* reader_new and reader_init begin a tree, ...
LEMMA RootTree ==
  ASSUME NEW b, ArenaOf(b), NEW f, f = b.fptr + SizeOf["CELLHEADER"],
         NEW o, o = <<Context(b, "AST_LIST", "AST_NOPREFIX", 1)>>,
         NEW cs, cs = <<CellAt(b, "AST_LIST", "AST_NOPREFIX")>>
  PROVE  Tree(f, o, cs)
<1>0. "AST_LIST" \in Types /\ "AST_NOPREFIX" \in AstPrefixes
  BY DEF Types, AstPrefixes
<1>1. PICK c : c = CellAt(b, "AST_LIST", "AST_NOPREFIX")
  OBVIOUS
<1>2. /\ c \in CellRecord /\ c.at = b.fptr /\ c.cell.type = "AST_LIST" /\ TextFits(c.cell)
  <2>1. c = [cell |-> NewCell("AST_LIST", "AST_NOPREFIX"), at |-> b.fptr]
    BY <1>1 DEF CellAt
  <2>2. b.fptr \in 0 .. Size
    BY SizeIsNat DEF ArenaOf
  <2> QED
    BY <1>0, <2>1, <2>2, NewCellFits DEF CellRecord
<1>3. cs \in Seq(CellRecord) /\ Len(cs) = 1 /\ cs[1] = c
  BY <1>1, <1>2
<1>4. PICK d : d = Context(b, "AST_LIST", "AST_NOPREFIX", 1)
  OBVIOUS
<1>5. d.type = "AST_LIST" /\ d.cell = 1
  BY <1>4 DEF Context
<1>6. Len(o) = 1 /\ o[1] = d /\ Last(o) = d
  BY <1>4 DEF Last
<1>7. f = Ending(o, cs)
  <2>1. PICK h \in Nat : h = SizeOf["CELLHEADER"]
    BY SizesAreNat
  <2>2. b.fptr \in Nat
    BY DEF ArenaOf
  <2>3. Ending(o, cs) = EndOf(c)
    BY <1>3, <1>5, <1>6 DEF Ending
  <2>4. EndOf(c) = b.fptr + h + 0
    BY <1>2, <2>1 DEF EndOf
  <2> QED
    BY <2>1, <2>2, <2>3, <2>4
<1>8. \A i \in 1 .. Len(cs) - 1 : FALSE
  BY <1>3
<1>9. \A i \in 1 .. Len(cs) : TextFits(cs[i].cell)
  BY <1>2, <1>3
<1>10. \A i \in 1 .. Len(o) : o[i].cell \in 1 .. Len(cs) /\ cs[o[i].cell].cell.type = o[i].type
  BY <1>2, <1>3, <1>5, <1>6
<1> QED
  BY <1>3, <1>5, <1>6, <1>7, <1>8, <1>9, <1>10 DEF Tree

\* ... a cell adds to it, ...
LEMMA GrowTree ==
  ASSUME NEW b, ArenaOf(b), NEW o, Contexts(o), NEW cs, Tree(b.fptr, o, cs),
         Last(o).type = "AST_LIST", NEW type \in Types, NEW prefix \in AstPrefixes,
         NEW f, f = b.fptr + SizeOf["CELLHEADER"],
         NEW p, p = Append(o, Context(b, type, prefix, Len(cs) + 1)),
         NEW ds, ds = Append(cs, CellAt(b, type, prefix))
  PROVE  Tree(f, p, ds)
<1>1. PICK c : c = CellAt(b, type, prefix)
  OBVIOUS
<1>2. /\ c \in CellRecord /\ c.at = b.fptr /\ c.cell.type = type /\ TextFits(c.cell)
      /\ c.cell.length = 0
  <2>1. c = [cell |-> NewCell(type, prefix), at |-> b.fptr]
    BY <1>1 DEF CellAt
  <2>2. b.fptr \in 0 .. Size
    BY SizeIsNat DEF ArenaOf
  <2> QED
    BY <2>1, <2>2, NewCellFits DEF CellRecord
<1>3. PICK n \in Nat \ {0} : n = Len(cs)
  BY TreeCells
<1>4. PICK l \in Nat \ {0} : l = Len(o)
  BY ContextsLast
<1>5. cs \in Seq(CellRecord) /\ o \in Seq(OpenContext) /\ Last(o) = o[l]
  BY <1>4, ContextsLast DEF Tree, Contexts
<1>6. PICK d : d = Context(b, type, prefix, n + 1)
  OBVIOUS
<1>7. d \in OpenContext /\ d.type = type /\ d.cell = n + 1
  <2>1. n + 1 \in Nat
    OBVIOUS
  <2> QED
    BY <1>6, <2>1, MadeAt
<1>8. /\ ds \in Seq(CellRecord) /\ Len(ds) = n + 1 /\ ds[n + 1] = c
      /\ \A i \in 1 .. n : ds[i] = cs[i]
  BY <1>1, <1>2, <1>3, <1>5, AppendProperties
<1>9. /\ Len(p) = l + 1 /\ p[l + 1] = d /\ \A i \in 1 .. l : p[i] = o[i]
  BY <1>3, <1>4, <1>5, <1>6, <1>7, AppendProperties
<1>10. Last(p) = d
  BY <1>4, <1>9 DEF Last
<1>11. ASSUME NEW i \in 1 .. Len(p)
       PROVE  p[i].cell \in 1 .. Len(ds) /\ ds[p[i].cell].cell.type = p[i].type
  <2>1. i = l + 1 \/ i \in 1 .. l
    BY <1>4, <1>9
  <2>2. CASE i = l + 1
    BY <1>2, <1>3, <1>7, <1>8, <1>9, <2>2
  <2>3. CASE i \in 1 .. l
    <3>1. o[i].cell \in 1 .. n /\ cs[o[i].cell].cell.type = o[i].type
      BY <1>3, <1>4, <2>3 DEF Tree
    <3>2. p[i] = o[i] /\ ds[o[i].cell] = cs[o[i].cell] /\ o[i].cell \in 1 .. n + 1
      BY <1>8, <1>9, <2>3, <3>1
    <3> QED
      BY <1>8, <3>1, <3>2
  <2> QED
    BY <2>1, <2>2, <2>3
<1>12. ASSUME NEW i \in 1 .. Len(ds) - 1
       PROVE  ds[i + 1].at = EndOf(ds[i])
  <2>1. i \in 1 .. n /\ (i = n \/ i \in 1 .. n - 1)
    BY <1>3, <1>8
  <2>2. ds[i] = cs[i]
    BY <1>8, <2>1
  <2>3. CASE i = n
    <3>1. ds[i + 1].at = b.fptr
      BY <1>2, <1>8, <2>3
    <3>2. b.fptr = EndOf(cs[n])
      BY <1>3 DEF Tree, Ending
    <3> QED
      BY <2>2, <2>3, <3>1, <3>2
  <2>4. CASE i \in 1 .. n - 1
    <3>1. cs[i + 1].at = EndOf(cs[i])
      BY <1>3, <2>4 DEF Tree
    <3>2. i + 1 \in 1 .. n
      BY <1>3, <2>4
    <3>3. ds[i + 1] = cs[i + 1]
      BY <1>8, <3>2
    <3> QED
      BY <2>2, <3>1, <3>3
  <2> QED
    BY <2>1, <2>3, <2>4
<1>13. ASSUME NEW i \in 1 .. Len(ds) PROVE TextFits(ds[i].cell)
  <2>1. i = n + 1 \/ i \in 1 .. n
    BY <1>3, <1>8
  <2>2. CASE i = n + 1
    BY <1>2, <1>8, <2>2
  <2>3. CASE i \in 1 .. n
    BY <1>3, <1>8, <2>3 DEF Tree
  <2> QED
    BY <2>1, <2>2, <2>3
<1>14. f = Ending(p, ds)
  <2>1. PICK h \in Nat : h = SizeOf["CELLHEADER"]
    BY SizesAreNat
  <2>2. b.fptr \in Nat
    BY DEF ArenaOf
  <2>3. ds[Len(ds)] = c
    BY <1>8
  <2>4. Ending(p, ds) = c.at + h \/ Ending(p, ds) = EndOf(c)
    BY <2>1, <2>3 DEF Ending
  <2>5. EndOf(c) = c.at + h + 0
    BY <1>2, <2>1 DEF EndOf
  <2> QED
    BY <1>2, <2>1, <2>2, <2>4, <2>5
<1>15. Last(p).type # "AST_LIST" => Last(p).cell = Len(ds)
  BY <1>7, <1>8, <1>10
<1> QED
  BY <1>8, <1>11, <1>12, <1>13, <1>14, <1>15 DEF Tree

\* ... what a cell says may change, and where it lies does not, ...
LEMMA WrittenTree ==
  ASSUME NEW f, NEW o, Contexts(o), NEW cs, Tree(f, o, cs),
         NEW ds \in Seq(CellRecord), Len(ds) = Len(cs),
         \A i \in 1 .. Len(cs) :
           /\ ds[i].at = cs[i].at /\ ds[i].cell.type = cs[i].cell.type
           /\ TextFits(ds[i].cell)
           /\ \/ ds[i].cell.type # "AST_SYMBOL" \/ ds[i].cell.length = cs[i].cell.length
              \/ i = Len(cs) /\ Last(o).type = "AST_SYMBOL"
  PROVE  Tree(f, o, ds)
<1>1. PICK n \in Nat \ {0} : n = Len(cs)
  BY TreeCells
<1>2. ASSUME NEW i \in 1 .. n, i # n \/ Last(o).type # "AST_SYMBOL"
      PROVE  EndOf(ds[i]) = EndOf(cs[i])
  BY <1>1, <1>2 DEF EndOf
<1>3. ASSUME NEW i \in 1 .. n - 1 PROVE ds[i + 1].at = EndOf(ds[i])
  <2>1. i \in 1 .. n /\ i + 1 \in 1 .. n /\ i # n
    BY <1>1
  <2>2. ds[i + 1].at = cs[i + 1].at /\ EndOf(ds[i]) = EndOf(cs[i])
    BY <1>1, <1>2, <2>1
  <2> QED
    BY <1>1, <2>2 DEF Tree
<1>4. f = Ending(o, ds)
  <2>1. n \in 1 .. n
    BY <1>1
  <2>2. ds[n].at = cs[n].at
    BY <1>1, <2>1
  <2>3. f = Ending(o, cs)
    BY DEF Tree
  <2>4. CASE Last(o).type = "AST_SYMBOL"
    BY <1>1, <2>2, <2>3, <2>4 DEF Ending
  <2>5. CASE Last(o).type # "AST_SYMBOL"
    BY <1>1, <1>2, <2>1, <2>3, <2>5 DEF Ending
  <2> QED
    BY <2>4, <2>5
<1>5. ASSUME NEW i \in 1 .. Len(o)
      PROVE  o[i].cell \in 1 .. Len(ds) /\ ds[o[i].cell].cell.type = o[i].type
  <2>1. o[i].cell \in 1 .. Len(cs) /\ cs[o[i].cell].cell.type = o[i].type
    BY DEF Tree
  <2> QED
    BY <2>1
<1>6. Last(o).type # "AST_LIST" => Last(o).cell = Len(ds)
  BY DEF Tree
<1> QED
  BY <1>1, <1>3, <1>4, <1>5, <1>6 DEF Tree

\* ... and a cell that is complete stays where it is.
LEMMA PopTree ==
  ASSUME NEW f, NEW o, Contexts(o), NEW cs, Tree(f, o, cs),
         NEW p, Contexts(p), Len(p) = Len(o) - 1, \A i \in 1 .. Len(o) - 1 : p[i] = o[i],
         Last(p).type = "AST_LIST"
  PROVE  Tree(EndOf(cs[Len(cs)]), p, cs)
<1>1. EndOf(cs[Len(cs)]) = Ending(p, cs)
  BY DEF Ending
<1>2. PICK l \in Nat \ {0} : l = Len(o)
  BY ContextsLast
<1>3. \A i \in 1 .. Len(p) : i \in 1 .. Len(o) /\ i \in 1 .. Len(o) - 1
  BY <1>2
<1> QED
  BY <1>1, <1>3 DEF Tree

\* The chain is the same when an escape is noted.
LEMMA EscapedTree ==
  ASSUME NEW f, NEW o, Contexts(o), NEW cs, Tree(f, o, cs), NEW p, Len(p) = Len(o),
         \A i \in 1 .. Len(o) : p[i].type = o[i].type /\ p[i].cell = o[i].cell,
         Last(p).type = Last(o).type, Last(p).cell = Last(o).cell
  PROVE  Tree(f, p, cs)
<1>1. Ending(p, cs) = Ending(o, cs)
  BY DEF Ending
<1> QED
  BY <1>1 DEF Tree

\* A cell written over another, ...
Written(cs, k, c) == [cs EXCEPT ![k].cell = c]

\* ... by one that may take its place, ...
CanWrite(o, cs, k, c) ==
  /\ cs \in Seq(CellRecord) /\ k \in 1 .. Len(cs) /\ c \in Cells
  /\ c.type = cs[k].cell.type /\ TextFits(c)
  /\ \/ c.type # "AST_SYMBOL" \/ c.length = cs[k].cell.length
     \/ k = Len(cs) /\ Last(o).type = "AST_SYMBOL"

\* ... and the others as they were.
WroteOne(ds, cs, k, c) ==
  /\ ds \in Seq(CellRecord) /\ Len(ds) = Len(cs)
  /\ ds[k].cell = c /\ ds[k].at = cs[k].at
  /\ \A i \in 1 .. Len(cs) : i # k => ds[i] = cs[i]

\* The tree, once one of its cells is written.
LEMMA OneWritten ==
  ASSUME NEW f, NEW o, Contexts(o), NEW cs, Tree(f, o, cs), NEW k, NEW c,
         CanWrite(o, cs, k, c)
  PROVE  Tree(f, o, Written(cs, k, c)) /\ WroteOne(Written(cs, k, c), cs, k, c)
<1>1. /\ cs \in Seq(CellRecord) /\ k \in 1 .. Len(cs) /\ c \in Cells
      /\ \A i \in 1 .. Len(cs) : TextFits(cs[i].cell)
  BY DEF Tree, CanWrite
<1>2. PICK r : r = [cs[k] EXCEPT !.cell = c]
  OBVIOUS
<1>3. cs[k] \in CellRecord
  BY <1>1
<1>4. r \in CellRecord /\ r.cell = c /\ r.at = cs[k].at
  BY <1>1, <1>2, <1>3 DEF CellRecord
<1>5. PICK ds : ds = Written(cs, k, c)
  OBVIOUS
<1>6. ds = [cs EXCEPT ![k] = r]
  BY <1>2, <1>5 DEF Written
<1>7. /\ ds \in Seq(CellRecord) /\ Len(ds) = Len(cs)
      /\ ds[k].cell = c /\ ds[k].at = cs[k].at
      /\ \A i \in 1 .. Len(cs) : i # k => ds[i] = cs[i]
  BY <1>1, <1>4, <1>6
<1>8. ASSUME NEW i \in 1 .. Len(cs)
      PROVE  /\ ds[i].at = cs[i].at /\ ds[i].cell.type = cs[i].cell.type
             /\ TextFits(ds[i].cell)
             /\ \/ ds[i].cell.type # "AST_SYMBOL" \/ ds[i].cell.length = cs[i].cell.length
                \/ i = Len(cs) /\ Last(o).type = "AST_SYMBOL"
  <2>1. CASE i = k
    BY <1>7, <2>1 DEF CanWrite
  <2>2. CASE i # k
    BY <1>1, <1>7, <2>2
  <2> QED
    BY <2>1, <2>2
<1>9. Tree(f, o, ds)
  BY <1>7, <1>8, WrittenTree
<1>10. WroteOne(ds, cs, k, c)
  BY <1>7 DEF WroteOne
<1> QED
  BY <1>5, <1>9, <1>10
-----------------------------------------------------------------------------
(* What the reader keeps of its memory.                                    *)

OnMark(b, o, mark) == IF mark = NULL THEN OnTop(b, o) ELSE Topped(b, o, mark)

\* After an error there is still an arena, but what the failed call took lies
\* on top of the contexts.
StackInv ==
  /\ ArenaOf(bs) /\ Contexts(open)
  /\ pc # "thrown" => Chain(bs, open) /\ OnMark(bs, open, missing.mark)

TreeInv == Tree(bs.fptr, open, cells)

\* A cell is begun, and a comment skipped, in a list only.
PlaceInv ==
  /\ in_comment \in BOOLEAN
  /\ pc # "thrown" /\ in_comment => Current.type = "AST_LIST"
  /\ pc \in {"next_non_ws", "next_cell"} => Current.type = "AST_LIST" /\ ~in_comment
  /\ pc \in {"comment", "cell_comment"} => in_comment
  /\ pc = "put_missing" => missing.mark # NULL

\* The contexts on top of the stack, and nothing above them.
Plain == StackInv /\ TreeInv /\ pc # "thrown" /\ missing.mark = NULL

LEMMA PlainStack ==
  ASSUME Plain
  PROVE  /\ ArenaOf(bs) /\ Contexts(open) /\ Chain(bs, open) /\ OnTop(bs, open)
         /\ Tree(bs.fptr, open, cells)
BY DEF Plain, StackInv, TreeInv, OnMark

\* The memory is as it was.
LEMMA SameMemory ==
  ASSUME StackInv, TreeInv, UNCHANGED tree, missing'.mark = missing.mark,
         pc = "thrown" => pc' = "thrown"
  PROVE  StackInv' /\ TreeInv'
<1>1. bs' = bs /\ open' = open /\ cells' = cells
  BY DEF tree
<1> QED
  BY <1>1 DEF StackInv, TreeInv

\* What the failed call took stays taken.
LEMMA FailedMemory ==
  ASSUME StackInv, TreeInv, ArenaOf(bs'), bs'.fptr = bs.fptr, UNCHANGED <<open, cells>>,
         pc' = "thrown"
  PROVE  StackInv' /\ TreeInv'
<1>1. open' = open /\ cells' = cells
  OBVIOUS
<1> QED
  BY <1>1 DEF StackInv, TreeInv

\* Only what a step did to the cell of the innermost context is new.
LEMMA StepMemory ==
  ASSUME Plain, missing' = missing, ArenaOf(bs'), Contexts(open'), Chain(bs', open'), OnTop(bs', open'),
         Tree(bs'.fptr, open', cells')
  PROVE  StackInv' /\ TreeInv'
BY DEF Plain, StackInv, TreeInv, OnMark

\* reader_read returns without a cell, or throws.
LEMMA NoCellMemory ==
  ASSUME Plain, missing' = missing, NoCell
  PROVE  StackInv' /\ TreeInv' /\ pc' \in {"idle", "thrown"} /\ open' = open
<1>1. PICK bit \in Padding :
        IF bit = 0
          THEN Return("read", Len(open) = 1) /\ UNCHANGED tree
          ELSE LET new == new_reader_context(bs, "AST_NONE", "AST_NOPREFIX") IN
               bs' = new.bs /\ Throw(new.err) /\ UNCHANGED <<open, cells, locals>>
  BY DEF NoCell
<1>2. CASE Return("read", Len(open) = 1) /\ UNCHANGED tree
  BY <1>2, SameMemory DEF Return, tree, Plain
<1>3. CASE LET new == new_reader_context(bs, "AST_NONE", "AST_NOPREFIX") IN
             bs' = new.bs /\ Throw(new.err) /\ UNCHANGED <<open, cells>>
  <2>1. PICK new : new = new_reader_context(bs, "AST_NONE", "AST_NOPREFIX")
    OBVIOUS
  <2>2. bs' = new.bs /\ pc' = "thrown" /\ UNCHANGED <<open, cells>>
    BY <1>3, <2>1 DEF Throw
  <2>3. /\ ArenaOf(new.bs)
        /\ IF new.err = "none" THEN "AST_NONE" \in Types ELSE new.bs.fptr = bs.fptr
    BY <2>1, PlainStack, NewContext
  <2>4. "AST_NONE" \notin Types
    BY DEF Types
  <2> QED
    BY <2>2, <2>3, <2>4, FailedMemory DEF Plain
<1> QED
  BY <1>1, <1>2, <1>3

\* A cell begins.
LEMMA EnterMemory ==
  ASSUME Plain, missing' = missing, Current.type = "AST_LIST", NEW type \in Types, NEW prefix \in AstPrefixes,
         Enter(type, prefix)
  PROVE  /\ StackInv' /\ TreeInv'
         /\ \/ pc' = "thrown"
            \/ pc' = Resume(open') /\ Current'.type = type
<1>1. PICK new : new = new_reader_context(bs, type, prefix)
  OBVIOUS
<1>2. /\ ArenaOf(bs) /\ Contexts(open) /\ Chain(bs, open) /\ OnTop(bs, open)
      /\ Tree(bs.fptr, open, cells) /\ Last(open).type = "AST_LIST"
  BY PlainStack DEF Current
<1>3. /\ ArenaOf(new.bs)
      /\ IF new.err = "none" THEN new.bs.fptr = bs.fptr + SizeOf["CELLHEADER"]
                             ELSE new.bs.fptr = bs.fptr
  BY <1>1, <1>2, NewContext
<1>4. CASE new.err = "none"
  <2>1. /\ bs' = new.bs /\ pc' = Resume(open')
        /\ open' = Append(open, Context(bs, type, prefix, Len(cells) + 1))
        /\ cells' = Append(cells, CellAt(bs, type, prefix))
    BY <1>1, <1>4 DEF Enter, Go
  <2>2. Len(cells) + 1 \in Nat
    BY <1>2, TreeCells
  <2>3. PICK n \in Nat : n = Len(cells) + 1
    BY <2>2
  <2>4. PICK p : p = Append(open, Context(bs, type, prefix, n))
    OBVIOUS
  <2>5. Contexts(p) /\ Chain(new.bs, p) /\ OnTop(new.bs, p)
    BY <1>1, <1>2, <1>4, <2>4, PushChain
  <2>6. Tree(new.bs.fptr, p, cells')
    <3>1. new.bs.fptr = bs.fptr + SizeOf["CELLHEADER"]
      BY <1>3, <1>4
    <3>2. cells' = Append(cells, CellAt(bs, type, prefix))
      BY <2>1
    <3>3. p = Append(open, Context(bs, type, prefix, Len(cells) + 1))
      BY <2>3, <2>4
    <3> QED
      BY <1>2, <3>1, <3>2, <3>3, GrowTree
  <2>7. open' = p
    BY <2>1, <2>3, <2>4
  <2>8. StackInv' /\ TreeInv'
    BY <1>3, <2>1, <2>5, <2>6, <2>7, StepMemory
  <2>9. Last(p).type = type
    <3>1. Context(bs, type, prefix, n).type = type
      BY DEF Context
    <3>2. /\ Context(bs, type, prefix, n) \in OpenContext
      BY <1>2, MadeAt
    <3>3. open \in Seq(OpenContext)
      BY <1>2 DEF Contexts
    <3>4. Len(p) = Len(open) + 1 /\ p[Len(open) + 1] = Context(bs, type, prefix, n)
      BY <2>4, <3>2, <3>3, AppendProperties
    <3> QED
      BY <3>1, <3>4 DEF Last
  <2> QED
    BY <2>1, <2>7, <2>8, <2>9 DEF Current
<1>5. CASE new.err # "none"
  <2>1. bs' = new.bs /\ pc' = "thrown" /\ UNCHANGED <<open, cells>>
    BY <1>1, <1>5 DEF Enter, Throw
  <2> QED
    BY <1>3, <1>5, <2>1, FailedMemory DEF Plain
<1> QED
  BY <1>4, <1>5

\* The list that a cell is counted in.
Counted(cs, k) == [cs EXCEPT ![k].cell.length = (@ + 1) % ListModulus]

LEMMA CountedTree ==
  ASSUME NEW f, NEW o, Contexts(o), NEW cs, Tree(f, o, cs), Len(o) > 1,
         NEW k, k = Last(Front(o)).cell, Last(Front(o)) = o[Len(o) - 1],
         NEW ds, ds = Counted(cs, k)
  PROVE  Tree(f, o, ds) /\ Len(ds) = Len(cs) /\ EndOf(ds[Len(cs)]) = EndOf(cs[Len(cs)])
<1>1. PICK m \in Nat \ {0} : Len(o) = m + 1
  <2>1. Len(o) - 1 \in Nat \ {0} /\ Len(o) = (Len(o) - 1) + 1
    BY ContextsLast
  <2> QED
    BY <2>1
<1>2. k = o[m].cell /\ o[m].type = "AST_LIST"
  <2>1. m \in 1 .. Len(o) - 1
    BY <1>1
  <2> QED
    BY <1>1, <2>1 DEF Contexts
<1>3. k \in 1 .. Len(cs) /\ cs[k].cell.type = "AST_LIST"
  <2>1. m \in 1 .. Len(o)
    BY <1>1
  <2> QED
    BY <1>2, <2>1 DEF Tree
<1>4. cs[k] \in CellRecord /\ cs[k].cell \in Cells /\ TextFits(cs[k].cell)
  BY <1>3, TreeCells DEF Tree, CellRecord
<1>5. PICK n \in Nat : n = (cs[k].cell.length + 1) % ListModulus
  <2>1. cs[k].cell.length \in Nat
    BY <1>4 DEF Cells
  <2>2. \A x \in Nat, y \in Nat \ {0} : (x + 1) % y \in Nat
    OBVIOUS
  <2> QED
    BY <2>1, <2>2, WidthsAreNat
<1>6. PICK c : c = [cs[k].cell EXCEPT !.length = n]
  OBVIOUS
<1>7. c \in Cells /\ c.type = "AST_LIST" /\ c.text = cs[k].cell.text
  BY <1>3, <1>4, <1>6 DEF Cells
<1>8. ds = Written(cs, k, c)
  BY <1>5, <1>6 DEF Written, Counted
<1>9. TextFits(c)
  BY <1>3, <1>4, <1>7 DEF TextFits
<1>10. c.type # "AST_SYMBOL" /\ c.type = cs[k].cell.type
  BY <1>3, <1>7
<1>11. CanWrite(o, cs, k, c)
  <2>1. cs \in Seq(CellRecord)
    BY DEF Tree
  <2> QED
    BY <1>3, <1>7, <1>9, <1>10, <2>1 DEF CanWrite
<1>12. Tree(f, o, ds) /\ WroteOne(ds, cs, k, c)
  BY <1>8, <1>11, OneWritten
<1>13. EndOf(ds[Len(cs)]) = EndOf(cs[Len(cs)])
  <2>1. CASE Len(cs) = k
    BY <1>10, <1>12, <2>1 DEF EndOf, WroteOne
  <2>2. CASE Len(cs) # k
    <3>1. Len(cs) \in 1 .. Len(cs)
      <4>1. Contexts(o) /\ Tree(f, o, cs)
        OBVIOUS
      <4>2. Len(cs) \in Nat \ {0}
        BY ONLY <4>1, TreeCells
      <4> QED
        BY ONLY <4>2
    <3>2. \A i \in 1 .. Len(cs) : i # k => ds[i] = cs[i]
      BY <1>12 DEF WroteOne
    <3>3. ds[Len(cs)] = cs[Len(cs)]
      BY <2>2, <3>1, <3>2
    <3> QED
      BY <3>3
  <2> QED
    BY <2>1, <2>2
<1> QED
  BY <1>12, <1>13 DEF WroteOne

\* A cell is complete; b is the arena with what it still needed.
LEMMA LeaveMemory ==
  ASSUME Plain, missing' = missing, Len(open) > 1, NEW b, ArenaOf(b), Chain(b, open), OnTop(b, open),
         b.fptr = EndOf(cells[Len(cells)]), Leave(b)
  PROVE  /\ StackInv' /\ TreeInv'
         /\ Go("next_non_ws") /\ Current'.type = "AST_LIST"
<1>1. Contexts(open) /\ Tree(bs.fptr, open, cells)
  BY PlainStack
<1>2. PICK r : r = bistack_rewind(b)
  OBVIOUS
<1>3. /\ CanRewind(b) /\ StackTop(r) = Last(open).mark
      /\ ArenaOf(r) /\ r.fptr = b.fptr
      /\ Contexts(Front(open)) /\ Last(Front(open)).type = "AST_LIST"
      /\ Len(Front(open)) = Len(open) - 1 /\ \A i \in 1 .. Len(open) - 1 : Front(open)[i] = open[i]
      /\ Last(Front(open)) = open[Len(open) - 1]
      /\ Chain(r, Front(open)) /\ OnTop(r, Front(open))
  BY <1>1, <1>2, PopChain
<1>4. /\ open' = Front(open) /\ bs' = r
      /\ cells' = [cells EXCEPT ![Last(Front(open)).cell].cell.length = (@ + 1) % ListModulus]
      /\ lassert(StackTop(bs') = Current.mark, "READER_STATE_ERROR", Resume(open'))
  BY <1>2, <1>3 DEF Leave
<1>5. Go(Resume(open'))
  BY <1>3, <1>4 DEF lassert, Current
<1>6. /\ Tree(bs.fptr, open, cells') /\ Len(cells') = Len(cells)
      /\ EndOf(cells'[Len(cells)]) = EndOf(cells[Len(cells)])
  <2>1. PICK k : k = Last(Front(open)).cell
    OBVIOUS
  <2>2. cells' = Counted(cells, k)
    BY <1>4, <2>1 DEF Counted
  <2>3. Last(Front(open)) = open[Len(open) - 1] /\ Len(open) > 1
    BY <1>3
  <2> QED
    BY ONLY <1>1, <2>1, <2>2, <2>3, CountedTree
<1>7. Tree(EndOf(cells'[Len(cells')]), Front(open), cells')
  BY <1>1, <1>3, <1>6, PopTree
<1>8. Tree(bs'.fptr, open', cells')
  BY <1>3, <1>4, <1>6, <1>7
<1>9. StackInv' /\ TreeInv'
  BY <1>3, <1>4, <1>8, StepMemory
<1>10. Resume(open') = "next_non_ws"
  BY <1>3, <1>4 DEF Resume
<1> QED
  BY <1>3, <1>4, <1>5, <1>9, <1>10 DEF Current

-----------------------------------------------------------------------------
(* Steps within a cell.                                                    *)

\* An escape is noted, and perhaps a cell was written.
LEMMA EscapedMemory ==
  ASSUME Plain, missing' = missing, NEW e \in BOOLEAN, SetEscaped(e), bs' = bs, Tree(bs.fptr, open, cells')
  PROVE  StackInv' /\ TreeInv' /\ Current'.type = Current.type
<1>1. ArenaOf(bs) /\ Contexts(open) /\ Chain(bs, open) /\ OnTop(bs, open)
  BY PlainStack
<1>2. PICK p : p = Escaped(open, e)
  OBVIOUS
<1>3. /\ Contexts(p) /\ Len(p) = Len(open)
      /\ \A i \in 1 .. Len(open) : /\ p[i].type = open[i].type /\ p[i].mark = open[i].mark
                                   /\ p[i].cell = open[i].cell /\ p[i].prefix = open[i].prefix
                                   /\ Below(p[i]) = Below(open[i])
      /\ Last(p).type = Last(open).type /\ Last(p).mark = Last(open).mark
      /\ Last(p).cell = Last(open).cell /\ Below(Last(p)) = Below(Last(open))
      /\ \A b : Chain(b, open) => Chain(b, p)
  BY <1>1, <1>2, EscapedChain
<1>4. Chain(bs, p) /\ OnTop(bs, p)
  BY <1>1, <1>3 DEF OnTop
<1>5. Tree(bs.fptr, p, cells')
  <2>1. \A i \in 1 .. Len(open) : p[i].type = open[i].type /\ p[i].cell = open[i].cell
    BY <1>3
  <2> QED
    BY <1>1, <1>3, <2>1, EscapedTree
<1>6. open' = p
  BY <1>2 DEF SetEscaped, Escaped
<1>7. StackInv' /\ TreeInv'
  BY <1>1, <1>3, <1>4, <1>5, <1>6, StepMemory
<1> QED
  BY <1>3, <1>6, <1>7 DEF Current

\* An atom's cell is the last.
LEMMA AtomCell ==
  ASSUME Plain
  PROVE  /\ cells \in Seq(CellRecord) /\ Current.cell \in 1 .. Len(cells)
         /\ Header \in Cells /\ Header.type = Current.type /\ TextFits(Header)
         /\ Current.type # "AST_LIST" => Current.cell = Len(cells)
<1>1. Contexts(open) /\ Tree(bs.fptr, open, cells)
  BY PlainStack
<1>2. Current.cell \in 1 .. Len(cells) /\ Header.type = Current.type
  BY <1>1, TreeCells DEF Current, Header
<1>3. /\ cells \in Seq(CellRecord) /\ \A i \in 1 .. Len(cells) : TextFits(cells[i].cell)
      /\ Current.type # "AST_LIST" => Current.cell = Len(cells)
  BY <1>1 DEF Tree, Current
<1>4. cells[Current.cell] \in CellRecord
  BY <1>2, <1>3
<1> QED
  BY <1>2, <1>3, <1>4 DEF Header, CellRecord

\* The memory once the cell of the innermost context was written.
LEMMA WrittenMemory ==
  ASSUME Plain, NEW c, c \in Cells, c.type = Current.type, TextFits(c)
  PROVE  Tree(bs.fptr, open, Written(cells, Current.cell, c))
<1>1. Contexts(open) /\ Tree(bs.fptr, open, cells)
  BY PlainStack
<1>2. PICK k : k = Current.cell
  OBVIOUS
<1>3. /\ cells \in Seq(CellRecord) /\ k \in 1 .. Len(cells)
      /\ Header = cells[k].cell /\ Header.type = Current.type
      /\ Current.type # "AST_LIST" => k = Len(cells)
  BY <1>2, AtomCell DEF Header
<1>4. c.type = cells[k].cell.type
  BY <1>3
<1>5. \/ c.type # "AST_SYMBOL" \/ c.length = cells[k].cell.length
      \/ k = Len(cells) /\ Last(open).type = "AST_SYMBOL"
  BY <1>3 DEF Current
<1>6. CanWrite(open, cells, k, c)
  BY <1>3, <1>4, <1>5 DEF CanWrite
<1> QED
  BY <1>1, <1>2, <1>6, OneWritten

\* A symbol with one character more.
KeptOf(h, c) == [h EXCEPT !.text = Append(h.text, c), !.length = h.length + 1]

Kept(cs, k, c) == [cs EXCEPT ![k].cell.text = Append(@, c), ![k].cell.length = @ + 1]

LEMMA KeptCell ==
  ASSUME Plain, NEW c
  PROVE  Kept(cells, Current.cell, c) = Written(cells, Current.cell, KeptOf(Header, c))
<1>1. PICK h : h = Header
  OBVIOUS
<1>2. PICK t, n : t = Append(h.text, c) /\ n = h.length + 1
  OBVIOUS
<1>3. PICK d : d = [h EXCEPT !.text = t, !.length = n]
  OBVIOUS
<1>4. d = KeptOf(Header, c)
  BY <1>1, <1>2, <1>3 DEF KeptOf
<1>5. Header = cells[Current.cell].cell
  BY DEF Header
<1>6. Kept(cells, Current.cell, c) = Written(cells, Current.cell, d)
  BY <1>1, <1>2, <1>3, <1>5, AtomCell DEF Kept, Written, CellRecord, Cells
<1> QED
  BY <1>4, <1>6

\* A character of a symbol.
LEMMA KeepMemory ==
  ASSUME Plain, missing' = missing, Current.type = "AST_SYMBOL", NEW c \in Chars, Keep(c)
  PROVE  /\ StackInv' /\ TreeInv'
         /\ \/ pc' = "thrown"
            \/ pc' = pc /\ Current'.type = Current.type
<1>1. CASE Full
  <2>1. UNCHANGED tree /\ pc' = pc
    BY <1>1 DEF Keep, Go
  <2>2. open' = open
    BY <2>1 DEF tree
  <2> QED
    BY <2>1, <2>2, SameMemory DEF Plain, Current
<1>2. CASE ~Full /\ NextByte < bs.bptr
  <2>1. PICK h : h = Header
    OBVIOUS
  <2>2. h \in Cells /\ h.type = "AST_SYMBOL" /\ Len(h.text) = h.length
    BY <2>1, AtomCell DEF TextFits
  <2>3. h.text \in Seq(Chars \cup {Garbage}) /\ h.length \in Nat
    BY <2>2 DEF Cells
  <2>4. PICK t : t = Append(h.text, c)
    OBVIOUS
  <2>5. t \in Seq(Chars \cup {Garbage}) /\ Len(t) = h.length + 1
    BY <2>2, <2>3, <2>4, AppendProperties
  <2>6. PICK n \in Nat : n = h.length + 1
    BY <2>3
  <2>7. n <= MaxSymbol
    <3>1. ~(h.length >= MaxSymbol)
      BY <1>2, <2>1 DEF Full
    <3> QED
      BY <2>3, <2>6, <3>1, WidthsAreNat
  <2>8. PICK d : d = KeptOf(h, c) /\ d = [h EXCEPT !.text = t, !.length = n]
    BY <2>4, <2>6 DEF KeptOf
  <2>9. d \in Cells /\ d.type = "AST_SYMBOL" /\ d.text = t /\ d.length = n
    BY <2>2, <2>5, <2>8 DEF Cells
  <2>10. TextFits(d)
    BY <2>5, <2>6, <2>7, <2>9 DEF TextFits
  <2>11. cells' = Written(cells, Current.cell, d)
    <3>1. cells' = Kept(cells, Current.cell, c)
      BY <1>2 DEF Keep, Kept
    <3>2. Kept(cells, Current.cell, c) = Written(cells, Current.cell, KeptOf(Header, c))
      BY KeptCell
    <3> QED
      BY <2>1, <2>8, <3>1, <3>2
  <2>12. Tree(bs.fptr, open, cells')
    BY <2>9, <2>10, <2>11, WrittenMemory
  <2>13. SetEscaped(FALSE) /\ bs' = bs /\ pc' = pc
    BY <1>2 DEF Keep, EscapeUsed, Go
  <2> QED
    BY <2>12, <2>13, EscapedMemory
<1>3. CASE ~Full /\ ~(NextByte < bs.bptr)
  <2>1. UNCHANGED tree /\ pc' = "thrown"
    BY <1>3 DEF Keep, Throw
  <2>2. StackInv /\ TreeInv /\ missing'.mark = missing.mark
    BY DEF Plain
  <2>3. pc = "thrown" => pc' = "thrown"
    BY <2>1
  <2>4. UNCHANGED tree
    BY <2>1
  <2>5. StackInv' /\ TreeInv'
    BY ONLY <2>2, <2>3, <2>4, SameMemory
  <2> QED
    BY <2>1, <2>5
<1> QED
  BY <1>1, <1>2, <1>3

\* The characters of a symbol are allocated.
LEMMA FinishSymbolMemory ==
  ASSUME Plain, missing' = missing, Current.type = "AST_SYMBOL", Len(open) > 1, FinishSymbol
  PROVE  /\ StackInv' /\ TreeInv'
         /\ \/ Throw("BISTACK_OUT_OF_MEMORY") /\ UNCHANGED tree
            \/ Go("next_non_ws") /\ Current'.type = "AST_LIST"
<1>1. ArenaOf(bs) /\ Chain(bs, open) /\ OnTop(bs, open) /\ Tree(bs.fptr, open, cells)
  BY PlainStack
<1>2. PICK n \in Nat : n = Header.length
  BY AtomCell DEF Cells
<1>3. CASE CanAlloc(bs, n)
  <2>1. PICK b : b = bistack_allocf(bs, n)
    OBVIOUS
  <2>2. bs.fptr \in Nat /\ bs.bptr \in Nat /\ bs.fptr + n <= bs.bptr
    BY <1>1, <1>3 DEF ArenaOf, CanAlloc
  <2>3. PICK f \in Nat : f = bs.fptr + n
    BY <2>2
  <2>4. b = [bs EXCEPT !.fptr = f]
    BY <2>1, <2>3 DEF bistack_allocf
  <2>5. /\ b.fptr = f /\ b.bptr = bs.bptr /\ b.bmark = bs.bmark /\ b.mem = bs.mem
        /\ b.fmark = bs.fmark /\ b.dir = bs.dir
    BY <1>1, <2>4 DEF ArenaOf
  <2>6. ArenaOf(b)
    <3>1. b \in [fptr : Nat, fmark : Nat, bptr : Nat, bmark : Nat, mem : {b.mem},
                 dir : [Bits -> {BS_FORWARD, BS_BACKWARD}]]
      BY <1>1, <2>4 DEF ArenaOf
    <3>2. 0 < f /\ f <= bs.bptr
      BY <1>1, <2>2, <2>3 DEF ArenaOf
    <3> QED
      BY <1>1, <2>5, <3>1, <3>2 DEF ArenaOf
  <2>7. Chain(b, open) /\ OnTop(b, open)
    BY <1>1, <2>5 DEF Chain, OnTop
  <2>8. b.fptr = EndOf(cells[Len(cells)])
    <3>1. /\ cells[Len(cells)].cell.type = "AST_SYMBOL"
          /\ cells[Len(cells)].cell.length = n
      BY <1>2, AtomCell DEF Header
    <3>2. EndOf(cells[Len(cells)]) = cells[Len(cells)].at + SizeOf["CELLHEADER"] + n
      BY <3>1 DEF EndOf
    <3>3. bs.fptr = cells[Len(cells)].at + SizeOf["CELLHEADER"]
      BY <1>1 DEF Tree, Ending, Current
    <3> QED
      BY <2>3, <2>5, <3>2, <3>3
  <2>9. Leave(b)
    BY <1>2, <1>3, <2>1 DEF FinishSymbol
  <2> QED
    BY <2>6, <2>7, <2>8, <2>9, LeaveMemory
<1>4. CASE ~CanAlloc(bs, n)
  <2>1. UNCHANGED tree /\ pc' = "thrown" /\ Throw("BISTACK_OUT_OF_MEMORY")
    BY <1>2, <1>4 DEF FinishSymbol, Throw
  <2>2. StackInv /\ TreeInv /\ missing'.mark = missing.mark
    BY DEF Plain
  <2>3. pc = "thrown" => pc' = "thrown"
    BY <2>1
  <2>4. UNCHANGED tree
    BY <2>1
  <2>5. StackInv' /\ TreeInv'
    BY ONLY <2>2, <2>3, <2>4, SameMemory
  <2> QED
    BY <2>1, <2>5
<1> QED
  BY <1>3, <1>4

\* An integer or a list is complete: it has no data.
LEMMA LeaveNowMemory ==
  ASSUME Plain, missing' = missing, Current.type # "AST_SYMBOL", Len(open) > 1, Leave(bs)
  PROVE  /\ StackInv' /\ TreeInv'
         /\ Go("next_non_ws") /\ Current'.type = "AST_LIST"
<1>1. ArenaOf(bs) /\ Chain(bs, open) /\ OnTop(bs, open) /\ Tree(bs.fptr, open, cells)
  BY PlainStack
<1>2. bs.fptr = EndOf(cells[Len(cells)])
  BY <1>1 DEF Tree, Ending, Current
<1> QED
  BY <1>1, <1>2, LeaveMemory

\* The sign and the value of an integer.
LEMMA IntegerMemory ==
  ASSUME Plain, missing' = missing, Current.type = "AST_INTEGER", UNCHANGED <<bs, open>>,
         \/ \E v \in {0, 1} : SetHeader("sign", v)
         \/ \E v \in 0 .. IntegerModulus - 1 : SetHeader("value", v)
  PROVE  StackInv' /\ TreeInv' /\ Current'.type = Current.type
<1>1. PICK h : h = Header
  OBVIOUS
<1>2. h \in Cells /\ h.type = "AST_INTEGER" /\ TextFits(h)
  BY <1>1, AtomCell
<1>3. Header = cells[Current.cell].cell
  BY DEF Header
<1>4. ASSUME NEW d, d \in Cells, d.type = h.type, d.text = h.text,
             cells' = Written(cells, Current.cell, d)
      PROVE  Tree(bs.fptr, open, cells')
  <2>1. TextFits(d) /\ d.type = Current.type
    BY <1>1, <1>2, <1>4, AtomCell DEF TextFits
  <2>2. d.type # "AST_SYMBOL"
    BY <1>2, <1>4
  <2> QED
    BY <1>4, <2>1, <2>2, WrittenMemory
<1>5. Tree(bs.fptr, open, cells')
  <2>1. ASSUME NEW v \in {0, 1}, SetHeader("sign", v)
        PROVE  Tree(bs.fptr, open, cells')
    <3>1. PICK d : d = [h EXCEPT !.sign = v]
      OBVIOUS
    <3>2. d \in Cells /\ d.type = h.type /\ d.text = h.text
      BY <1>2, <3>1 DEF Cells
    <3>3. cells' = Written(cells, Current.cell, d)
      BY <1>1, <1>3, <2>1, <3>1 DEF SetHeader, Written
    <3> QED
      BY <1>4, <3>2, <3>3
  <2>2. ASSUME NEW v \in 0 .. IntegerModulus - 1, SetHeader("value", v)
        PROVE  Tree(bs.fptr, open, cells')
    <3>1. PICK d : d = [h EXCEPT !.value = v]
      OBVIOUS
    <3>2. d \in Cells /\ d.type = h.type /\ d.text = h.text
      BY <1>2, <3>1 DEF Cells
    <3>3. cells' = Written(cells, Current.cell, d)
      BY <1>1, <1>3, <2>2, <3>1 DEF SetHeader, Written
    <3> QED
      BY <1>4, <3>2, <3>3
  <2> QED
    BY <2>1, <2>2
<1>6. bs' = bs /\ open' = open
  OBVIOUS
<1>7. StackInv' /\ TreeInv'
  BY <1>5, <1>6, PlainStack, StepMemory
<1> QED
  BY <1>6, <1>7 DEF Current

-----------------------------------------------------------------------------
(* put_missing and pprint.                                                 *)

\* A symbol keeps its length where its characters are overwritten.
LEMMA ClobberedTree ==
  ASSUME Plain, NEW b, Clobber(b)
  PROVE  Tree(bs.fptr, open, cells')
<1>1. PICK h : h = Header
  OBVIOUS
<1>2. h \in Cells /\ h.type = Current.type /\ TextFits(h)
  BY <1>1, AtomCell
<1>3. h.text \in Seq(Chars \cup {Garbage})
  BY <1>2 DEF Cells
<1>4. PICK t : t = [i \in DOMAIN h.text |-> IF bs.fptr + i > b.bptr THEN Garbage ELSE h.text[i]]
  OBVIOUS
<1>5. t \in Seq(Chars \cup {Garbage}) /\ Len(t) = Len(h.text)
  <2>1. PICK n \in Nat : n = Len(h.text)
    BY <1>3
  <2>2. t = [i \in 1 .. n |-> IF bs.fptr + i > b.bptr THEN Garbage ELSE h.text[i]]
    BY <1>3, <1>4, <2>1
  <2>3. \A i \in 1 .. n : h.text[i] \in Chars \cup {Garbage}
    BY <1>3, <2>1
  <2>4. \A i \in 1 .. n : (IF bs.fptr + i > b.bptr THEN Garbage ELSE h.text[i])
                            \in Chars \cup {Garbage}
    BY <2>3
  <2> QED
    BY <2>1, <2>2, <2>4
<1>6. h.text = <<>> => t = <<>>
  BY <1>5, EmptySeq
<1>7. PICK d : d = [h EXCEPT !.text = t]
  OBVIOUS
<1>8. d \in Cells /\ d.type = h.type /\ d.length = h.length /\ d.text = t
  BY <1>2, <1>5, <1>7 DEF Cells
<1>9. TextFits(d)
  BY <1>2, <1>5, <1>6, <1>8 DEF TextFits
<1>10. cells' = Written(cells, Current.cell, d)
  <2>1. Header = cells[Current.cell].cell
    BY DEF Header
  <2> QED
    BY <1>1, <1>4, <1>7, <2>1 DEF Clobber, Written
<1> QED
  BY <1>2, <1>8, <1>9, <1>10, WrittenMemory

\* What is built on top of the contexts.
LEMMA BuiltMemory ==
  ASSUME Plain, NEW calls, Downward(calls), NEW w, Weighs(w, calls),
         NEW done, done = PerformAll(bs, calls)
  PROVE  /\ ArenaOf(done.bs) /\ done.bs.fptr = bs.fptr /\ done.ok \in BOOLEAN
         /\ bs.bptr - w[Len(calls)] <= done.bs.bptr
         /\ StackTop(bs) = bs.bptr
         /\ done.ok => /\ Chain(done.bs, open) /\ Topped(done.bs, open, bs.bptr)
                       /\ bs.bptr # NULL
<1>1. ArenaOf(bs) /\ Contexts(open) /\ Chain(bs, open) /\ OnTop(bs, open)
  BY PlainStack
<1>2. /\ CallsOf(done, bs)
      /\ bs.bptr - w[Len(calls)] <= done.bs.bptr
      /\ done.ok => /\ done.bs.bmark = bs.bptr - PTR /\ done.bs.bptr <= bs.bptr - PTR
                    /\ Holds(done.bs.mem, bs.bptr - PTR, bs.bmark)
  BY <1>1, DownwardCalls
<1>3. ArenaOf(done.bs) /\ GrownFrom(done.bs, bs) /\ done.ok \in BOOLEAN
  BY <1>2 DEF CallsOf
<1>4. ASSUME done.ok
      PROVE  Chain(done.bs, open) /\ Topped(done.bs, open, bs.bptr) /\ bs.bptr # NULL
  <2>1. /\ done.bs.bmark = bs.bptr - PTR /\ done.bs.bptr <= bs.bptr - PTR
        /\ Holds(done.bs.mem, bs.bptr - PTR, bs.bmark)
    BY <1>2, <1>4
  <2>2. PICK a : a = done.bs
    OBVIOUS
  <2>3. ArenaOf(a) /\ GrownFrom(a, bs)
    BY <1>3, <2>2
  <2>4. Chain(a, open) /\ Topped(a, open, bs.bptr)
    BY <1>1, <2>1, <2>2, <2>3, TopChain
  <2>5. bs.bptr # NULL
    <3>1. a.bptr \in Nat /\ bs.bptr \in Nat /\ PTR \in Nat \ {0} /\ a.bptr <= bs.bptr - PTR
      BY <1>1, <2>1, <2>2, <2>3, SizesAreNat DEF ArenaOf
    <3> QED
      BY <3>1 DEF NULL
  <2> QED
    BY <2>2, <2>4, <2>5
<1>5. StackTop(bs) = bs.bptr
  BY <1>1 DEF ArenaOf, StackTop, Forward, bistack_dir, BS_FORWARD, BS_BACKWARD
<1>6. done.bs.fptr = bs.fptr
  BY <1>3 DEF GrownFrom
<1> QED
  BY <1>2, <1>3, <1>4, <1>5, <1>6

\* The frames of put_missing.
LEMMA PutMissingMemory ==
  ASSUME StackInv, TreeInv, PutMissing, pc = "put_missing" => missing.mark # NULL
  PROVE  /\ StackInv' /\ TreeInv'
         /\ pc' = "put_missing" => missing'.mark # NULL
<1>0. pc = "idle" /\ open' = open
  BY DEF PutMissing
<1>1. CASE Len(open) = 1 /\ Return("put", TRUE) /\ UNCHANGED <<bs, cells, output>>
  <2>1. UNCHANGED tree /\ missing'.mark = missing.mark /\ pc' = "idle"
    BY <1>0, <1>1 DEF tree, output, Return
  <2> QED
    BY <1>0, <2>1, SameMemory
<1>2. CASE Len(open) > 1 /\ missing.mark # NULL /\ pc' = "put_missing"
           /\ UNCHANGED <<bs, cells, output>>
  <2>1. UNCHANGED tree /\ missing'.mark = missing.mark
    BY <1>0, <1>2 DEF tree, output
  <2> QED
    BY <1>0, <1>2, <2>1, SameMemory
<1>3. ASSUME Len(open) > 1, missing.mark = NULL, NEW done,
             done = PerformAll(bs, FrameCalls(Len(open) - 1)),
             bs' = done.bs, Clobber(done.bs),
             IF ~done.ok THEN pc' = "thrown" /\ UNCHANGED missing
                         ELSE pc' = "put_missing" /\ missing'.mark = StackTop(bs)
      PROVE  /\ StackInv' /\ TreeInv'
             /\ pc' = "put_missing" => missing'.mark # NULL
  <2>1. Plain
    BY <1>0, <1>3 DEF Plain
  <2>2. Tree(bs.fptr, open, cells')
    BY <1>3, <2>1, ClobberedTree
  <2>3. PICK n \in Nat : n = Len(open) - 1
    <3>1. Contexts(open)
      BY <2>1, PlainStack
    <3>2. Len(open) \in Nat \ {0}
      BY <3>1, ContextsLast
    <3> QED
      BY <3>2
  <2>4. PICK calls : calls = FrameCalls(n)
    OBVIOUS
  <2>5. PICK w : Downward(calls) /\ Weighs(w, calls)
    BY <2>4, FramesWeigh
  <2>6. done = PerformAll(bs, calls)
    BY <1>3, <2>3, <2>4
  <2>7. /\ ArenaOf(done.bs) /\ done.bs.fptr = bs.fptr /\ done.ok \in BOOLEAN
        /\ StackTop(bs) = bs.bptr
        /\ done.ok => /\ Chain(done.bs, open) /\ Topped(done.bs, open, bs.bptr)
                      /\ bs.bptr # NULL
    BY <2>1, <2>5, <2>6, BuiltMemory
  <2>8. TreeInv'
    BY <1>0, <1>3, <2>2, <2>7 DEF TreeInv
  <2>9. ArenaOf(bs') /\ Contexts(open')
    BY <1>0, <1>3, <2>1, <2>7, PlainStack
  <2>10. CASE done.ok
    <3>1. missing'.mark = bs.bptr /\ bs.bptr # NULL
      BY <1>3, <2>7, <2>10
    <3>2. Chain(bs', open') /\ OnMark(bs', open', missing'.mark)
      BY <1>0, <1>3, <2>7, <2>10, <3>1 DEF OnMark
    <3> QED
      BY <2>8, <2>9, <3>1, <3>2 DEF StackInv
  <2>11. CASE ~done.ok
    BY <1>3, <2>8, <2>9, <2>11 DEF StackInv
  <2> QED
    BY <2>10, <2>11
<1>4. ASSUME Len(open) > 1, missing.mark = NULL,
             LET done == PerformAll(bs, FrameCalls(Len(open) - 1)) IN
             /\ bs' = done.bs /\ Clobber(done.bs)
             /\ IF ~done.ok
                  THEN pc' = "thrown" /\ UNCHANGED missing
                  ELSE /\ missing' =
                            [mark   |-> StackTop(bs),
                             frames |-> Reverse([i \in 1 .. Len(open) - 1 |->
                                                   EndChar(open[i + 1])])]
                       /\ pc' = "put_missing"
      PROVE  /\ StackInv' /\ TreeInv'
             /\ pc' = "put_missing" => missing'.mark # NULL
  BY <1>3, <1>4
<1> QED
  BY <1>0, <1>1, <1>2, <1>4 DEF PutMissing

\* The frame that was written is taken off.
LEMMA PutcMemory ==
  ASSUME StackInv, TreeInv, CloseInv, Putc, missing.mark # NULL
  PROVE  /\ StackInv' /\ TreeInv'
         /\ pc' \in {"idle", "put_missing"} /\ missing'.mark # NULL
<1>1. UNCHANGED tree /\ pc = "put_missing"
  BY DEF Putc
<1>2. missing'.mark = missing.mark
  <2>1. PICK V : missing \in [mark : V, frames : Seq(EndChars)]
    BY DEF CloseInv, MissingInv
  <2>2. missing' = missing \/ missing' = [missing EXCEPT !.frames = Tail(@)]
    BY DEF Putc, output
  <2> QED
    BY <2>1, <2>2
<1>3. pc' \in {"idle", "put_missing"}
  BY <1>1 DEF Putc, Return, Go
<1> QED
  BY <1>1, <1>2, <1>3, SameMemory

\* put_missing is complete.
LEMMA PutDoneMemory ==
  ASSUME StackInv, TreeInv, PutDone, missing.mark # NULL
  PROVE  StackInv' /\ TreeInv' /\ pc' = "idle"
<1>1. PICK mark : mark = missing.mark
  OBVIOUS
<1>2. /\ ArenaOf(bs) /\ Contexts(open) /\ Chain(bs, open) /\ Topped(bs, open, mark)
      /\ Tree(bs.fptr, open, cells)
  BY <1>1 DEF PutDone, StackInv, TreeInv, OnMark
<1>3. PICK r : r = bistack_rewind(bs)
  OBVIOUS
<1>4. /\ CanRewind(bs) /\ StackTop(r) = mark
      /\ ArenaOf(r) /\ r.fptr = bs.fptr
      /\ Chain(r, open) /\ OnTop(r, open)
  BY <1>2, <1>3, UntopChain
<1>5. bs' = r /\ open' = open /\ cells' = cells
  BY <1>3, <1>4 DEF PutDone
<1>6. pc' = "idle" /\ missing'.mark = NULL
  <2>1. StackTop(bs') = missing.mark /\ CanRewind(bs)
    BY <1>1, <1>4, <1>5
  <2>2. Return("put", TRUE) /\ missing' = NotWriting
    BY ONLY <2>1, PutDone DEF PutDone
  <2> QED
    BY <2>2 DEF Return, NotWriting
<1>7. StackInv'
  BY <1>2, <1>4, <1>5, <1>6 DEF StackInv, OnMark
<1>8. TreeInv'
  BY <1>2, <1>4, <1>5 DEF TreeInv
<1> QED
  BY <1>6, <1>7, <1>8

\* A new root, or none.
LEMMA RecoverMemory ==
  ASSUME StackInv, TreeInv, Recover
  PROVE  StackInv' /\ TreeInv' /\ pc' \in {"idle", "thrown"}
<1>1. PICK root : root = new_reader_context(bs, "AST_LIST", "AST_NOPREFIX")
  OBVIOUS
<1>2. ArenaOf(bs)
  BY DEF StackInv
<1>3. "AST_LIST" \in Types
  BY DEF Types
<1>4. /\ ArenaOf(root.bs)
      /\ IF root.err = "none" THEN root.bs.fptr = bs.fptr + SizeOf["CELLHEADER"]
                              ELSE root.bs.fptr = bs.fptr
  BY <1>1, <1>2, <1>3, NewContext
<1>5. bs' = root.bs /\ missing'.mark = NULL /\ pc = "thrown"
  BY <1>1 DEF Recover, NotWriting
<1>6. CASE root.err = "none"
  <2>1. /\ open' = <<Context(bs, "AST_LIST", "AST_NOPREFIX", 1)>>
        /\ cells' = <<CellAt(bs, "AST_LIST", "AST_NOPREFIX")>> /\ pc' = "idle"
    BY <1>1, <1>6 DEF Recover
  <2>2. Contexts(open') /\ Chain(root.bs, open') /\ OnTop(root.bs, open')
    BY <1>1, <1>2, <1>6, <2>1, RootChain
  <2>3. root.bs.fptr = bs.fptr + SizeOf["CELLHEADER"]
    BY <1>4, <1>6
  <2>4. Tree(root.bs.fptr, open', cells')
    BY <1>2, <2>1, <2>3, RootTree
  <2> QED
    BY <1>4, <1>5, <2>1, <2>2, <2>4 DEF StackInv, TreeInv, OnMark
<1>7. CASE root.err # "none"
  <2>1. UNCHANGED <<open, cells>> /\ pc' = "thrown"
    BY <1>1, <1>5, <1>7 DEF Recover
  <2>2. ArenaOf(bs') /\ bs'.fptr = bs.fptr
    BY <1>4, <1>5, <1>7
  <2> QED
    BY <2>1, <2>2, FailedMemory
<1> QED
  BY <1>6, <1>7

-----------------------------------------------------------------------------
(* Every step keeps the memory in order.                                   *)

ArenaInv == StackInv /\ TreeInv /\ PlaceInv

\* The host's arena, with the reader's root.
LEMMA InitArena ==
  ASSUME Init
  PROVE  ArenaInv
<1>1. PICK host : host = HostArena
  OBVIOUS
<1>2. ArenaOf(host)
  BY <1>1, HostArenaOf
<1>3. PICK root : root = new_reader_context(host, "AST_LIST", "AST_NOPREFIX")
  OBVIOUS
<1>4. root.err = "none"
  BY <1>1, <1>3, RoomAssumption
<1>5. "AST_LIST" \in Types
  BY DEF Types
<1>6. ArenaOf(root.bs) /\ root.bs.fptr = host.fptr + SizeOf["CELLHEADER"]
  BY <1>2, <1>3, <1>4, <1>5, NewContext
<1>7. /\ bs = root.bs /\ open = <<Context(host, "AST_LIST", "AST_NOPREFIX", 1)>>
      /\ cells = <<CellAt(host, "AST_LIST", "AST_NOPREFIX")>>
      /\ missing.mark = NULL /\ pc = "idle" /\ in_comment = FALSE
  BY <1>1, <1>3 DEF Init, InitOn, NotWriting
<1>8. Contexts(open) /\ Chain(root.bs, open) /\ OnTop(root.bs, open)
  BY <1>2, <1>3, <1>4, <1>7, RootChain
<1>9. StackInv
  BY <1>6, <1>7, <1>8 DEF StackInv, OnMark
<1>10. TreeInv
  BY <1>2, <1>6, <1>7, RootTree DEF TreeInv
<1>11. PlaceInv
  BY <1>7 DEF PlaceInv
<1> QED
  BY <1>9, <1>10, <1>11 DEF ArenaInv

\* A cell begins or ends where no comment is.
LEMMA PlaceResumed ==
  ASSUME in_comment' = FALSE,
         \/ pc' \in {"thrown", "idle"}
         \/ pc' = Resume(open') /\ Current'.type \in Types
         \/ pc' = "next_non_ws" /\ Current'.type = "AST_LIST"
  PROVE  PlaceInv'
<1>1. CASE pc' \in {"thrown", "idle"}
  BY <1>1 DEF PlaceInv
<1>2. CASE pc' = "next_non_ws" /\ Current'.type = "AST_LIST"
  BY <1>2 DEF PlaceInv
<1>3. CASE pc' = Resume(open') /\ Current'.type \in Types
  <2>1. Current' = Last(open')
    BY DEF Current
  <2>2. Current'.type \in {"AST_SYMBOL", "AST_INTEGER", "AST_LIST"}
    BY <1>3 DEF Types
  <2>3. CASE Current'.type = "AST_LIST"
    <3>1. pc' = "next_non_ws"
      BY <1>3, <2>1, <2>3 DEF Resume
    <3> QED
      BY <1>2, <2>3, <3>1
  <2>4. CASE Current'.type = "AST_SYMBOL"
    <3>1. pc' = "symbol_context"
      BY <1>3, <2>1, <2>4 DEF Resume
    <3> QED
      BY <3>1 DEF PlaceInv
  <2>5. CASE Current'.type = "AST_INTEGER"
    <3>1. pc' = "integer_context"
      BY <1>3, <2>1, <2>5 DEF Resume
    <3> QED
      BY <3>1 DEF PlaceInv
  <2> QED
    BY <2>2, <2>3, <2>4, <2>5
<1> QED
  BY <1>1, <1>2, <1>3

\* The reader goes on where it is, or stops.
LEMMA PlaceStays ==
  ASSUME PlaceInv, pc \notin {"thrown", "put_missing"}, in_comment' = in_comment,
         pc' \in {pc, "idle", "thrown"}, Current'.type = Current.type
  PROVE  PlaceInv'
<1>1. CASE pc' = pc
  BY <1>1 DEF PlaceInv
<1>2. CASE pc' \in {"idle", "thrown"}
  BY <1>2 DEF PlaceInv
<1> QED
  BY <1>1, <1>2

\* reader_read resumes where the innermost context says.
LEMMA ReadArena ==
  ASSUME CloseInv, ArenaInv, Read
  PROVE  ArenaInv'
<1>1. /\ pc = "idle" /\ pc' = Entry /\ UNCHANGED tree /\ missing' = missing
      /\ in_comment' = in_comment
  BY DEF Read
<1>2. StackInv' /\ TreeInv'
  BY <1>1, SameMemory DEF ArenaInv
<1>3. open' = open /\ Current' = Current
  BY <1>1 DEF tree, Current
<1>4. PlaceInv'
  <2>1. CASE in_comment
    <3>1. in_comment' = TRUE /\ pc' = "comment" /\ Current'.type = "AST_LIST"
      BY <1>1, <1>3, <2>1 DEF ArenaInv, PlaceInv, Entry
    <3> QED
      BY <3>1 DEF PlaceInv
  <2>2. CASE ~in_comment
    <3>1. in_comment' = FALSE
      BY <1>1, <2>2 DEF ArenaInv, PlaceInv
    <3>2. pc' = Resume(open')
      BY <1>1, <1>3, <2>2 DEF Entry
    <3>3. Current'.type \in Types
      BY <1>3, NestedLast DEF CloseInv, NestInv, Current
    <3> QED
      BY <3>1, <3>2, <3>3, PlaceResumed
  <2> QED
    BY <2>1, <2>2
<1> QED
  BY <1>2, <1>4 DEF ArenaInv

\* What stands where the reader reads.
LEMMA ReadingPlain ==
  ASSUME CloseInv, ArenaInv, pc \in Reading
  PROVE  /\ Plain /\ PlaceInv
         /\ pc = "symbol_context"  => Current.type = "AST_SYMBOL" /\ in_comment = FALSE
         /\ pc = "integer_context" => Current.type = "AST_INTEGER" /\ in_comment = FALSE
         /\ Current.type # "AST_LIST" => Len(open) > 1
<1>1. pc # "thrown" /\ missing.mark = NULL
  BY DEF Reading, CloseInv, MissingInv
<1>2. Plain /\ PlaceInv
  BY <1>1 DEF ArenaInv, Plain
<1>3. /\ pc = "symbol_context"  => Current.type = "AST_SYMBOL"
      /\ pc = "integer_context" => Current.type = "AST_INTEGER"
      /\ Nested(open)
  BY DEF CloseInv, NestInv
<1>4. Current.type # "AST_LIST" => in_comment = FALSE
  BY <1>1 DEF ArenaInv, PlaceInv
<1>5. Current.type # "AST_LIST" => Len(open) > 1
  BY <1>3, NestedLast DEF Current
<1> QED
  BY <1>2, <1>3, <1>4, <1>5

\* reader_read returns without a cell.
LEMMA NoCellArena ==
  ASSUME Plain, PlaceInv, pc # "put_missing", missing' = missing, in_comment' = in_comment, NoCell
  PROVE  ArenaInv'
<1>1. StackInv' /\ TreeInv' /\ pc' \in {"idle", "thrown"} /\ open' = open
  BY NoCellMemory
<1>2. Current'.type = Current.type /\ pc # "thrown"
  BY <1>1 DEF Current, Plain
<1>3. PlaceInv'
  BY <1>1, <1>2, PlaceStays
<1> QED
  BY <1>1, <1>3 DEF ArenaInv

\* The memory as it was, and the reader where it was.
LEMMA StaysArena ==
  ASSUME Plain, PlaceInv, pc # "put_missing", missing' = missing, in_comment' = in_comment,
         UNCHANGED tree, pc' \in {pc, "idle", "thrown"}
  PROVE  ArenaInv'
<1>1. StackInv' /\ TreeInv'
  <2>1. StackInv /\ TreeInv /\ missing'.mark = missing.mark /\ (pc = "thrown" => pc' = "thrown")
    BY DEF Plain
  <2> QED
    BY <2>1, SameMemory
<1>2. Current'.type = Current.type /\ pc # "thrown"
  BY DEF Current, tree, Plain
<1>3. PlaceInv'
  BY <1>2, PlaceStays
<1> QED
  BY <1>1, <1>3 DEF ArenaInv

\* The comment of a list.
LEMMA CommentArena ==
  ASSUME CloseInv, ArenaInv, Comment
  PROVE  ArenaInv'
<1>1. pc \in {"comment", "cell_comment"} /\ missing' = missing
  BY DEF Comment, output
<1>2. Plain /\ PlaceInv /\ pc # "put_missing" /\ pc # "thrown"
  BY <1>1, ReadingPlain DEF Reading
<1>3. in_comment = TRUE /\ Current.type = "AST_LIST"
  BY <1>1, <1>2 DEF PlaceInv
<1>4. CASE in_comment' = in_comment /\ Return("read", FALSE) /\ UNCHANGED tree
  BY <1>1, <1>2, <1>4, StaysArena DEF Return
<1>5. CASE in_comment' = in_comment /\ NoCell
  BY <1>1, <1>2, <1>5, NoCellArena
<1>6. ASSUME NEW c, in_comment' = (c # "\n"), Go(IF c = "\n" THEN "next_non_ws" ELSE pc),
             UNCHANGED tree
      PROVE  ArenaInv'
  <2>1. CASE c = "\n"
    <3>1. in_comment' = FALSE /\ pc' = "next_non_ws" /\ Current'.type = "AST_LIST"
      BY <1>3, <1>6, <2>1 DEF Go, Current, tree
    <3>2. PlaceInv'
      BY <3>1, PlaceResumed
    <3>3. StackInv /\ TreeInv /\ missing'.mark = missing.mark
      BY <1>1, <1>2 DEF Plain
    <3>4. StackInv' /\ TreeInv'
      BY <1>2, <1>6, <3>3, SameMemory
    <3> QED
      BY <3>2, <3>4 DEF ArenaInv
  <2>2. CASE c # "\n"
    <3>1. in_comment' = in_comment /\ pc' = pc
      BY <1>3, <1>6, <2>2 DEF Go
    <3> QED
      BY <1>1, <1>2, <1>6, <3>1, StaysArena
  <2> QED
    BY <2>1, <2>2
<1> QED
  BY <1>1, <1>4, <1>5, <1>6 DEF Comment

LEMMA NextNonWsArena ==
  ASSUME CloseInv, ArenaInv, NextNonWs
  PROVE  ArenaInv'
<1>1. pc = "next_non_ws" /\ missing' = missing /\ in_comment' = in_comment
  BY DEF NextNonWs, output
<1>2. Plain /\ PlaceInv /\ pc # "put_missing"
  BY <1>1, ReadingPlain DEF Reading
<1>3. in_comment' = FALSE /\ Current.type = "AST_LIST"
  BY <1>1, <1>2 DEF PlaceInv
<1>4. CASE NoCell
  BY <1>1, <1>2, <1>4, NoCellArena
<1>5. CASE UNCHANGED tree /\ pc' \in {pc, "thrown"}
  BY <1>1, <1>2, <1>5, StaysArena
<1>6. CASE UNCHANGED tree /\ pc' = "next_cell"
  <2>1. StackInv' /\ TreeInv'
    <3>1. StackInv /\ TreeInv /\ missing'.mark = missing.mark /\ pc # "thrown"
      BY <1>1, <1>2 DEF Plain
    <3> QED
      BY <1>6, <3>1, SameMemory
  <2>2. Current'.type = "AST_LIST"
    BY <1>3, <1>6 DEF Current, tree
  <2>3. PlaceInv'
    BY <1>3, <1>6, <2>2 DEF PlaceInv
  <2> QED
    BY <2>1, <2>3 DEF ArenaInv
<1>7. NoCell \/ (UNCHANGED tree /\ pc' \in {pc, "thrown", "next_cell"})
  <2>1. CASE MayStall /\ NoCell
    BY <2>1
  <2>2. ASSUME NEW c \in Getc, UNCHANGED <<tree, locals>>,
               \/ c \in Whitespace /\ Take(c, <<>>) /\ Go(pc)
               \/ /\ c \notin Whitespace
                  /\ Take(c, <<c>>)
                  /\ lassert(UngetFits(<<c>>), "READER_STATE_ERROR", "next_cell")
        PROVE  UNCHANGED tree /\ pc' \in {pc, "thrown", "next_cell"}
    <3>1. pc' \in {pc, "thrown", "next_cell"}
      BY <2>2 DEF Go, Throw, lassert
    <3> QED
      BY <2>2, <3>1
  <2> QED
    BY <2>1, <2>2 DEF NextNonWs
<1> QED
  BY <1>4, <1>5, <1>6, <1>7

\* A cell begins.
LEMMA EnterArena ==
  ASSUME Plain, Current.type = "AST_LIST", missing' = missing, in_comment' = FALSE,
         NEW type \in Types, NEW prefix \in AstPrefixes, Enter(type, prefix)
  PROVE  ArenaInv'
<1>1. /\ StackInv' /\ TreeInv'
      /\ \/ pc' = "thrown"
         \/ pc' = Resume(open') /\ Current'.type = type
  BY EnterMemory
<1>2. PlaceInv'
  BY <1>1, PlaceResumed
<1> QED
  BY <1>1, <1>2 DEF ArenaInv

\* The same, when the character was put back.
LEMMA EnterWithArena ==
  ASSUME Plain, PlaceInv, Current.type = "AST_LIST", pc # "put_missing", missing' = missing,
         in_comment = FALSE, in_comment' = FALSE,
         NEW type \in Types, NEW prefix \in AstPrefixes, NEW fits,
         IF fits THEN Enter(type, prefix)
                 ELSE Throw("READER_STATE_ERROR") /\ UNCHANGED <<tree, locals>>
  PROVE  ArenaInv'
<1>1. CASE fits
  <2>1. Enter(type, prefix)
    BY <1>1
  <2> QED
    BY <2>1, EnterArena
<1>2. CASE ~fits
  <2>1. UNCHANGED tree /\ pc' = "thrown"
    BY <1>2 DEF Throw
  <2> QED
    BY <2>1, StaysArena
<1> QED
  BY <1>1, <1>2

\* The first character of a cell, one after a prefix, or the end of a list.
LEMMA NextCellCharArena ==
  ASSUME StreamInv, CloseInv, ArenaInv, pc = "next_cell", missing' = missing,
         NEW c, NextCellChar(c)
  PROVE  ArenaInv'
<1>1. Plain /\ PlaceInv /\ pc # "put_missing" /\ pc # "thrown"
  BY ReadingPlain DEF Reading
<1>2. in_comment = FALSE /\ Current.type = "AST_LIST"
  BY <1>1 DEF PlaceInv
<1>3. /\ "AST_SYMBOL" \in Types /\ "AST_LIST" \in Types /\ "AST_INTEGER" \in Types
      /\ "AST_DOUBLEQUOTE" \in AstPrefixes /\ "AST_NOPREFIX" \in AstPrefixes
      /\ asttype \in AstPrefixes
  BY DEF Types, AstPrefixes, StreamInv, StreamType
<1>4. CASE Enter("AST_SYMBOL", "AST_DOUBLEQUOTE") /\ UNCHANGED in_comment
  BY <1>1, <1>2, <1>3, <1>4, EnterArena
<1>5. CASE Enter("AST_LIST", asttype) /\ UNCHANGED in_comment
  BY <1>1, <1>2, <1>3, <1>5, EnterArena
<1>6. CASE EnterBare(c) /\ UNCHANGED in_comment
  <2>1. IF UngetFits(Bare(c)) THEN Enter("AST_SYMBOL", "AST_NOPREFIX")
          ELSE Throw("READER_STATE_ERROR") /\ UNCHANGED <<tree, locals>>
    BY <1>6 DEF EnterBare
  <2> QED
    BY <1>1, <1>2, <1>3, <1>6, <2>1, EnterWithArena
<1>7. ASSUME NEW type \in Types, EnterWith(c, type), UNCHANGED in_comment
      PROVE  ArenaInv'
  <2>1. IF UngetFits(<<c>>) THEN Enter(type, asttype)
          ELSE Throw("READER_STATE_ERROR") /\ UNCHANGED <<tree, locals>>
    BY <1>7 DEF EnterWith
  <2> QED
    BY <1>1, <1>2, <1>3, <1>7, <2>1, EnterWithArena
<1>8. CASE UNCHANGED <<tree, in_comment>> /\ pc' \in {pc, "thrown"}
  BY <1>1, <1>8, StaysArena
<1>9. CASE in_comment' = TRUE /\ pc' = "cell_comment" /\ UNCHANGED tree
  <2>1. StackInv' /\ TreeInv'
    <3>1. StackInv /\ TreeInv /\ missing'.mark = missing.mark
      BY <1>1 DEF Plain
    <3> QED
      BY <1>1, <1>9, <3>1, SameMemory
  <2>2. Current'.type = "AST_LIST"
    BY <1>2, <1>9 DEF Current, tree
  <2>3. PlaceInv'
    BY <1>9, <2>2 DEF PlaceInv
  <2> QED
    BY <2>1, <2>3 DEF ArenaInv
<1>10. CASE Len(open) > 1 /\ Leave(bs) /\ UNCHANGED in_comment
  <2>1. Current.type # "AST_SYMBOL"
    BY <1>2
  <2>2. StackInv' /\ TreeInv' /\ pc' = "next_non_ws" /\ Current'.type = "AST_LIST"
    BY <1>1, <1>10, <2>1, LeaveNowMemory DEF Go
  <2>3. PlaceInv'
    BY <1>2, <1>10, <2>2, PlaceResumed
  <2> QED
    BY <2>2, <2>3 DEF ArenaInv
<1>11. CASE c \in PrefixChars /\ Go(pc) /\ UNCHANGED <<tree, value, in_comment>>
  BY <1>8, <1>11 DEF Go
<1>12. CASE Go("cell_comment") /\ in_comment' = TRUE /\ UNCHANGED <<tree, locals>>
  BY <1>9, <1>12 DEF Go
<1>13. ASSUME NEW err, Throw(err), UNCHANGED <<tree, locals, in_comment>>
       PROVE  ArenaInv'
  BY <1>8, <1>13 DEF Throw
<1> QED
  BY <1>3, <1>4, <1>5, <1>6, <1>7, <1>10, <1>11, <1>12, <1>13 DEF NextCellChar

LEMMA NextCellArena ==
  ASSUME StreamInv, CloseInv, ArenaInv, NextCell
  PROVE  ArenaInv'
<1>1. pc = "next_cell" /\ missing' = missing
  BY DEF NextCell, output
<1>2. Plain /\ PlaceInv /\ pc # "put_missing"
  BY <1>1, ReadingPlain DEF Reading
<1>3. CASE NoCell /\ UNCHANGED in_comment
  BY <1>1, <1>2, <1>3, NoCellArena
<1>4. CASE Throw("READER_STATE_ERROR") /\ UNCHANGED <<tree, locals, in_comment>>
  BY <1>1, <1>2, <1>4, StaysArena DEF Throw
<1>5. ASSUME NEW c, NextCellChar(c) PROVE ArenaInv'
  BY <1>1, <1>5, NextCellCharArena
<1> QED
  BY <1>3, <1>4, <1>5 DEF NextCell

LEMMA SymbolContextArena ==
  ASSUME StreamInv, CloseInv, ArenaInv, SymbolContext
  PROVE  ArenaInv'
<1>1. pc = "symbol_context" /\ missing' = missing /\ in_comment' = in_comment
  BY DEF SymbolContext, output
<1>2. /\ Plain /\ PlaceInv /\ pc # "put_missing" /\ pc # "thrown" /\ in_comment = FALSE
      /\ Current.type = "AST_SYMBOL" /\ Len(open) > 1
  BY <1>1, ReadingPlain DEF Reading
<1>3. CASE UNCHANGED tree /\ pc' \in {pc, "idle", "thrown"}
  BY <1>1, <1>2, <1>3, StaysArena
<1>4. ASSUME StackInv', TreeInv', pc' \in {pc, "thrown"}, pc' = pc => Current'.type = Current.type
      PROVE  ArenaInv'
  <2>1. CASE pc' = pc
    BY <1>1, <1>2, <1>4, <2>1, PlaceStays DEF ArenaInv
  <2>2. CASE pc' = "thrown"
    BY <1>1, <1>2, <1>4, <2>2, PlaceResumed DEF ArenaInv
  <2> QED
    BY <1>4, <2>1, <2>2
<1>5. ASSUME NEW c \in Chars, Keep(c) PROVE ArenaInv'
  <2>1. /\ StackInv' /\ TreeInv'
        /\ \/ pc' = "thrown"
           \/ pc' = pc /\ Current'.type = Current.type
    BY <1>1, <1>2, <1>5, KeepMemory
  <2> QED
    BY <1>2, <1>4, <2>1
<1>6. ASSUME SetEscaped(TRUE), Go(pc), UNCHANGED <<bs, cells>> PROVE ArenaInv'
  <2>1. Tree(bs.fptr, open, cells')
    BY <1>2, <1>6, PlainStack
  <2>2. StackInv' /\ TreeInv' /\ Current'.type = Current.type
    BY <1>1, <1>2, <1>6, <2>1, EscapedMemory
  <2> QED
    BY <1>4, <1>6, <2>2 DEF Go
<1>7. CASE FinishSymbol
  <2>1. /\ StackInv' /\ TreeInv'
        /\ \/ pc' = "thrown"
           \/ pc' = "next_non_ws" /\ Current'.type = "AST_LIST"
    BY <1>1, <1>2, <1>7, FinishSymbolMemory DEF Go, Throw
  <2>2. PlaceInv'
    BY <1>1, <1>2, <2>1, PlaceResumed
  <2> QED
    BY <2>1, <2>2 DEF ArenaInv
<1>8. ASSUME NEW c \in Getc, SymbolChar(c) PROVE ArenaInv'
  <2>1. c \in Chars
    BY GetcChars DEF StreamInv
  <2>2. CASE Throw("READER_STATE_ERROR") /\ UNCHANGED <<tree, locals>>
    BY <1>3, <2>2 DEF Throw
  <2>3. CASE Go(pc) /\ UNCHANGED <<tree, locals>>
    BY <1>3, <2>3 DEF Go
  <2> QED
    BY <1>5, <1>6, <1>7, <1>8, <2>1, <2>2, <2>3 DEF SymbolChar
<1>9. CASE Return("read", FALSE) /\ UNCHANGED <<tree, stream>>
  BY <1>3, <1>9 DEF Return
<1> QED
  BY <1>8, <1>9 DEF SymbolContext

\* What the reader counts fits its 16 bits.
ValueInv == value \in 0 .. ValueModulus - 1

\* The widths of a number, and what is left of one that has more.
LEMMA IntegerFits ==
  /\ IntegerModulus \in Nat \ {0} /\ ValueModulus \in Nat \ {0}
  /\ IntegerModulus <= ValueModulus
  /\ \A n \in Nat : n % IntegerModulus \in 0 .. IntegerModulus - 1
  /\ \A n \in Nat : n % ValueModulus \in 0 .. ValueModulus - 1
<1>1. PICK m \in Nat \ {0}, n \in Nat \ {0} : m = IntegerModulus /\ n = ValueModulus
  <2>1. 13 \in Nat /\ 16 \in Nat
    OBVIOUS
  <2>2. 2 ^ 13 \in Nat \ {0} /\ 2 ^ 16 \in Nat \ {0}
    BY <2>1, PowerOfTwo
  <2> QED
    BY <2>2 DEF IntegerModulus, ValueModulus
<1>2. m <= n
  <2>1. /\ IsFiniteSet(SUBSET (1 .. 13)) /\ Cardinality(SUBSET (1 .. 13)) = m
        /\ IsFiniteSet(SUBSET (1 .. 16)) /\ Cardinality(SUBSET (1 .. 16)) = n
    <3>1. 13 \in Nat /\ 16 \in Nat
      OBVIOUS
    <3>2. /\ IsFiniteSet(SUBSET (1 .. 13)) /\ Cardinality(SUBSET (1 .. 13)) = 2 ^ 13
          /\ IsFiniteSet(SUBSET (1 .. 16)) /\ Cardinality(SUBSET (1 .. 16)) = 2 ^ 16
      BY <3>1, SubsetsOf
    <3> QED
      BY <1>1, <3>2 DEF IntegerModulus, ValueModulus
  <2>2. SUBSET (1 .. 13) \subseteq SUBSET (1 .. 16)
    OBVIOUS
  <2> QED
    BY <2>1, <2>2, FS_Subset
<1>3. \A k \in Nat : k % m \in 0 .. m - 1 /\ k % n \in 0 .. n - 1
  OBVIOUS
<1> QED
  BY <1>1, <1>2, <1>3

LEMMA CountedValue ==
  ASSUME ValueInv, NEW c \in Digits
  PROVE  (value * 10 + DigitValue[c]) % ValueModulus \in 0 .. ValueModulus - 1
<1>1. DigitValue[c] \in 0 .. 9
  BY DEF DigitValue, Digits
<1>2. PICK m \in Nat \ {0} : m = ValueModulus
  BY IntegerFits
<1>3. value \in Nat
  BY <1>2 DEF ValueInv
<1>4. value * 10 + DigitValue[c] \in Nat
  BY <1>1, <1>3
<1> QED
  BY <1>4, IntegerFits

LEMMA IntegerContextArena ==
  ASSUME StreamInv, CloseInv, ArenaInv, ValueInv, IntegerContext
  PROVE  ArenaInv'
<1>1. pc = "integer_context" /\ missing' = missing /\ in_comment' = in_comment
  BY DEF IntegerContext, output
<1>2. /\ Plain /\ PlaceInv /\ pc # "put_missing" /\ pc # "thrown" /\ in_comment = FALSE
      /\ Current.type = "AST_INTEGER" /\ Len(open) > 1
  BY <1>1, ReadingPlain DEF Reading
<1>3. CASE UNCHANGED tree /\ pc' \in {pc, "idle", "thrown"}
  BY <1>1, <1>2, <1>3, StaysArena
<1>4. ASSUME Go(pc), UNCHANGED <<bs, open>>,
             \/ \E v \in {0, 1} : SetHeader("sign", v)
             \/ \E v \in 0 .. IntegerModulus - 1 : SetHeader("value", v)
      PROVE  ArenaInv'
  <2>1. StackInv' /\ TreeInv' /\ Current'.type = Current.type
    BY <1>1, <1>2, <1>4, IntegerMemory
  <2>2. pc' = pc
    BY <1>4 DEF Go
  <2> QED
    BY <1>1, <1>2, <2>1, <2>2, PlaceStays DEF ArenaInv
<1>5. CASE Leave(bs)
  <2>1. StackInv' /\ TreeInv' /\ pc' = "next_non_ws" /\ Current'.type = "AST_LIST"
    <3>1. Current.type # "AST_SYMBOL"
      BY <1>2
    <3> QED
      BY <1>1, <1>2, <1>5, <3>1, LeaveNowMemory DEF Go
  <2>2. PlaceInv'
    BY <1>1, <1>2, <2>1, PlaceResumed
  <2> QED
    BY <2>1, <2>2 DEF ArenaInv
<1>6. ASSUME NEW c \in Getc, IntegerChar(c) PROVE ArenaInv'
  <2>1. CASE /\ SetHeader("sign", IF c = "-" THEN 0 ELSE 1) /\ Go(pc)
             /\ UNCHANGED <<bs, open, locals>>
    <3>1. \E v \in {0, 1} : SetHeader("sign", v)
      BY <2>1
    <3> QED
      BY <1>4, <2>1, <3>1
  <2>2. CASE /\ c \in Digits
             /\ value' = (value * 10 + DigitValue[c]) % ValueModulus
             /\ SetHeader("value", value' % IntegerModulus) /\ Go(pc)
             /\ UNCHANGED <<bs, open, asttype, chars_read>>
    <3>1. \E v \in 0 .. IntegerModulus - 1 : SetHeader("value", v)
      <4>1. PICK v : v = value' % IntegerModulus
        OBVIOUS
      <4>2. v \in 0 .. IntegerModulus - 1
        <5>1. PICK n : n = value'
          OBVIOUS
        <5>2. n \in 0 .. ValueModulus - 1
          BY <2>2, <5>1, CountedValue
        <5>3. n \in Nat
          BY <5>2, IntegerFits
        <5> QED
          BY <4>1, <5>1, <5>3, IntegerFits
      <4>3. SetHeader("value", v)
        BY <2>2, <4>1
      <4> QED
        BY <4>2, <4>3
    <3> QED
      BY <1>4, <2>2, <3>1
  <2>3. CASE Throw("READER_STATE_ERROR") /\ UNCHANGED <<tree, locals>>
    BY <1>3, <2>3 DEF Throw
  <2> QED
    BY <1>5, <1>6, <2>1, <2>2, <2>3 DEF IntegerChar
<1>7. CASE Return("read", FALSE) /\ UNCHANGED <<tree, stream>>
  BY <1>3, <1>7 DEF Return
<1> QED
  BY <1>6, <1>7 DEF IntegerContext

\* The calls of put_missing, and an error, leave the reader where no cell is.
LEMMA PutMissingArena ==
  ASSUME ArenaInv, PutMissing
  PROVE  ArenaInv'
<1>1. pc = "idle" /\ in_comment' = in_comment /\ open' = open
  BY DEF PutMissing
<1>2. /\ StackInv' /\ TreeInv'
      /\ pc' = "put_missing" => missing'.mark # NULL
  BY <1>1, PutMissingMemory DEF ArenaInv
<1>3. pc' \in {"idle", "put_missing", "thrown"}
  BY <1>1 DEF PutMissing, Return
<1>4. in_comment \in BOOLEAN /\ (in_comment => Current.type = "AST_LIST")
  BY <1>1 DEF ArenaInv, PlaceInv
<1>5. Current' = Current
  BY <1>1 DEF Current
<1>6. PlaceInv'
  BY <1>1, <1>2, <1>3, <1>4, <1>5 DEF PlaceInv
<1> QED
  BY <1>2, <1>6 DEF ArenaInv

LEMMA PutcArena ==
  ASSUME CloseInv, ArenaInv, Putc
  PROVE  ArenaInv'
<1>1. pc = "put_missing" /\ in_comment' = in_comment /\ open' = open
  BY DEF Putc, tree
<1>2. missing.mark # NULL
  BY <1>1 DEF ArenaInv, PlaceInv
<1>3. StackInv' /\ TreeInv' /\ pc' \in {"idle", "put_missing"} /\ missing'.mark # NULL
  BY <1>2, PutcMemory DEF ArenaInv
<1>4. in_comment \in BOOLEAN /\ (in_comment => Current.type = "AST_LIST")
  BY <1>1 DEF ArenaInv, PlaceInv
<1>5. Current' = Current
  BY <1>1 DEF Current
<1>6. PlaceInv'
  BY <1>1, <1>3, <1>4, <1>5 DEF PlaceInv
<1> QED
  BY <1>3, <1>6 DEF ArenaInv

LEMMA PutDoneArena ==
  ASSUME ArenaInv, PutDone
  PROVE  ArenaInv'
<1>1. pc = "put_missing" /\ in_comment' = in_comment /\ open' = open
  BY DEF PutDone
<1>2. missing.mark # NULL
  BY <1>1 DEF ArenaInv, PlaceInv
<1>3. StackInv' /\ TreeInv' /\ pc' = "idle"
  BY <1>2, PutDoneMemory DEF ArenaInv
<1>4. in_comment \in BOOLEAN /\ (in_comment => Current.type = "AST_LIST")
  BY <1>1 DEF ArenaInv, PlaceInv
<1>5. Current' = Current
  BY <1>1 DEF Current
<1>6. PlaceInv'
  BY <1>1, <1>3, <1>4, <1>5 DEF PlaceInv
<1> QED
  BY <1>3, <1>6 DEF ArenaInv

LEMMA RecoverArena ==
  ASSUME ArenaInv, Recover
  PROVE  ArenaInv'
<1>1. StackInv' /\ TreeInv' /\ pc' \in {"idle", "thrown"}
  BY RecoverMemory DEF ArenaInv
<1>2. in_comment' = FALSE
  BY DEF Recover
<1>3. PlaceInv'
  BY <1>1, <1>2, PlaceResumed
<1> QED
  BY <1>1, <1>3 DEF ArenaInv

LEMMA StutterArena ==
  ASSUME ArenaInv, UNCHANGED vars
  PROVE  ArenaInv'
<1>1. /\ bs' = bs /\ open' = open /\ cells' = cells /\ pc' = pc /\ missing' = missing
      /\ in_comment' = in_comment
  BY DEF vars, tree, output
<1>2. Current' = Current
  BY <1>1 DEF Current
<1> QED
  BY <1>1, <1>2 DEF ArenaInv, StackInv, TreeInv, PlaceInv

\* The count.
LEMMA NoCellValue ==
  ASSUME NoCell
  PROVE  value' \in {value, 0}
BY DEF NoCell, Return, ClearLocals, locals

LEMMA EnterValue ==
  ASSUME NEW type, NEW prefix, Enter(type, prefix)
  PROVE  value' \in {value, 0}
BY DEF Enter, ClearLocals, locals

LEMMA LeaveValue ==
  ASSUME NEW b, Leave(b)
  PROVE  value' \in {value, 0}
BY DEF Leave, ClearLocals

LEMMA CommentValue ==
  ASSUME Comment
  PROVE  value' \in {value, 0}
<1>1. CASE NoCell
  BY <1>1, NoCellValue
<1>2. CASE Return("read", FALSE)
  BY <1>2 DEF Return, ClearLocals
<1>3. CASE UNCHANGED locals
  BY <1>3 DEF locals
<1> QED
  BY <1>1, <1>2, <1>3 DEF Comment

LEMMA NextNonWsValue ==
  ASSUME NextNonWs
  PROVE  value' \in {value, 0}
<1>1. CASE NoCell
  BY <1>1, NoCellValue
<1>2. CASE UNCHANGED locals
  BY <1>2 DEF locals
<1> QED
  BY <1>1, <1>2 DEF NextNonWs

LEMMA NextCellValue ==
  ASSUME NextCell
  PROVE  value' \in {value, 0}
<1>1. CASE NoCell
  BY <1>1, NoCellValue
<1>2. CASE UNCHANGED locals
  BY <1>2 DEF locals
<1>3. ASSUME NEW c, NextCellChar(c) PROVE value' \in {value, 0}
  <2>1. CASE \E type, prefix : Enter(type, prefix)
    BY <2>1, EnterValue
  <2>2. CASE Leave(bs)
    BY <2>2, LeaveValue
  <2>3. CASE UNCHANGED value
    BY <2>3
  <2> QED
    BY <1>2, <1>3, <2>1, <2>2, <2>3 DEF NextCellChar, EnterWith, EnterBare
<1> QED
  BY <1>1, <1>2, <1>3 DEF NextCell

LEMMA SymbolContextValue ==
  ASSUME SymbolContext
  PROVE  value' \in {value, 0}
<1>1. CASE \E b : Leave(b)
  BY <1>1, LeaveValue
<1>2. CASE UNCHANGED locals
  BY <1>2 DEF locals
<1>3. CASE Return("read", FALSE)
  BY <1>3 DEF Return, ClearLocals
<1>4. ASSUME NEW c, SymbolChar(c) PROVE value' \in {value, 0}
  <2>1. CASE Keep(c)
    BY <1>2, <2>1 DEF Keep
  <2>2. CASE FinishSymbol
    BY <1>1, <1>2, <2>2 DEF FinishSymbol
  <2> QED
    BY <1>2, <1>4, <2>1, <2>2 DEF SymbolChar
<1> QED
  BY <1>3, <1>4 DEF SymbolContext

LEMMA IntegerContextValue ==
  ASSUME ValueInv, IntegerContext
  PROVE  ValueInv' \/ value' = 0
<1>1. CASE Leave(bs)
  BY <1>1, LeaveValue DEF ValueInv
<1>2. CASE UNCHANGED locals
  BY <1>2 DEF locals, ValueInv
<1>3. CASE Return("read", FALSE)
  BY <1>3 DEF Return, ClearLocals
<1>4. ASSUME NEW c \in Digits, value' = (value * 10 + DigitValue[c]) % ValueModulus
      PROVE  ValueInv'
  BY <1>4, CountedValue DEF ValueInv
<1>5. ASSUME NEW c, IntegerChar(c) PROVE ValueInv' \/ value' = 0
  BY <1>1, <1>2, <1>4, <1>5 DEF IntegerChar
<1> QED
  BY <1>3, <1>5 DEF IntegerContext

LEMMA PutValue ==
  ASSUME PutMissing \/ Putc \/ PutDone \/ Recover
  PROVE  value' \in {value, 0}
<1>1. CASE PutMissing
  BY <1>1 DEF PutMissing, Return, ClearLocals, locals
<1>2. CASE Putc
  BY <1>2 DEF Putc, Return, ClearLocals, locals
<1>3. CASE PutDone
  BY <1>3 DEF PutDone, Return, ClearLocals, locals
<1>4. CASE Recover
  BY <1>4 DEF Recover, ClearLocals
<1> QED
  BY <1>1, <1>2, <1>3, <1>4

LEMMA ReadValue ==
  ASSUME CloseInv, ArenaInv, Read
  PROVE  ValueInv'
<1>1. pc = "idle" /\ missing.mark = NULL /\ value' = Header.value
  BY DEF Read, SavedValue
<1>2. Plain
  BY <1>1 DEF ArenaInv, Plain
<1>3. Header.value \in 0 .. IntegerModulus - 1
  BY <1>2, AtomCell DEF Cells
<1> QED
  <2>1. PICK v : v = value'
    OBVIOUS
  <2>2. PICK m \in Nat, n \in Nat : m = IntegerModulus /\ n = ValueModulus /\ m <= n
    BY IntegerFits
  <2>3. v \in 0 .. m - 1
    BY <1>1, <1>3, <2>1, <2>2
  <2>4. v \in 0 .. n - 1
    BY <2>2, <2>3
  <2> QED
    BY <2>1, <2>2, <2>4 DEF ValueInv, ValueModulus

\* The four invariants together.
ReaderInv == StreamInv /\ CloseInv /\ ArenaInv /\ ValueInv

LEMMA ReaderInit ==
  ASSUME Init
  PROVE  ReaderInv
<1>1. value = 0
  BY DEF Init, InitOn
<1> QED
  BY <1>1, InitStream, InitClose, InitArena, IntegerFits DEF ReaderInv, ValueInv

LEMMA ReaderStep ==
  ASSUME ReaderInv, [Next]_vars
  PROVE  ReaderInv'
<1>1. StreamInv /\ CloseInv /\ ArenaInv /\ ValueInv
  BY DEF ReaderInv
<1>2. StreamInv'
  BY <1>1, ReadStream, CommentStream, NextNonWsStream, NextCellStream, SymbolContextStream,
     IntegerContextStream, PutStream, RecoverStream, StutterStream DEF Next, Work
<1>3. CloseInv'
  BY <1>1, ReadClose, CommentClose, NextNonWsClose, NextCellClose, SymbolContextClose,
     IntegerContextClose, PutMissingClose, PutcClose, PutDoneClose, RecoverClose,
     StutterClose DEF Next, Work
<1>4. ArenaInv'
  BY <1>1, ReadArena, CommentArena, NextNonWsArena, NextCellArena, SymbolContextArena,
     IntegerContextArena, PutMissingArena, PutcArena, PutDoneArena, RecoverArena,
     StutterArena DEF Next, Work
<1>5. ValueInv'
  <2>1. CASE value' \in {value, 0}
    BY <1>1, <2>1, IntegerFits DEF ValueInv
  <2>2. CASE UNCHANGED vars
    BY <2>1, <2>2 DEF vars, locals
  <2> QED
    BY <1>1, <2>1, <2>2, ReadValue, CommentValue, NextNonWsValue, NextCellValue,
       SymbolContextValue, IntegerContextValue, PutValue DEF Next, Work
<1> QED
  BY <1>2, <1>3, <1>4, <1>5 DEF ReaderInv

-----------------------------------------------------------------------------
(* What the memory says of the tree and of the contexts.                   *)

LEMMA TreeContiguous ==
  ASSUME ArenaInv
  PROVE  CellsContiguous
<1>1. Contexts(open) /\ Tree(bs.fptr, open, cells)
  BY DEF ArenaInv, StackInv, TreeInv
<1>2. PICK n \in Nat \ {0} : n = Len(cells)
  BY <1>1, TreeCells
<1> DEFINE after(i) == cells[i].at + SizeOf["CELLHEADER"] +
             IF cells[i].cell.type = "AST_SYMBOL" /\ ~(InAtom /\ i = Len(cells))
               THEN cells[i].cell.length ELSE 0
<1>3. ASSUME NEW i \in 1 .. n - 1
      PROVE  cells[i + 1].at = after(i)
  <2>1. i # Len(cells)
    BY <1>2
  <2>2. cells[i + 1].at = EndOf(cells[i])
    BY <1>1, <1>2 DEF Tree
  <2> QED
    BY <2>1, <2>2 DEF EndOf
<1>4. bs.fptr = after(n)
  <2>1. bs.fptr = Ending(open, cells)
    BY <1>1 DEF Tree
  <2>2. PICK h \in Nat : h = SizeOf["CELLHEADER"]
    BY SizesAreNat
  <2>3. cells[n] \in CellRecord
    BY <1>1, <1>2 DEF Tree
  <2>4. cells[n].at \in Int
    BY <2>3, SizeIsNat DEF CellRecord
  <2>5. CASE Last(open).type = "AST_SYMBOL"
    <3>1. InAtom
      BY <2>5 DEF InAtom, Current
    <3>2. bs.fptr = cells[n].at + h
      BY <1>2, <2>1, <2>2, <2>5 DEF Ending
    <3>3. after(n) = cells[n].at + h + 0
      BY <1>2, <2>2, <3>1
    <3> QED
      BY <2>2, <2>4, <3>2, <3>3
  <2>6. CASE Last(open).type # "AST_SYMBOL"
    <3>1. bs.fptr = EndOf(cells[n])
      BY <1>2, <2>1, <2>6 DEF Ending
    <3>2. cells[n].cell.type = "AST_SYMBOL" => ~InAtom
      <4>1. Last(open).type # "AST_LIST" => cells[n].cell.type = Last(open).type
        BY <1>1, <1>2, TreeCells DEF Tree
      <4> QED
        BY <2>6, <4>1 DEF InAtom, Current
    <3> QED
      BY <1>2, <3>1, <3>2 DEF EndOf
  <2> QED
    BY <2>5, <2>6
<1> QED
  BY <1>2, <1>3, <1>4 DEF CellsContiguous

LEMMA ChainStacked ==
  ASSUME ArenaInv
  PROVE  ContextsStacked
<1> SUFFICES ASSUME pc # "thrown" PROVE ContextsStacked
  BY DEF ContextsStacked
<1>1. Contexts(open) /\ Chain(bs, open) /\ OnMark(bs, open, missing.mark)
  BY DEF ArenaInv, StackInv
<1>2. \A i \in 1 .. Len(open) - 1 :
        open[i].type = "AST_LIST" /\ open[i + 1].mark = Below(open[i])
  BY <1>1 DEF Contexts, Chain
<1>3. CASE missing.mark = NULL
  BY <1>1, <1>2, <1>3 DEF ContextsStacked, OnMark, OnTop, Current
<1>4. CASE missing.mark # NULL
  BY <1>1, <1>2, <1>4 DEF ContextsStacked, OnMark, Topped, Current
<1> QED
  BY <1>3, <1>4

\* The tree is one block of forward memory, each header directly after the
\* cell before it: whatever the sizes of the structs are, and however the
\* reader is stopped, closed by put_missing, runs out of memory and begins
\* anew.
THEOREM CellsInOneBlock == Spec => []CellsContiguous
<1>1. Init => ReaderInv
  BY ReaderInit
<1>2. ReaderInv /\ [Next]_vars => ReaderInv'
  BY ReaderStep
<1>3. ReaderInv => CellsContiguous
  BY TreeContiguous DEF ReaderInv
<1> QED
  BY <1>1, <1>2, <1>3, PTL DEF Spec

-----------------------------------------------------------------------------
(* The gap between the stacks, and the characters that lie in it.          *)

\* The unfinished symbol was overwritten.
Smudged == Garbage \in Range(Header.text) /\ InAtom

Gap == Below(Current) - bs.fptr

\* The larger of two numbers.
LEMMA MaxOfTwo ==
  ASSUME NEW a \in Int, NEW b \in Int
  PROVE  Max({a, b}) \in Int /\ a <= Max({a, b}) /\ b <= Max({a, b})
<1>1. \E x \in {a, b} : \A y \in {a, b} : x >= y
  <2>1. CASE a <= b
    BY <2>1
  <2>2. CASE b <= a
    BY <2>2
  <2> QED
    BY <2>1, <2>2
<1>2. Max({a, b}) \in {a, b} /\ \A y \in {a, b} : Max({a, b}) >= y
  BY <1>1 DEF Max
<1> QED
  BY <1>2

LEMMA BytesAreNat ==
  ASSUME Contexts(open)
  PROVE  /\ FrameBytes \in Nat /\ PrinterBytes \in Nat
         /\ Max({FrameBytes, PrinterBytes}) \in Int
         /\ FrameBytes <= Max({FrameBytes, PrinterBytes})
         /\ PrinterBytes <= Max({FrameBytes, PrinterBytes})
<1>1. PICK n \in Nat : n = Len(open) - 1
  <2>1. Len(open) \in Nat \ {0}
    BY ContextsLast
  <2> QED
    BY <2>1
<1>2. PICK a \in Nat, b \in Nat, c \in Nat, d \in Nat, e \in Nat, f \in Nat, p \in Nat :
        /\ a = SizeOf["PUT_MISSING_CONTEXT"] /\ b = SizeOf["LIST"] /\ c = SizeOf["FRAME"]
        /\ d = SizeOf["LIST_NODE"] /\ e = SizeOf["PPRINT_CONTEXT"] /\ f = SizeOf["PPRINT_FRAME"]
        /\ p = PTR
  BY SizesAreNat
<1>3. FrameBytes = p + a + b + n * (c + d) /\ PrinterBytes = p + e + b + f + d
  BY <1>1, <1>2 DEF FrameBytes, PrinterBytes
<1>4. p + a + b + n * (c + d) \in Nat /\ p + e + b + f + d \in Nat
  <2>1. n * (c + d) \in Nat
    OBVIOUS
  <2> QED
    BY <2>1
<1> QED
  BY <1>3, <1>4, MaxOfTwo

\* Only a symbol is ever overwritten.
LEMMA GarbageSymbol ==
  ASSUME NEW f, NEW o, Contexts(o), NEW cs, Tree(f, o, cs),
         NEW c, c = cs[Last(o).cell].cell, Garbage \in Range(c.text)
  PROVE  /\ Last(o).type = "AST_SYMBOL"
         /\ c \in Cells /\ Len(c.text) = c.length /\ c.length <= MaxSymbol
<1>1. Last(o).cell \in 1 .. Len(cs) /\ c.type = Last(o).type
  BY TreeCells
<1>2. c \in Cells /\ TextFits(c)
  BY <1>1, TreeCells DEF Tree, CellRecord
<1>3. c.type = "AST_SYMBOL"
  <2> SUFFICES ASSUME c.type # "AST_SYMBOL" PROVE FALSE
    OBVIOUS
  <2>1. c.text = <<>>
    BY <1>2 DEF TextFits
  <2>2. Range(c.text) = {}
    BY <2>1 DEF Range
  <2> QED
    BY <2>2
<1> QED
  BY <1>1, <1>2, <1>3 DEF TextFits

LEMMA SmudgedSymbol ==
  ASSUME ArenaInv, Smudged
  PROVE  /\ Current.type = "AST_SYMBOL"
         /\ Header \in Cells /\ Len(Header.text) = Header.length /\ Header.length <= MaxSymbol
<1>1. Contexts(open) /\ Tree(bs.fptr, open, cells) /\ Garbage \in Range(Header.text)
  BY DEF ArenaInv, StackInv, TreeInv, Smudged
<1>2. Header = cells[Last(open).cell].cell
  BY DEF Header, Current
<1> QED
  BY <1>1, <1>2, GarbageSymbol DEF Current

\* A step that overwrites nothing, and does not widen the gap.
Clean ==
  Smudged' => Smudged /\ Gap' = Gap /\ Len(open') = Len(open)

LEMMA SameClean ==
  ASSUME ArenaInv, ArenaInv', UNCHANGED <<open, cells>>
  PROVE  Clean
<1>1. bs.fptr = Ending(open, cells) /\ bs'.fptr = Ending(open', cells')
  BY DEF ArenaInv, TreeInv, Tree
<1>2. bs'.fptr = bs.fptr
  BY <1>1
<1> QED
  BY <1>2 DEF Clean, Smudged, Gap, Header, InAtom, Current

LEMMA TypeClean ==
  ASSUME ArenaInv', Current'.type # "AST_SYMBOL"
  PROVE  Clean
<1> SUFFICES ASSUME Smudged' PROVE FALSE
  BY DEF Clean
<1>1. PICK f, o, cs : f = bs'.fptr /\ o = open' /\ cs = cells'
  OBVIOUS
<1>2. Contexts(o) /\ Tree(f, o, cs)
  BY <1>1 DEF ArenaInv, StackInv, TreeInv
<1>3. PICK c : c = cs[Last(o).cell].cell
  OBVIOUS
<1>4. Garbage \in Range(c.text) /\ Current' = Last(o)
  BY <1>1, <1>3 DEF Smudged, Header, Current
<1>5. Last(o).type = "AST_SYMBOL"
  BY <1>2, <1>3, <1>4, GarbageSymbol
<1> QED
  BY <1>4, <1>5

LEMMA NoCellClean ==
  ASSUME ArenaInv, ArenaInv', NoCell
  PROVE  Clean
<1>1. UNCHANGED <<open, cells>>
  BY DEF NoCell, tree
<1> QED
  BY <1>1, SameClean

\* A cell begins with no characters.
LEMMA EnterClean ==
  ASSUME ArenaInv, ArenaInv', NEW type \in Types, NEW prefix \in AstPrefixes, Enter(type, prefix)
  PROVE  Clean
<1>1. CASE UNCHANGED <<open, cells>>
  BY <1>1, SameClean
<1>2. CASE /\ open' = Append(open, Context(bs, type, prefix, Len(cells) + 1))
           /\ cells' = Append(cells, CellAt(bs, type, prefix))
  <2>1. /\ ArenaOf(bs) /\ Contexts(open) /\ Tree(bs.fptr, open, cells)
    BY DEF ArenaInv, StackInv, TreeInv
  <2>2. PICK n \in Nat : n = Len(cells)
    BY <2>1, TreeCells
  <2>3. PICK c : c = Context(bs, type, prefix, n + 1)
    OBVIOUS
  <2>4. c \in OpenContext /\ c.cell = n + 1
    BY <2>1, <2>3, MadeAt
  <2>5. open \in Seq(OpenContext) /\ open' = Append(open, c)
    BY <1>2, <2>1, <2>2, <2>3 DEF Contexts
  <2>6. Current' = c
    <3>1. PICK l \in Nat \ {0} : l = Len(open)
      BY <2>1, ContextsLast
    <3>2. Len(open') = l + 1 /\ open'[l + 1] = c
      BY <2>4, <2>5, <3>1, AppendProperties
    <3> QED
      BY <3>2 DEF Current, Last
  <2>7. PICK d : d = CellAt(bs, type, prefix)
    OBVIOUS
  <2>8. d.cell = NewCell(type, prefix) /\ d.at = bs.fptr
    BY <2>7 DEF CellAt
  <2>9. d \in CellRecord /\ d.cell.text = <<>>
    <3>1. d = [cell |-> NewCell(type, prefix), at |-> bs.fptr]
      BY <2>7 DEF CellAt
    <3>2. bs.fptr \in 0 .. Size
      BY <2>1, SizeIsNat DEF ArenaOf
    <3> QED
      BY <2>8, <3>1, <3>2, NewCellFits DEF CellRecord
  <2>10. cells'[n + 1] = d
    <3>1. cells \in Seq(CellRecord)
      BY <2>1 DEF Tree
    <3> QED
      BY <1>2, <2>2, <2>7, <2>9, <3>1, AppendProperties
  <2>11. Header'.text = <<>>
    BY <2>4, <2>6, <2>9, <2>10 DEF Header
  <2>12. Range(Header'.text) = {}
    BY <2>11 DEF Range
  <2> QED
    BY <2>12 DEF Clean, Smudged
<1> QED
  BY <1>1, <1>2 DEF Enter

\* A character of a symbol is none that was overwritten.
LEMMA KeepClean ==
  ASSUME ArenaInv, ArenaInv', pc # "thrown", missing.mark = NULL, Current.type = "AST_SYMBOL",
         NEW c \in Chars, Keep(c)
  PROVE  Clean
<1>1. Plain
  BY DEF Plain, ArenaInv
<1>2. CASE UNCHANGED <<open, cells>>
  BY <1>2, SameClean
<1>3. CASE ~Full /\ NextByte < bs.bptr
  <2>1. PICK h : h = Header
    OBVIOUS
  <2>2. h \in Cells /\ Current.cell \in 1 .. Len(cells) /\ cells \in Seq(CellRecord)
    BY <1>1, <2>1, AtomCell
  <2>3. PICK k : k = Current.cell
    OBVIOUS
  <2>4. PICK t, n : t = Append(h.text, c) /\ n = h.length + 1
    OBVIOUS
  <2>5. PICK d : d = KeptOf(h, c) /\ d = [h EXCEPT !.text = t, !.length = n]
    BY <2>4 DEF KeptOf
  <2>6. h.text \in Seq(Chars \cup {Garbage}) /\ d.text = Append(h.text, c)
    BY <2>2, <2>4, <2>5 DEF Cells
  <2>7. cells' = Written(cells, k, d)
    <3>1. cells' = Kept(cells, Current.cell, c)
      BY <1>3 DEF Keep, Kept
    <3>2. Kept(cells, Current.cell, c) = Written(cells, Current.cell, KeptOf(Header, c))
      BY <1>1, KeptCell
    <3> QED
      BY <2>1, <2>3, <2>5, <3>1, <3>2
  <2>8. cells'[k].cell = d
    BY <2>2, <2>3, <2>7 DEF Written, CellRecord
  <2>9. /\ Current'.cell = k /\ Below(Current') = Below(Current) /\ Len(open') = Len(open)
        /\ Current'.type = Current.type
    <3>1. open' = Escaped(open, FALSE)
      BY <1>3 DEF Keep, EscapeUsed, SetEscaped, Escaped
    <3>2. Contexts(open)
      BY <1>1, PlainStack
    <3> QED
      BY <2>3, <3>1, <3>2, EscapedChain DEF Current
  <2>10. Header' = d
    BY <2>8, <2>9 DEF Header
  <2>11. Garbage \in Range(d.text) => Garbage \in Range(h.text)
    <3>1. SUFFICES ASSUME Garbage \in Range(d.text) PROVE Garbage \in Range(h.text)
      OBVIOUS
    <3>2. PICK l \in Nat : l = Len(h.text)
      BY <2>6
    <3>3. /\ DOMAIN d.text = 1 .. l + 1 /\ DOMAIN h.text = 1 .. l
          /\ d.text[l + 1] = c /\ \A i \in 1 .. l : d.text[i] = h.text[i]
      BY <2>6, <3>2, AppendProperties
    <3>4. PICK i \in 1 .. l + 1 : d.text[i] = Garbage
      BY <3>1, <3>3 DEF Range
    <3>5. c # Garbage
      BY DEF Chars, Garbage, Whitespace, Digits, PrefixChars, Bang, Backquote
    <3>6. i \in 1 .. l
      BY <3>3, <3>4, <3>5
    <3> QED
      BY <3>3, <3>4, <3>6 DEF Range
  <2>12. bs' = bs
    BY <1>3 DEF Keep
  <2> QED
    BY <2>1, <2>9, <2>10, <2>11, <2>12 DEF Clean, Smudged, Gap, InAtom
<1> QED
  BY <1>2, <1>3 DEF Keep, EscapeUsed, tree

LEMMA EscapeClean ==
  ASSUME ArenaInv, NEW e \in BOOLEAN, SetEscaped(e), UNCHANGED <<bs, cells>>
  PROVE  Clean
<1>1. open' = Escaped(open, e) /\ Contexts(open)
  BY DEF SetEscaped, Escaped, ArenaInv, StackInv
<1>2. /\ Current'.cell = Current.cell /\ Below(Current') = Below(Current)
      /\ Len(open') = Len(open) /\ Current'.type = Current.type
  BY <1>1, EscapedChain DEF Current
<1>3. Header' = Header
  BY <1>2 DEF Header
<1> QED
  BY <1>2, <1>3 DEF Clean, Smudged, Gap, InAtom

-----------------------------------------------------------------------------
(* The control.                                                            *)

Places == Reading \cup {"idle", "put_missing"}

Errors == {"BISTACK_OUT_OF_MEMORY", "READER_SYNTAX_ERROR", "READER_STATE_ERROR",
           "READER_SYNTAX_SPURIOUS_LIST_TERMINATOR"}

Results == {"none", "read", "put"} \X BOOLEAN

\* An overrun is the end, and there was no room for the longest symbol; after
\* any other error no put_missing is under way.
ControlInv ==
  /\ pc \in Places \cup {"thrown"} /\ result \in Results
  /\ thrown \in Errors \cup {"none", "overrun"}
  /\ pc = "thrown" => missing.mark = NULL
  /\ thrown = "overrun" => pc = "thrown" /\ Gap < MaxSymbol

GapInv == Smudged => Gap < MaxSymbol + Max({FrameBytes, PrinterBytes})

\* What a step of reader_read does to the control.
Controlled ==
  /\ result' \in Results
  /\ \/ pc' \in Places /\ thrown' = thrown
     \/ pc' = "thrown" /\ thrown' \in Errors
     \/ pc' = "thrown" /\ thrown' = "overrun" /\ Gap' < MaxSymbol

LEMMA ControlledStep ==
  ASSUME ControlInv, pc \in Reading, missing.mark = NULL, missing' = missing, Controlled
  PROVE  ControlInv'
<1>1. pc # "thrown" /\ thrown # "overrun"
  BY DEF Reading, ControlInv
<1>2. "overrun" \notin Errors
  BY DEF Errors
<1> QED
  BY <1>1, <1>2 DEF ControlInv, Controlled

LEMMA GoControl ==
  ASSUME ControlInv, NEW next \in Places, Go(next)
  PROVE  Controlled
BY DEF Go, ControlInv, Controlled

LEMMA ThrowControl ==
  ASSUME ControlInv, NEW err \in Errors, Throw(err)
  PROVE  Controlled
BY DEF Throw, ControlInv, Controlled

LEMMA ReturnControl ==
  ASSUME ControlInv, NEW call \in {"read", "put"}, NEW r \in BOOLEAN, Return(call, r)
  PROVE  Controlled
BY DEF Return, ControlInv, Controlled, Results, Places

LEMMA NoCellControl ==
  ASSUME ControlInv, ArenaOf(bs), NoCell
  PROVE  Controlled
<1>1. CASE Return("read", Len(open) = 1)
  BY <1>1, ReturnControl
<1>2. CASE LET new == new_reader_context(bs, "AST_NONE", "AST_NOPREFIX") IN Throw(new.err)
  <2>1. PICK new : new = new_reader_context(bs, "AST_NONE", "AST_NOPREFIX")
    OBVIOUS
  <2>2. /\ new.err \in {"none", "BISTACK_OUT_OF_MEMORY", "READER_SYNTAX_ERROR"}
        /\ new.err = "none" => "AST_NONE" \in Types
    BY <2>1, NewContext
  <2>3. new.err \in Errors
    BY <2>2 DEF Types, Errors
  <2> QED
    BY <1>2, <2>1, <2>3, ThrowControl
<1> QED
  BY <1>1, <1>2 DEF NoCell

LEMMA PlacesOf ==
  ASSUME NEW o, Last(o).type \in Types
  PROVE  Resume(o) \in Places
<1>1. Last(o).type \in {"AST_SYMBOL", "AST_INTEGER", "AST_LIST"}
  BY DEF Types
<1>2. CASE Last(o).type = "AST_LIST"
  BY <1>2 DEF Resume, Places, Reading
<1>3. CASE Last(o).type = "AST_SYMBOL"
  BY <1>3 DEF Resume, Places, Reading
<1>4. CASE Last(o).type = "AST_INTEGER"
  BY <1>4 DEF Resume, Places, Reading
<1> QED
  BY <1>1, <1>2, <1>3, <1>4

LEMMA LastType ==
  ASSUME ArenaInv
  PROVE  Current.type \in Types
BY ContextsLast DEF ArenaInv, StackInv, OpenContext, Current

LEMMA EnterControl ==
  ASSUME ControlInv, ArenaInv, ArenaInv', NEW type \in Types, NEW prefix, Enter(type, prefix)
  PROVE  Controlled
<1>1. PICK new : new = new_reader_context(bs, type, prefix)
  OBVIOUS
<1>2. new.err \in {"none", "BISTACK_OUT_OF_MEMORY", "READER_SYNTAX_ERROR"}
  BY <1>1, NewContext DEF ArenaInv, StackInv
<1>3. CASE new.err = "none"
  <2>1. Go(Resume(open'))
    BY <1>1, <1>3 DEF Enter
  <2>2. PICK o : o = open'
    OBVIOUS
  <2>3. Contexts(o)
    BY <2>2 DEF ArenaInv, StackInv
  <2>4. Last(o).type \in Types
    BY <2>3, ContextsLast DEF OpenContext
  <2>5. Resume(open') \in Places
    BY <2>2, <2>4, PlacesOf
  <2> QED
    BY <2>1, <2>5, GoControl
<1>4. CASE new.err # "none"
  <2>1. Throw(new.err) /\ new.err \in Errors
    BY <1>1, <1>2, <1>4 DEF Enter, Errors
  <2> QED
    BY <2>1, ThrowControl
<1> QED
  BY <1>3, <1>4


-----------------------------------------------------------------------------
(* Each step of reader_read.                                               *)

LEMMA StaysClean ==
  ASSUME ArenaInv, ArenaInv', UNCHANGED tree
  PROVE  Clean
BY SameClean DEF tree

LEMMA ReadingOf ==
  ASSUME ControlInv, ReaderInv, pc \in Reading
  PROVE  ArenaInv /\ CloseInv /\ StreamInv /\ Plain /\ pc \in Places
BY ReadingPlain DEF ReaderInv, Places

LEMMA CommentGap ==
  ASSUME ControlInv, ReaderInv, ArenaInv', Comment
  PROVE  Clean /\ Controlled
<1>1. pc \in Reading
  BY DEF Comment, Reading
<1>2. ArenaInv /\ Plain /\ pc \in Places /\ ArenaOf(bs)
  BY <1>1, ReadingOf, PlainStack
<1>3. CASE NoCell
  BY <1>2, <1>3, NoCellClean, NoCellControl
<1>4. CASE Return("read", FALSE) /\ UNCHANGED tree
  BY <1>2, <1>4, StaysClean, ReturnControl
<1>5. ASSUME NEW c, Go(IF c = "\n" THEN "next_non_ws" ELSE pc), UNCHANGED tree
      PROVE  Clean /\ Controlled
  <2>1. (IF c = "\n" THEN "next_non_ws" ELSE pc) \in Places
    BY <1>2 DEF Places, Reading
  <2> QED
    BY <1>2, <1>5, <2>1, StaysClean, GoControl
<1> QED
  BY <1>3, <1>4, <1>5 DEF Comment

LEMMA NextNonWsGap ==
  ASSUME ControlInv, ReaderInv, ArenaInv', NextNonWs
  PROVE  Clean /\ Controlled
<1>1. pc \in Reading
  BY DEF NextNonWs, Reading
<1>2. ArenaInv /\ Plain /\ pc \in Places /\ ArenaOf(bs) /\ "next_cell" \in Places
      /\ "READER_STATE_ERROR" \in Errors
  BY <1>1, ReadingOf, PlainStack DEF Places, Reading, Errors
<1>3. CASE NoCell
  BY <1>2, <1>3, NoCellClean, NoCellControl
<1>4. CASE UNCHANGED tree /\ Go(pc)
  BY <1>2, <1>4, StaysClean, GoControl
<1>5. ASSUME NEW fits, UNCHANGED tree, lassert(fits, "READER_STATE_ERROR", "next_cell")
      PROVE  Clean /\ Controlled
  <2>1. Go("next_cell") \/ Throw("READER_STATE_ERROR")
    BY <1>5 DEF lassert
  <2> QED
    BY <1>2, <1>5, <2>1, StaysClean, GoControl, ThrowControl
<1> QED
  BY <1>3, <1>4, <1>5 DEF NextNonWs

LEMMA NextCellGap ==
  ASSUME ControlInv, ReaderInv, ArenaInv', NextCell
  PROVE  Clean /\ Controlled
<1>1. pc \in Reading /\ pc = "next_cell" /\ missing' = missing
  BY DEF NextCell, Reading, output
<1>2. /\ ArenaInv /\ Plain /\ pc \in Places /\ ArenaOf(bs) /\ "cell_comment" \in Places
      /\ "next_non_ws" \in Places
      /\ "READER_STATE_ERROR" \in Errors /\ "READER_SYNTAX_ERROR" \in Errors
      /\ "READER_SYNTAX_SPURIOUS_LIST_TERMINATOR" \in Errors
  BY <1>1, ReadingOf, PlainStack DEF Places, Reading, Errors
<1>3. CASE NoCell
  BY <1>2, <1>3, NoCellClean, NoCellControl
<1>4. ASSUME NEW err \in Errors, Throw(err), UNCHANGED tree PROVE Clean /\ Controlled
  BY <1>2, <1>4, StaysClean, ThrowControl
<1>5. ASSUME NEW next \in {pc, "cell_comment"}, Go(next), UNCHANGED tree PROVE Clean /\ Controlled
  <2>1. next \in Places
    BY <1>2
  <2> QED
    BY <1>2, <1>5, <2>1, StaysClean, GoControl
<1>6. ASSUME NEW type \in Types, NEW prefix \in AstPrefixes, Enter(type, prefix)
      PROVE  Clean /\ Controlled
  BY <1>2, <1>6, EnterClean, EnterControl
<1>7. CASE Len(open) > 1 /\ Leave(bs)
  <2>1. Current.type # "AST_SYMBOL"
    BY <1>1, <1>2 DEF ArenaInv, PlaceInv
  <2>2. Go("next_non_ws") /\ Current'.type = "AST_LIST"
    BY <1>1, <1>2, <1>7, <2>1, LeaveNowMemory
  <2> QED
    BY <1>2, <2>2, TypeClean, GoControl
<1>8. ASSUME NEW fits, NEW type \in Types, NEW prefix \in AstPrefixes,
             IF fits THEN Enter(type, prefix)
                     ELSE Throw("READER_STATE_ERROR") /\ UNCHANGED <<tree, locals>>
      PROVE  Clean /\ Controlled
  <2>1. CASE fits
    <3>1. Enter(type, prefix)
      BY <1>8, <2>1
    <3> QED
      BY <3>1, <1>6
  <2>2. CASE ~fits
    <3>1. Throw("READER_STATE_ERROR") /\ UNCHANGED tree
      BY <1>8, <2>2
    <3> QED
      BY <3>1, <1>2, <1>4
  <2> QED
    BY <2>1, <2>2
<1>9. ASSUME NEW c, NextCellChar(c) PROVE Clean /\ Controlled
  <2>1. /\ "AST_SYMBOL" \in Types /\ "AST_LIST" \in Types /\ "AST_INTEGER" \in Types
        /\ "AST_DOUBLEQUOTE" \in AstPrefixes /\ "AST_NOPREFIX" \in AstPrefixes
        /\ asttype \in AstPrefixes
    BY <1>1, ReadingOf DEF Types, AstPrefixes, StreamInv, StreamType
  <2>2. CASE EnterBare(c)
    <3>1. IF UngetFits(Bare(c)) THEN Enter("AST_SYMBOL", "AST_NOPREFIX")
            ELSE Throw("READER_STATE_ERROR") /\ UNCHANGED <<tree, locals>>
      BY <2>2 DEF EnterBare
    <3> QED
      BY <1>8, <2>1, <3>1
  <2>3. ASSUME NEW type \in Types, EnterWith(c, type) PROVE Clean /\ Controlled
    <3>1. IF UngetFits(<<c>>) THEN Enter(type, asttype)
            ELSE Throw("READER_STATE_ERROR") /\ UNCHANGED <<tree, locals>>
      BY <2>3 DEF EnterWith
    <3> QED
      BY <1>8, <2>1, <3>1
  <2>4. CASE Go(pc) /\ UNCHANGED tree
    BY <1>5, <2>4
  <2>5. CASE Go("cell_comment") /\ UNCHANGED tree
    BY <1>5, <2>5
  <2>6. CASE UNCHANGED tree /\ Throw("READER_SYNTAX_SPURIOUS_LIST_TERMINATOR")
    BY <1>2, <1>4, <2>6
  <2>7. CASE UNCHANGED tree /\ Throw("READER_SYNTAX_ERROR")
    BY <1>2, <1>4, <2>7
  <2>8. CASE Enter("AST_SYMBOL", "AST_DOUBLEQUOTE")
    BY <1>6, <2>1, <2>8
  <2>9. CASE Enter("AST_LIST", asttype)
    BY <1>6, <2>1, <2>9
  <2> QED
    BY <1>7, <1>9, <2>1, <2>2, <2>3, <2>4, <2>5, <2>6, <2>7, <2>8, <2>9 DEF NextCellChar
<1>10. CASE Throw("READER_STATE_ERROR") /\ UNCHANGED tree
  BY <1>2, <1>4, <1>10
<1> QED
  BY <1>3, <1>9, <1>10 DEF NextCell

\* A character runs into the context above only where there is no room for the
\* longest symbol.
LEMMA KeepGap ==
  ASSUME ControlInv, ReaderInv, ArenaInv', pc = "symbol_context", Current.type = "AST_SYMBOL",
         Plain, NEW c \in Chars, Keep(c)
  PROVE  Clean /\ Controlled
<1>1. ArenaInv /\ pc \in Places /\ pc # "thrown" /\ missing.mark = NULL
  BY DEF ReaderInv, Places, Reading, Plain
<1>2. Clean
  BY <1>1, KeepClean
<1>3. CASE Go(pc)
  BY <1>1, <1>2, <1>3, GoControl
<1>4. CASE ~Full /\ ~(NextByte < bs.bptr) /\ Throw("overrun") /\ UNCHANGED tree
  <2>1. Header \in Cells /\ TextFits(Header) /\ Header.type = "AST_SYMBOL"
    BY AtomCell
  <2>2. PICK n : n = Header.length
    OBVIOUS
  <2>3. PICK f \in Nat, b \in Nat : f = bs.fptr /\ b = bs.bptr /\ b = Below(Current)
    BY PlainStack DEF ArenaOf, OnTop, Current
  <2>4. n \in Nat
    <3>1. Header.text \in Seq(Chars \cup {Garbage})
      BY <2>1 DEF Cells
    <3> QED
      BY <2>1, <2>2, <3>1 DEF TextFits
  <2>5. n < MaxSymbol /\ ~(f + n < b)
    <3>1. MaxSymbol \in Int
      BY WidthsAreNat
    <3> QED
      BY <1>4, <2>2, <2>3, <2>4, <3>1 DEF Full, NextByte
  <2>6. b - f < MaxSymbol
    <3>1. PICK m \in Int : m = MaxSymbol
      BY WidthsAreNat
    <3> QED
      BY <2>3, <2>4, <2>5, <3>1
  <2>7. Gap' = Gap /\ Gap = b - f
    BY <1>4, <2>3 DEF Gap, tree, Current
  <2>8. result' = result /\ pc' = "thrown" /\ thrown' = "overrun"
    BY <1>4 DEF Throw
  <2> QED
    BY <1>2, <2>6, <2>7, <2>8 DEF Controlled, ControlInv
<1> QED
  BY <1>3, <1>4 DEF Keep

LEMMA SymbolContextGap ==
  ASSUME ControlInv, ReaderInv, ArenaInv', SymbolContext
  PROVE  Clean /\ Controlled
<1>1. pc \in Reading /\ pc = "symbol_context" /\ missing' = missing
  BY DEF SymbolContext, Reading, output
<1>2. /\ ArenaInv /\ Plain /\ pc \in Places /\ "next_non_ws" \in Places
      /\ Current.type = "AST_SYMBOL" /\ Len(open) > 1
      /\ "READER_STATE_ERROR" \in Errors /\ "BISTACK_OUT_OF_MEMORY" \in Errors
  BY <1>1, ReadingOf, ReadingPlain DEF Places, Reading, Errors
<1>3. ASSUME NEW err \in Errors, Throw(err), UNCHANGED tree PROVE Clean /\ Controlled
  BY <1>2, <1>3, StaysClean, ThrowControl
<1>4. CASE Go(pc) /\ UNCHANGED tree
  BY <1>2, <1>4, StaysClean, GoControl
<1>5. CASE Return("read", FALSE) /\ UNCHANGED tree
  BY <1>2, <1>5, StaysClean, ReturnControl
<1>6. CASE SetEscaped(TRUE) /\ Go(pc) /\ UNCHANGED <<bs, cells>>
  BY <1>2, <1>6, EscapeClean, GoControl
<1>7. CASE FinishSymbol
  <2>1. \/ Throw("BISTACK_OUT_OF_MEMORY") /\ UNCHANGED tree
        \/ Go("next_non_ws") /\ Current'.type = "AST_LIST"
    BY <1>1, <1>2, <1>7, FinishSymbolMemory
  <2>2. CASE Throw("BISTACK_OUT_OF_MEMORY") /\ UNCHANGED tree
    BY <1>2, <1>3, <2>2
  <2>3. CASE Go("next_non_ws") /\ Current'.type = "AST_LIST"
    BY <1>2, <2>3, TypeClean, GoControl
  <2> QED
    BY <2>1, <2>2, <2>3
<1>8. ASSUME NEW c \in Getc, SymbolChar(c) PROVE Clean /\ Controlled
  <2>1. c \in Chars
    BY GetcChars DEF ReaderInv, StreamInv
  <2>2. CASE Keep(c)
    BY <1>1, <1>2, <2>1, <2>2, KeepGap
  <2>3. CASE Throw("READER_STATE_ERROR") /\ UNCHANGED tree
    BY <1>2, <1>3, <2>3
  <2> QED
    BY <1>4, <1>6, <1>7, <1>8, <2>2, <2>3 DEF SymbolChar
<1> QED
  BY <1>5, <1>8 DEF SymbolContext

LEMMA IntegerContextGap ==
  ASSUME ControlInv, ReaderInv, ArenaInv', IntegerContext
  PROVE  Clean /\ Controlled
<1>1. pc \in Reading /\ pc = "integer_context" /\ missing' = missing
  BY DEF IntegerContext, Reading, output
<1>2. /\ ArenaInv /\ Plain /\ pc \in Places /\ "next_non_ws" \in Places
      /\ Current.type = "AST_INTEGER" /\ Len(open) > 1 /\ "READER_STATE_ERROR" \in Errors
  BY <1>1, ReadingOf, ReadingPlain DEF Places, Reading, Errors
<1>3. CASE Throw("READER_STATE_ERROR") /\ UNCHANGED tree
  BY <1>2, <1>3, StaysClean, ThrowControl
<1>4. CASE Return("read", FALSE) /\ UNCHANGED tree
  BY <1>2, <1>4, StaysClean, ReturnControl
<1>5. CASE Go(pc) /\ UNCHANGED <<bs, open>>
  <2>1. Current'.type # "AST_SYMBOL"
    BY <1>2, <1>5 DEF Current
  <2> QED
    BY <1>2, <1>5, <2>1, TypeClean, GoControl
<1>6. CASE Leave(bs)
  <2>1. Go("next_non_ws") /\ Current'.type = "AST_LIST"
    BY <1>1, <1>2, <1>6, LeaveNowMemory
  <2> QED
    BY <1>2, <2>1, TypeClean, GoControl
<1>7. ASSUME NEW c, IntegerChar(c) PROVE Clean /\ Controlled
  BY <1>3, <1>5, <1>6, <1>7 DEF IntegerChar
<1> QED
  BY <1>4, <1>7 DEF IntegerContext

-----------------------------------------------------------------------------
(* The other steps.                                                        *)

\* What is built on top of the contexts runs into the characters of an
\* unfinished symbol only where there is no room for the longest symbol and
\* for what is built.
LEMMA ClobberedGap ==
  ASSUME Plain, NEW b, NEW e \in Nat, e = b.bptr, NEW n \in Nat, bs.bptr - n <= e, Clobber(b),
         open' = open, Garbage \in Range(Header'.text), InAtom
  PROVE  Smudged \/ Gap < MaxSymbol + n
<1>1. PICK h : h = Header
  OBVIOUS
<1>2. /\ h \in Cells /\ h.type = Current.type /\ TextFits(h) /\ Current.cell \in 1 .. Len(cells)
      /\ cells \in Seq(CellRecord)
  BY <1>1, AtomCell
<1>3. h.text \in Seq(Chars \cup {Garbage})
  BY <1>2 DEF Cells
<1>4. PICK t : t = [i \in DOMAIN h.text |-> IF bs.fptr + i > e THEN Garbage ELSE h.text[i]]
  OBVIOUS
<1>5. PICK k : k = Current.cell
  OBVIOUS
<1>6. PICK d : d = [h EXCEPT !.text = t]
  OBVIOUS
<1>7. d.text = t
  BY <1>2, <1>6 DEF Cells
<1>8. cells' = Written(cells, k, d)
  <2>1. Header = cells[Current.cell].cell
    BY DEF Header
  <2> QED
    BY <1>1, <1>4, <1>5, <1>6, <2>1 DEF Clobber, Written
<1>9. Header' = d
  <2>1. cells'[k].cell = d
    BY <1>2, <1>5, <1>8 DEF Written, CellRecord
  <2>2. Current'.cell = k
    BY <1>5 DEF Current
  <2> QED
    BY <2>1, <2>2 DEF Header
<1>10. Garbage \in Range(t)
  BY <1>7, <1>9
<1>11. PICK l \in Nat : l = Len(h.text)
  BY <1>3
<1>12. PICK i \in 1 .. l : (IF bs.fptr + i > e THEN Garbage ELSE h.text[i]) = Garbage
  <2>1. DOMAIN h.text = 1 .. l
    BY <1>3, <1>11
  <2> QED
    BY <1>4, <1>10, <2>1 DEF Range
<1>13. CASE ~(bs.fptr + i > e)
  <2>1. h.text[i] = Garbage
    BY <1>12, <1>13
  <2>2. i \in DOMAIN h.text
    BY <1>3, <1>11
  <2>3. Garbage \in Range(h.text)
    BY <2>1, <2>2 DEF Range
  <2> QED
    BY <1>1, <2>3 DEF Smudged
<1>14. CASE bs.fptr + i > e
  <2>1. PICK f \in Nat, p \in Nat : f = bs.fptr /\ p = bs.bptr /\ p = Below(Current)
    BY PlainStack DEF ArenaOf, OnTop, Current
  <2>2. l <= MaxSymbol
    <3>1. h.type = "AST_SYMBOL"
      <4>1. CASE h.type # "AST_SYMBOL"
        <5>1. h.text = <<>>
          BY <1>2, <4>1 DEF TextFits
        <5>2. l = 0
          BY <1>11, <5>1
        <5> QED
          BY <5>2
      <4> QED
        BY <4>1
    <3> QED
      BY <1>2, <1>11, <3>1 DEF TextFits
  <2>3. PICK m \in Nat : m = MaxSymbol
    BY WidthsAreNat
  <2>4. p - f < m + n
    <3>1. f + i > e /\ p - n <= e /\ i <= l /\ l <= m
      BY <1>14, <2>1, <2>2, <2>3
    <3> QED
      BY <3>1
  <2> QED
    BY <2>1, <2>3, <2>4 DEF Gap
<1> QED
  BY <1>13, <1>14

\* A step that leaves the symbol clean keeps the gap.
LEMMA CleanGap ==
  ASSUME GapInv, Clean
  PROVE  GapInv'
<1> SUFFICES ASSUME Smudged' PROVE (Gap < MaxSymbol + Max({FrameBytes, PrinterBytes}))'
  BY DEF GapInv
<1>1. Gap < MaxSymbol + Max({FrameBytes, PrinterBytes}) /\ Gap' = Gap /\ Len(open') = Len(open)
  BY DEF GapInv, Clean
<1>2. FrameBytes' = FrameBytes /\ PrinterBytes' = PrinterBytes
  BY <1>1 DEF FrameBytes, PrinterBytes
<1> QED
  BY <1>1, <1>2

\* What is built takes no more than the frames or the printer do.
LEMMA BuiltGap ==
  ASSUME Plain, GapInv, NEW b, NEW e \in Nat, e = b.bptr, NEW n \in {FrameBytes, PrinterBytes},
         bs.bptr - n <= e, Clobber(b), open' = open, bs'.fptr = bs.fptr
  PROVE  GapInv'
<1>1. Contexts(open)
  BY PlainStack
<1>2. PICK m \in Int : /\ m = Max({FrameBytes, PrinterBytes})
                       /\ n \in Nat /\ n <= m
  BY <1>1, BytesAreNat
<1>3. PICK x \in Nat : x = MaxSymbol
  BY WidthsAreNat
<1>4. PICK g \in Int : g = Gap
  <2>1. bs.fptr \in Nat /\ bs.bptr \in Nat /\ bs.bptr = Below(Current)
    BY PlainStack DEF ArenaOf, OnTop, Current
  <2> QED
    BY <2>1 DEF Gap
<1>5. Gap' = g /\ FrameBytes' = FrameBytes /\ PrinterBytes' = PrinterBytes
  BY <1>4 DEF Gap, FrameBytes, PrinterBytes, Current
<1> SUFFICES ASSUME Smudged' PROVE (Gap < MaxSymbol + Max({FrameBytes, PrinterBytes}))'
  BY DEF GapInv
<1>6. Garbage \in Range(Header'.text) /\ InAtom
  BY DEF Smudged, InAtom, Current
<1>7. Smudged \/ g < x + n
  BY <1>2, <1>3, <1>4, <1>6, ClobberedGap
<1>8. g < x + m
  <2>1. CASE Smudged
    BY <1>2, <1>3, <1>4, <2>1 DEF GapInv
  <2>2. CASE g < x + n
    BY <1>2, <2>2
  <2> QED
    BY <1>7, <2>1, <2>2
<1> QED
  BY <1>2, <1>3, <1>5, <1>8

LEMMA ReadGap ==
  ASSUME ControlInv, ReaderInv, ArenaInv', Read
  PROVE  Clean /\ ControlInv'
<1>1. ArenaInv /\ pc = "idle" /\ thrown # "overrun"
  BY DEF ReaderInv, Read, ControlInv
<1>2. UNCHANGED tree /\ pc' = Entry /\ result' = <<"none", TRUE>> /\ thrown' = thrown
  BY DEF Read
<1>3. Entry \in Places
  <2>1. Resume(open) \in Places
    <3>1. Last(open).type \in Types
      BY <1>1, LastType DEF Current
    <3> QED
      BY <3>1, PlacesOf
  <2> QED
    BY <2>1 DEF Entry, Places, Reading
<1>4. "thrown" \notin Places
  BY DEF Places, Reading
<1> QED
  BY <1>1, <1>2, <1>3, <1>4, StaysClean DEF ControlInv, Results

LEMMA PutcGap ==
  ASSUME ControlInv, ReaderInv, ArenaInv', Putc
  PROVE  Clean /\ ControlInv'
<1>1. ArenaInv /\ pc = "put_missing" /\ thrown # "overrun" /\ UNCHANGED tree
  BY DEF ReaderInv, Putc, ControlInv
<1>2. Controlled /\ pc' # "thrown"
  <2>1. CASE Return("put", FALSE)
    BY <2>1, ReturnControl DEF Return
  <2>2. CASE Go(pc)
    BY <1>1, <2>2, GoControl DEF Places, Go
  <2> QED
    BY <2>1, <2>2 DEF Putc
<1>3. thrown' # "overrun"
  BY <1>1, <1>2 DEF Controlled
<1> QED
  BY <1>1, <1>2, <1>3, StaysClean DEF ControlInv, Controlled

LEMMA PutDoneGap ==
  ASSUME ControlInv, ReaderInv, ArenaInv', PutDone
  PROVE  Clean /\ ControlInv'
<1>1. ArenaInv /\ pc = "put_missing" /\ thrown # "overrun" /\ UNCHANGED <<open, cells>>
  BY DEF ReaderInv, PutDone, ControlInv
<1>2. pc' = "idle"
  <2>1. missing.mark # NULL
    BY <1>1 DEF ArenaInv, PlaceInv
  <2> QED
    BY <1>1, <2>1, PutDoneMemory DEF ArenaInv
<1>3. Return("put", TRUE)
  BY <1>2 DEF PutDone, Throw
<1>4. thrown' = thrown /\ result' \in Results
  BY <1>3 DEF Return, Results
<1> QED
  BY <1>1, <1>2, <1>4, SameClean DEF ControlInv, Places

LEMMA RecoverGap ==
  ASSUME ControlInv, ReaderInv, ArenaInv', Recover
  PROVE  Clean /\ ControlInv'
<1>1. ArenaInv /\ ArenaOf(bs) /\ pc = "thrown"
  BY DEF ReaderInv, ArenaInv, StackInv, Recover
<1>2. PICK root : root = new_reader_context(bs, "AST_LIST", "AST_NOPREFIX")
  OBVIOUS
<1>3. root.err \in {"none", "BISTACK_OUT_OF_MEMORY", "READER_SYNTAX_ERROR"}
  <2>1. "AST_LIST" \in Types
    BY DEF Types
  <2> QED
    BY <1>1, <1>2, <2>1, NewContext
<1>4. missing'.mark = NULL /\ result' \in Results
  BY DEF Recover, NotWriting, Results
<1>5. CASE root.err = "none"
  <2>1. /\ open' = <<Context(bs, "AST_LIST", "AST_NOPREFIX", 1)>>
        /\ pc' = "idle" /\ thrown' = "none"
    BY <1>2, <1>5 DEF Recover
  <2>2. Current'.type = "AST_LIST"
    BY <2>1 DEF Current, Last, Context
  <2> QED
    BY <1>4, <2>1, <2>2, TypeClean DEF ControlInv, Places
<1>6. CASE root.err # "none"
  <2>1. UNCHANGED <<open, cells>> /\ pc' = "thrown" /\ thrown' = root.err
    BY <1>1, <1>2, <1>6 DEF Recover
  <2>2. thrown' \in Errors /\ thrown' # "overrun"
    BY <1>3, <1>6, <2>1 DEF Errors
  <2> QED
    BY <1>1, <1>4, <2>1, <2>2, SameClean DEF ControlInv
<1> QED
  BY <1>5, <1>6

LEMMA PutMissingGap ==
  ASSUME ControlInv, ReaderInv, ArenaInv', GapInv, PutMissing
  PROVE  GapInv' /\ ControlInv'
<1>1. ArenaInv /\ pc = "idle" /\ thrown # "overrun" /\ open' = open
  BY DEF ReaderInv, PutMissing, ControlInv
<1>2. CASE UNCHANGED <<bs, cells>> /\ pc' \in {"idle", "put_missing"} /\ thrown' = thrown
           /\ result' \in Results
  <2>1. Clean
    BY <1>1, <1>2, SameClean
  <2> QED
    BY <1>1, <1>2, <2>1, CleanGap DEF ControlInv, Places
<1>3. ASSUME Len(open) > 1, missing.mark = NULL, NEW done,
             done = PerformAll(bs, FrameCalls(Len(open) - 1)),
             bs' = done.bs, Clobber(done.bs), result' = <<"none", TRUE>>,
             \/ pc' = "thrown" /\ thrown' = "BISTACK_OUT_OF_MEMORY" /\ missing' = missing
             \/ pc' = "put_missing" /\ thrown' = thrown
      PROVE  GapInv' /\ ControlInv'
  <2>1. Plain
    BY <1>1, <1>3 DEF ArenaInv, Plain
  <2>2. PICK n \in Nat : n = Len(open) - 1
    <3>1. Contexts(open)
      BY <2>1, PlainStack
    <3>2. Len(open) \in Nat \ {0}
      BY <3>1, ContextsLast
    <3> QED
      BY <3>2
  <2>3. PICK calls : calls = FrameCalls(n)
    OBVIOUS
  <2>4. PICK w : /\ Downward(calls) /\ Weighs(w, calls)
                 /\ w[Len(calls)] = ((PTR + SizeOf["PUT_MISSING_CONTEXT"]) + SizeOf["LIST"])
                                      + n * (SizeOf["FRAME"] + SizeOf["LIST_NODE"])
    BY <2>3, FramesWeigh
  <2>5. done = PerformAll(bs, calls)
    BY <1>3, <2>2, <2>3
  <2>6. /\ ArenaOf(done.bs) /\ done.bs.fptr = bs.fptr
        /\ bs.bptr - w[Len(calls)] <= done.bs.bptr
    BY <2>1, <2>4, <2>5, BuiltMemory
  <2>7. w[Len(calls)] = FrameBytes
    BY <2>2, <2>4 DEF FrameBytes
  <2>8. PICK b, e, k : b = done.bs /\ e = b.bptr /\ k = w[Len(calls)]
    OBVIOUS
  <2>9. e \in Nat
    BY <2>6, <2>8 DEF ArenaOf
  <2>10. k \in {FrameBytes, PrinterBytes}
    BY <2>7, <2>8
  <2>11. bs.bptr - k <= e /\ bs'.fptr = bs.fptr
    BY <1>3, <2>6, <2>8
  <2>12. Clobber(b)
    BY <1>3, <2>8
  <2>13. GapInv'
    BY <1>1, <2>1, <2>8, <2>9, <2>10, <2>11, <2>12, BuiltGap
  <2>14. ControlInv'
    BY <1>1, <1>3 DEF ControlInv, Places, Errors, Results
  <2> QED
    BY <2>13, <2>14
<1>4. ASSUME Len(open) > 1, missing.mark = NULL,
             LET done == PerformAll(bs, FrameCalls(Len(open) - 1)) IN
             /\ bs' = done.bs /\ Clobber(done.bs)
             /\ written' = <<>> /\ result' = <<"none", TRUE>>
             /\ IF ~done.ok
                  THEN /\ pc' = "thrown" /\ thrown' = "BISTACK_OUT_OF_MEMORY"
                       /\ UNCHANGED missing
                  ELSE /\ missing' =
                            [mark   |-> StackTop(bs),
                             frames |-> Reverse([i \in 1 .. Len(open) - 1 |->
                                                   EndChar(open[i + 1])])]
                       /\ pc' = "put_missing" /\ UNCHANGED thrown
      PROVE  GapInv' /\ ControlInv'
  BY <1>3, <1>4
<1>5. CASE Len(open) = 1 /\ Return("put", TRUE) /\ UNCHANGED <<bs, cells, output>>
  BY <1>2, <1>5 DEF Return, Results
<1>6. CASE /\ pc' = "put_missing" /\ result' = <<"none", TRUE>>
           /\ UNCHANGED <<bs, cells, output, locals, thrown>>
  BY <1>2, <1>6 DEF Results
<1> QED
  BY <1>4, <1>5, <1>6 DEF PutMissing

LEMMA StutterGap ==
  ASSUME ControlInv, GapInv, UNCHANGED vars
  PROVE  ControlInv' /\ GapInv'
<1>1. /\ bs' = bs /\ open' = open /\ cells' = cells /\ pc' = pc /\ missing' = missing
      /\ thrown' = thrown /\ result' = result
  BY DEF vars, tree, output
<1> QED
  BY <1>1 DEF ControlInv, GapInv, Gap, Smudged, Header, Current, InAtom, FrameBytes, PrinterBytes

LEMMA GapInit ==
  ASSUME Init, ReaderInv
  PROVE  ControlInv /\ GapInv
<1>1. pc = "idle" /\ result = <<"none", TRUE>> /\ thrown = "none"
  BY DEF Init, InitOn
<1>2. ControlInv
  BY <1>1 DEF ControlInv, Places, Results
<1>3. open = <<Context(HostArena, "AST_LIST", "AST_NOPREFIX", 1)>>
  BY DEF Init, InitOn
<1>4. Current.type = "AST_LIST"
  BY <1>3 DEF Current, Last, Context
<1>5. GapInv
  BY <1>4 DEF GapInv, Smudged, InAtom
<1> QED
  BY <1>2, <1>5

LEMMA GapStep ==
  ASSUME ReaderInv, ReaderInv', ControlInv, GapInv, [Next]_vars
  PROVE  ControlInv' /\ GapInv'
<1>1. ArenaInv'
  BY DEF ReaderInv
<1>2. ASSUME pc \in Reading, missing' = missing, Clean, Controlled
      PROVE  ControlInv' /\ GapInv'
  <2>1. missing.mark = NULL
    BY <1>2 DEF ReaderInv, CloseInv, MissingInv
  <2> QED
    BY <1>2, <2>1, ControlledStep, CleanGap
<1>3. CASE Comment
  BY <1>1, <1>2, <1>3, CommentGap DEF Comment, Reading, output
<1>4. CASE NextNonWs
  BY <1>1, <1>2, <1>4, NextNonWsGap DEF NextNonWs, Reading, output
<1>5. CASE NextCell
  BY <1>1, <1>2, <1>5, NextCellGap DEF NextCell, Reading, output
<1>6. CASE SymbolContext
  BY <1>1, <1>2, <1>6, SymbolContextGap DEF SymbolContext, Reading, output
<1>7. CASE IntegerContext
  BY <1>1, <1>2, <1>7, IntegerContextGap DEF IntegerContext, Reading, output
<1>8. CASE Read \/ Putc \/ PutDone \/ Recover
  BY <1>1, <1>8, ReadGap, PutcGap, PutDoneGap, RecoverGap, CleanGap
<1>9. CASE PutMissing
  BY <1>1, <1>9, PutMissingGap
<1>10. CASE UNCHANGED vars
  BY <1>10, StutterGap
<1> QED
  BY <1>3, <1>4, <1>5, <1>6, <1>7, <1>8, <1>9, <1>10 DEF Next, Work

-----------------------------------------------------------------------------
(* The types.                                                              *)

Lengths == {Len(s) : s \in Scripts}

\* The longest script, when there is one.
LEMMA LongestScript ==
  ASSUME Scripts # {}, NEW n \in Nat, \A s \in Scripts : Len(s) <= n
  PROVE  Max(Lengths) \in Nat /\ \A s \in Scripts : Len(s) \in Nat /\ Len(s) <= Max(Lengths)
<1>1. \A s \in Scripts : Len(s) \in Nat
  BY ReaderAssumption
<1>2. \A x \in Lengths : x \in Nat /\ x <= n
  BY <1>1 DEF Lengths
<1>3. PICK y : y \in Lengths
  BY DEF Lengths
<1>4. PICK m \in Nat : /\ \A x \in Lengths : x <= m
                       /\ \A u \in Nat : (\A x \in Lengths : x <= u) => m <= u
  <2> DEFINE U == {u \in Nat : \A x \in Lengths : x <= u}
  <2>1. n \in U
    BY <1>2
  <2>2. PICK m \in U : \A u \in U : m <= u
    BY <2>1, LeastNumber
  <2> QED
    BY <2>2
<1>5. m \in Lengths
  <2>1. SUFFICES ASSUME m \notin Lengths PROVE FALSE
    OBVIOUS
  <2>2. \A x \in Lengths : x <= m - 1
    BY <1>2, <1>4, <2>1
  <2>3. m - 1 \in Nat
    <3>1. y \in Nat /\ y <= m - 1
      BY <1>2, <1>3, <2>2
    <3> QED
      BY <3>1
  <2> QED
    BY <1>4, <2>2, <2>3
<1>6. \A x \in Lengths : m >= x
  BY <1>2, <1>4
<1>7. Max(Lengths) \in Lengths /\ \A x \in Lengths : Max(Lengths) >= x
  BY <1>5, <1>6 DEF Max
<1>8. \A s \in Scripts : Len(s) \in Lengths
  BY DEF Lengths
<1> QED
  BY <1>2, <1>7, <1>8

\* The stream delivers what a script still holds.
Advances == pos' = pos \/ (pos' = pos + 1 /\ \E s \in Scripts : pos < Len(s))

LEMMA TakeAdvances ==
  ASSUME NEW c \in Getc, NEW back, Take(c, back)
  PROVE  Advances
<1>1. CASE unget # <<>>
  BY <1>1 DEF Take, Advances
<1>2. CASE unget = <<>>
  <2>1. \E s \in Scripts : Follows(s)
    BY <1>2 DEF Getc
  <2> QED
    BY <1>2, <2>1 DEF Take, Advances, Follows
<1> QED
  BY <1>1, <1>2

LEMMA StepAdvances ==
  ASSUME [Next]_vars
  PROVE  Advances
<1>1. CASE UNCHANGED pos
  BY <1>1 DEF Advances
<1>2. CASE UNCHANGED stream
  BY <1>1, <1>2 DEF stream
<1>3. CASE \E c \in Getc : \E back : Take(c, back)
  BY <1>3, TakeAdvances
<1>4. CASE Read \/ PutMissing \/ Putc \/ PutDone \/ Recover
  BY <1>1, <1>2, <1>4 DEF Read, PutMissing, Putc, PutDone, Recover
<1>5. CASE Comment \/ NextNonWs
  BY <1>2, <1>3, <1>5 DEF Comment, NextNonWs
<1>6. CASE NextCell
  <2>1. ASSUME NEW c \in Getc, NextCellChar(c) PROVE \E back : Take(c, back)
    BY <2>1 DEF NextCellChar, EnterBare, EnterWith
  <2> QED
    BY <1>1, <1>3, <1>6, <2>1 DEF NextCell
<1>7. CASE SymbolContext
  <2>1. ASSUME NEW c \in Getc, SymbolChar(c) PROVE \E back : Take(c, back)
    BY <2>1 DEF SymbolChar
  <2> QED
    BY <1>2, <1>3, <1>7, <2>1 DEF SymbolContext
<1>8. CASE IntegerContext
  <2>1. ASSUME NEW c \in Getc, IntegerChar(c) PROVE \E back : Take(c, back)
    BY <2>1 DEF IntegerChar
  <2> QED
    BY <1>2, <1>3, <1>8, <2>1 DEF IntegerContext
<1>9. CASE UNCHANGED vars
  BY <1>2, <1>9 DEF vars
<1> QED
  BY <1>4, <1>5, <1>6, <1>7, <1>8, <1>9 DEF Next, Work

-----------------------------------------------------------------------------
(* The reader with its printer.                                            *)

\* What holds whoever is at work.
BodyInv ==
  /\ StreamInv /\ CloseInv /\ ValueInv /\ ControlInv /\ GapInv
  /\ ArenaOf(bs) /\ Contexts(open) /\ TreeInv
  /\ in_comment \in BOOLEAN /\ missing.mark \in Addr

\* The printer's own mark is on top of the contexts for as long as it prints.
PrinterInv ==
  /\ pc = "idle" /\ missing.mark = NULL
  /\ printer \in [mark : Nat, newline : Nat]
  /\ printer.mark = Below(Current) /\ bs.bmark = printer.mark - PTR

PrintInv ==
  /\ BodyInv
  /\ at = "no" => ReaderInv
  /\ at # "no" => PrinterInv

LEMMA BodyOf == ReaderInv /\ ControlInv /\ GapInv => BodyInv
<1> SUFFICES ASSUME ReaderInv, ControlInv, GapInv PROVE BodyInv
  OBVIOUS
<1>1. StreamInv /\ CloseInv /\ ValueInv /\ StackInv /\ TreeInv /\ PlaceInv
  BY DEF ReaderInv, ArenaInv
<1>2. missing.mark \in Addr
  <2>1. CASE missing.mark = NULL
    BY <2>1, SizeIsNat DEF Addr, NULL
  <2>2. CASE missing.mark # NULL
    <3>1. pc # "thrown"
      BY <2>2 DEF ControlInv
    <3>2. ArenaOf(bs) /\ Contexts(open) /\ Chain(bs, open) /\ Topped(bs, open, missing.mark)
      BY <1>1, <2>2, <3>1 DEF StackInv, OnMark
    <3>3. PICK l \in Nat \ {0} : l = Len(open)
      BY <3>2, ContextsLast
    <3>4. bs.bptr <= Below(Last(open)) /\ Last(open) \in OpenContext
      BY <3>2, <3>3, ContextsLast DEF Chain
    <3>5. PICK m, b, o, s : /\ m = missing.mark /\ b = bs.bptr /\ o = Last(open).mark
                            /\ s = Size
      OBVIOUS
    <3>6. b \in Nat /\ o \in Nat /\ s \in Nat /\ o <= s /\ m \in Int /\ m < o
      BY <3>2, <3>4, <3>5, BelowIsInt, SizeIsNat DEF ArenaOf, Topped
    <3>7. b <= m
      BY <3>2, <3>4, <3>5 DEF Topped
    <3> QED
      BY <3>5, <3>6, <3>7 DEF Addr
  <2> QED
    BY <2>1, <2>2
<1> QED
  BY <1>1, <1>2 DEF BodyInv, StackInv, PlaceInv

\* A step of the reader.
LEMMA ReaderPrint ==
  ASSUME PrintInv, at = "no", [Next]_vars, UNCHANGED printing
  PROVE  PrintInv'
<1>1. ReaderInv /\ ControlInv /\ GapInv /\ at' = "no"
  BY DEF PrintInv, BodyInv, printing
<1>2. ReaderInv'
  BY <1>1, ReaderStep
<1>3. ControlInv' /\ GapInv'
  BY <1>1, <1>2, GapStep
<1>4. (ReaderInv /\ ControlInv /\ GapInv => BodyInv)'
  BY BodyOf, PTL
<1>5. BodyInv'
  BY <1>2, <1>3, <1>4
<1> QED
  BY <1>1, <1>2, <1>5 DEF PrintInv

\* The reader stands still.
LEMMA StillBody ==
  ASSUME BodyInv, UNCHANGED vars
  PROVE  BodyInv'
<1>1. /\ bs' = bs /\ open' = open /\ cells' = cells /\ pc' = pc /\ missing' = missing
      /\ in_comment' = in_comment /\ value' = value
  BY DEF vars, tree, output, locals
<1>2. StreamInv' /\ CloseInv'
  BY StutterStream, StutterClose DEF BodyInv
<1>3. ControlInv' /\ GapInv'
  BY StutterGap DEF BodyInv
<1> QED
  BY <1>1, <1>2, <1>3 DEF BodyInv, ValueInv, TreeInv

LEMMA StillPrint ==
  ASSUME PrintInv, at # "no", at' # "no", UNCHANGED vars, printer' \in [mark : Nat, newline : Nat],
         printer'.mark = printer.mark
  PROVE  PrintInv'
<1>1. BodyInv'
  BY StillBody DEF PrintInv
<1>2. bs' = bs /\ open' = open /\ pc' = pc /\ missing' = missing
  BY DEF vars, tree, output
<1>3. PrinterInv'
  BY <1>2 DEF PrintInv, PrinterInv, Current
<1> QED
  BY <1>1, <1>3 DEF PrintInv

LEMMA RunningPrint ==
  ASSUME PrintInv, Running
  PROVE  PrintInv'
<1>1. at = "running" /\ UNCHANGED vars /\ printer \in [mark : Nat, newline : Nat]
  BY DEF Running, PrintInv, PrinterInv
<1>2. ASSUME NEW context, NEW frames, Put(context, frames),
             context \in [mark : Nat, newline : Nat], context.mark = printer.mark
      PROVE  /\ at' # "no" /\ printer' \in [mark : Nat, newline : Nat]
             /\ printer'.mark = printer.mark
  BY <1>1, <1>2 DEF Put
<1>3. CASE Indent
  <2>1. PICK newline \in {0, printer.newline} :
          Put([printer EXCEPT !.newline = newline], frame_stack)
    BY <1>3 DEF Indent
  <2>2. PICK context : context = [printer EXCEPT !.newline = newline]
    OBVIOUS
  <2>3. context \in [mark : Nat, newline : Nat] /\ context.mark = printer.mark
    BY <1>1, <2>2
  <2>4. Put(context, frame_stack)
    BY <2>1, <2>2
  <2>5. /\ at' # "no" /\ printer' \in [mark : Nat, newline : Nat]
        /\ printer'.mark = printer.mark
    BY <1>2, <2>3, <2>4
  <2> QED
    BY <1>1, <2>5, StillPrint
<1>4. CASE Open
  <2>1. /\ at' # "no" /\ printer' \in [mark : Nat, newline : Nat]
        /\ printer'.mark = printer.mark
    BY <1>1, <1>2, <1>4 DEF Open
  <2> QED
    BY <1>1, <2>1, StillPrint
<1>5. CASE ShiftFrame \/ ReadNull
  <2>1. at' # "no" /\ printer' = printer
    BY <1>1, <1>5 DEF ShiftFrame, ReadNull
  <2> QED
    BY <1>1, <2>1, StillPrint
<1> QED
  BY <1>3, <1>4, <1>5 DEF Running

\* The locals and the stream as they were, after an error or not.
LEMMA SameStream ==
  ASSUME StreamInv, UNCHANGED <<stream, locals>>, pc = "idle", pc' \in {"idle", "thrown"}
  PROVE  StreamInv'
BY DEF StreamInv, StreamType, stream, locals

LEMMA SameClose ==
  ASSUME CloseInv, UNCHANGED <<open, output, result>>, pc = "idle", pc' \in {"idle", "thrown"}
  PROVE  CloseInv'
<1>1. open' = open /\ missing' = missing /\ written' = written /\ result' = result
  BY DEF output
<1>2. Closers' = Closers
  BY <1>1 DEF Closers
<1> QED
  BY <1>1, <1>2 DEF CloseInv, NestInv, MissingInv, Reading

\* A pprint begins, or there is no room for it.
LEMMA BeginPrint ==
  ASSUME PrintInv, at = "no", pc = "idle", missing.mark = NULL,
         UNCHANGED <<open, stream, locals, output, in_comment, result>>,
         NEW done, done = PerformAll(bs, PprintCalls), bs' = done.bs, Clobber(done.bs),
         \/ Throw("BISTACK_OUT_OF_MEMORY") /\ UNCHANGED printing
         \/ /\ done.ok /\ at' = "running" /\ UNCHANGED <<pc, thrown>>
            /\ \E newline \in Stale : printer' = [mark |-> StackTop(bs), newline |-> newline]
  PROVE  PrintInv'
<1>1. /\ ReaderInv /\ BodyInv /\ Plain /\ StreamInv /\ CloseInv /\ ArenaInv /\ ValueInv
      /\ ControlInv /\ GapInv
  BY DEF PrintInv, BodyInv, ReaderInv, ArenaInv, Plain
<1>2. PICK calls, w : /\ calls = PprintCalls /\ Downward(calls) /\ Weighs(w, calls)
                      /\ w[Len(calls)] = PrinterBytes
  BY PrinterWeighs
<1>3. done = PerformAll(bs, calls)
  BY <1>2
<1>4. /\ ArenaOf(done.bs) /\ done.bs.fptr = bs.fptr
      /\ bs.bptr - w[Len(calls)] <= done.bs.bptr
      /\ StackTop(bs) = bs.bptr
      /\ done.ok => Topped(done.bs, open, bs.bptr)
  BY <1>1, <1>2, <1>3, BuiltMemory
<1>5. /\ open' = open /\ missing' = missing /\ in_comment' = in_comment /\ result' = result
      /\ value' = value /\ pc' \in {"idle", "thrown"}
  BY DEF output, locals, Throw
<1>6. TreeInv'
  <2>1. Tree(bs.fptr, open, cells')
    BY <1>1, ClobberedTree
  <2> QED
    BY <1>4, <1>5, <2>1 DEF TreeInv
<1>7. GapInv'
  <2>1. PICK b, e, k : b = done.bs /\ e = b.bptr /\ k = w[Len(calls)]
    OBVIOUS
  <2>2. e \in Nat
    BY <1>4, <2>1 DEF ArenaOf
  <2>3. k \in {FrameBytes, PrinterBytes}
    BY <1>2, <2>1
  <2>4. bs.bptr - k <= e /\ bs'.fptr = bs.fptr
    BY <1>4, <2>1
  <2>5. Clobber(b)
    BY <2>1
  <2> QED
    BY <1>1, <1>5, <2>1, <2>2, <2>3, <2>4, <2>5, BuiltGap
<1>8. StreamInv' /\ CloseInv' /\ ValueInv'
  BY <1>1, <1>5, SameStream, SameClose DEF ValueInv
<1>9. ControlInv'
  <2>1. thrown # "overrun"
    BY <1>1 DEF ControlInv
  <2>2. "BISTACK_OUT_OF_MEMORY" \in Errors /\ "BISTACK_OUT_OF_MEMORY" # "overrun"
    BY DEF Errors
  <2> QED
    BY <1>1, <1>5, <2>1, <2>2 DEF ControlInv, Throw
<1>10. BodyInv'
  BY <1>1, <1>4, <1>5, <1>6, <1>7, <1>8, <1>9 DEF BodyInv
<1>11. CASE Throw("BISTACK_OUT_OF_MEMORY") /\ UNCHANGED printing
  <2>1. pc' = "thrown" /\ at' = "no"
    BY <1>11 DEF Throw, printing
  <2>2. StackInv'
    BY <1>10, <2>1 DEF BodyInv, StackInv
  <2>3. PlaceInv'
    BY <1>10, <2>1 DEF BodyInv, PlaceInv
  <2>4. ReaderInv'
    BY <1>6, <1>8, <2>2, <2>3 DEF ReaderInv, ArenaInv
  <2> QED
    BY <1>10, <2>1, <2>4 DEF PrintInv
<1>12. CASE /\ done.ok /\ at' = "running" /\ UNCHANGED <<pc, thrown>>
            /\ \E newline \in Stale : printer' = [mark |-> StackTop(bs), newline |-> newline]
  <2>1. PICK newline \in Nat : printer' = [mark |-> bs.bptr, newline |-> newline]
    <3>1. Stale \subseteq Nat
      BY StaleAssumption
    <3> QED
      BY <1>4, <1>12, <3>1
  <2>2. bs.bptr \in Nat
    BY <1>1, PlainStack DEF ArenaOf
  <2>3. printer' \in [mark : Nat, newline : Nat] /\ printer'.mark = bs.bptr
    BY <2>1, <2>2
  <2>4. bs.bptr = Below(Current) /\ bs'.bmark = bs.bptr - PTR
    BY <1>4, <1>12 DEF Topped, Current
  <2>5. PrinterInv'
    BY <1>5, <1>12, <2>3, <2>4 DEF PrinterInv, Current
  <2> QED
    BY <1>10, <1>12, <2>5 DEF PrintInv
<1> QED
  BY <1>11, <1>12

LEMMA PprintPrint ==
  ASSUME PrintInv, Pprint
  PROVE  PrintInv'
<1>1. CASE /\ at = "refused" /\ at' = "running"
           /\ UNCHANGED <<bs, cells, pc, thrown, printer, frame_stack>>
  <2>1. UNCHANGED vars
    BY <1>1 DEF Pprint, vars, tree
  <2>2. printer' = printer /\ printer \in [mark : Nat, newline : Nat]
    BY <1>1 DEF PrintInv, PrinterInv
  <2> QED
    BY <1>1, <2>1, <2>2, StillPrint
<1>2. ASSUME at = "no", NEW done, done = PerformAll(bs, PprintCalls),
             bs' = done.bs, Clobber(done.bs),
             IF ~done.ok
                THEN Throw("BISTACK_OUT_OF_MEMORY") /\ UNCHANGED printing
                ELSE /\ at' = "running"
                     /\ \E newline, prefix_counter \in Stale :
                          /\ printer' = [mark |-> StackTop(bs), newline |-> newline]
                          /\ frame_stack' = <<prefix_counter>>
                     /\ UNCHANGED <<pc, thrown>>
      PROVE  PrintInv'
  <2>1. /\ pc = "idle" /\ missing.mark = NULL
        /\ UNCHANGED <<open, stream, locals, output, in_comment, result>>
    BY DEF Pprint
  <2>2. CASE ~done.ok
    <3>1. Throw("BISTACK_OUT_OF_MEMORY") /\ UNCHANGED printing
      BY <1>2, <2>2
    <3> QED
      BY <1>2, <2>1, <3>1, BeginPrint
  <2>3. CASE done.ok
    <3>1. /\ done.ok /\ at' = "running" /\ UNCHANGED <<pc, thrown>>
          /\ \E newline \in Stale : printer' = [mark |-> StackTop(bs), newline |-> newline]
      BY <1>2, <2>3
    <3> QED
      BY <1>2, <2>1, <3>1, BeginPrint
  <2> QED
    BY <2>2, <2>3
<1>3. CASE /\ at = "no"
           /\ LET done == PerformAll(bs, PprintCalls) IN
              /\ bs' = done.bs
              /\ Clobber(done.bs)
              /\ IF ~done.ok
                THEN Throw("BISTACK_OUT_OF_MEMORY") /\ UNCHANGED printing
                ELSE /\ at' = "running"
                     /\ \E newline, prefix_counter \in Stale :
                          /\ printer' = [mark |-> StackTop(bs), newline |-> newline]
                          /\ frame_stack' = <<prefix_counter>>
                     /\ UNCHANGED <<pc, thrown>>
  BY <1>2, <1>3
<1> QED
  BY <1>1, <1>3 DEF Pprint

LEMMA PrintStart ==
  ASSUME PrintInit
  PROVE  PrintInv
<1>1. Init /\ at = "no"
  BY DEF PrintInit, NotPrinting
<1>2. ReaderInv
  BY <1>1, ReaderInit
<1>3. ControlInv /\ GapInv
  BY <1>1, <1>2, GapInit
<1> QED
  BY <1>1, <1>2, <1>3, BodyOf DEF PrintInv

LEMMA PrintStep ==
  ASSUME PrintInv, [PrintNext]_<<vars, printing>>
  PROVE  PrintInv'
<1>1. CASE at = "no" /\ Next /\ UNCHANGED printing
  BY <1>1, ReaderPrint
<1>2. CASE Pprint
  BY <1>2, PprintPrint
<1>3. CASE Running
  BY <1>3, RunningPrint
<1>4. CASE UNCHANGED <<vars, printing>>
  <2>1. at' = at /\ printer' = printer
    BY <1>4 DEF printing
  <2>2. CASE at = "no"
    <3>1. [Next]_vars /\ UNCHANGED printing
      BY <1>4
    <3> QED
      BY <2>2, <3>1, ReaderPrint
  <2>3. CASE at # "no"
    <3>1. printer \in [mark : Nat, newline : Nat]
      BY <2>3 DEF PrintInv, PrinterInv
    <3> QED
      BY <1>4, <2>1, <2>3, <3>1, StillPrint
  <2> QED
    BY <2>2, <2>3
<1> QED
  BY <1>1, <1>2, <1>3, <1>4 DEF PrintNext

\* Whatever the reader is in the middle of, each context lies directly under
\* the one it is in and on the mark that its end rewinds, and so does an
\* unfinished put_missing or pprint: no sequence of calls, refusals and errors
\* makes a rewind go to the wrong mark.
THEOREM PrinterOnStack == PrintSpec => []PrinterStacked
<1>1. PrintInit => PrintInv
  BY PrintStart
<1>2. PrintInv /\ [PrintNext]_<<vars, printing>> => PrintInv'
  BY PrintStep
<1>3. PrintInv => PrinterStacked
  <2> SUFFICES ASSUME PrintInv PROVE PrinterStacked
    OBVIOUS
  <2>1. at = "no" => ContextsStacked
    BY ChainStacked DEF PrintInv, ReaderInv
  <2>2. at # "no" => printer.mark = Below(Current) /\ bs.bmark = printer.mark - PTR
    BY DEF PrintInv, PrinterInv
  <2> QED
    BY <2>1, <2>2 DEF PrinterStacked
<1> QED
  BY <1>1, <1>2, <1>3, PTL DEF PrintSpec

\* How much room an unfinished symbol needs, for all sizes: its characters run
\* into a context, or are overwritten by what put_missing and pprint build,
\* only where the gap between the stacks is less than the longest symbol, or
\* than that and what they build.
THEOREM HeadroomBound == PrintSpec => []HeadroomSuffices
<1>1. PrintInit => PrintInv
  BY PrintStart
<1>2. PrintInv /\ [PrintNext]_<<vars, printing>> => PrintInv'
  BY PrintStep
<1>3. PrintInv => HeadroomSuffices
  <2> SUFFICES ASSUME PrintInv PROVE HeadroomSuffices
    OBVIOUS
  <2>1. thrown = "overrun" => Gap < MaxSymbol
    BY DEF PrintInv, BodyInv, ControlInv
  <2>2. Garbage \in Range(Header.text) /\ InAtom => Gap < MaxSymbol + Max({FrameBytes, PrinterBytes})
    BY DEF PrintInv, BodyInv, GapInv, Smudged
  <2> QED
    BY <2>1, <2>2 DEF HeadroomSuffices, Gap
<1> QED
  BY <1>1, <1>2, <1>3, PTL DEF PrintSpec

LEMMA BodyTypes ==
  ASSUME BodyInv, pos \in 0 .. Max(Lengths)
  PROVE  TypeOK
<1>1. /\ StreamInv /\ CloseInv /\ ValueInv /\ ControlInv
      /\ ArenaOf(bs) /\ Contexts(open) /\ Tree(bs.fptr, open, cells)
  BY DEF BodyInv, TreeInv
<1>2. bs \in [fptr : Addr, fmark : Addr, bptr : Addr, bmark : Addr, mem : {bs.mem},
              dir : [0 .. DirBits - 1 -> {BS_FORWARD, BS_BACKWARD}]]
  <2>1. /\ bs \in [fptr : Nat, fmark : Nat, bptr : Nat, bmark : Nat, mem : {bs.mem},
                   dir : [0 .. DirBits - 1 -> {BS_FORWARD, BS_BACKWARD}]]
        /\ bs.fptr <= bs.bptr /\ bs.bptr <= Size /\ bs.fmark <= Size /\ bs.bmark <= Size
    BY <1>1 DEF ArenaOf, Bits
  <2>2. bs.fptr \in Addr /\ bs.fmark \in Addr /\ bs.bptr \in Addr /\ bs.bmark \in Addr
    BY <2>1, SizeIsNat DEF Addr
  <2> QED
    BY <2>1, <2>2
<1>3. /\ open # <<>> /\ cells # <<>>
      /\ open \in Seq([type : Types, prefix : AstPrefixes, mark : Addr,
                       cell : 1 .. Len(cells), is_escaped : BOOLEAN])
  <2>1. PICK n \in Nat \ {0} : n = Len(cells)
    BY <1>1, TreeCells
  <2>2. cells # <<>>
    BY <2>1
  <2>3. PICK l \in Nat \ {0} : l = Len(open)
    BY <1>1, ContextsLast
  <2>4. open \in Seq(OpenContext) /\ open # <<>>
    BY <1>1 DEF Contexts
  <2>5. ASSUME NEW i \in 1 .. l
        PROVE  open[i] \in [type : Types, prefix : AstPrefixes, mark : Addr,
                            cell : 1 .. n, is_escaped : BOOLEAN]
    <3>1. open[i] \in OpenContext
      BY <2>3, <2>4
    <3>2. open[i].cell \in 1 .. n
      BY <1>1, <2>1, <2>3 DEF Tree
    <3> QED
      BY <3>1, <3>2 DEF OpenContext, Addr
  <2>6. open = [i \in 1 .. l |-> open[i]]
    BY <2>3, <2>4
  <2>7. open \in Seq([type : Types, prefix : AstPrefixes, mark : Addr,
                      cell : 1 .. n, is_escaped : BOOLEAN])
    <3>1. PICK S : S = [type : Types, prefix : AstPrefixes, mark : Addr,
                        cell : 1 .. n, is_escaped : BOOLEAN]
      OBVIOUS
    <3>2. \A i \in 1 .. l : open[i] \in S
      BY <2>5, <3>1
    <3>3. open \in Seq(S)
      <4>1. open \in [1 .. l -> S]
        BY ONLY <2>6, <3>2
      <4>2. l \in Nat
        BY <2>3
      <4> QED
        BY ONLY <4>1, <4>2, SeqDef
    <3> QED
      BY <3>1, <3>3
  <2> QED
    BY <2>1, <2>2, <2>4, <2>7
<1>4. cells \in Seq([cell : Cells, at : Addr])
  BY <1>1 DEF Tree, CellRecord, Addr
<1>5. /\ unget \in Seq(Chars) /\ Len(unget) <= UngetLimit
      /\ chars_read \in Seq(PrefixChars) /\ Len(chars_read) <= PrefixLimit
      /\ asttype \in AstPrefixes /\ text \in Seq(Chars)
  BY <1>1 DEF StreamInv, StreamType
<1>6. value \in 0 .. ValueModulus - 1
  BY <1>1 DEF ValueInv
<1>7. /\ missing.frames \in Seq(Chars \cup {"_"}) /\ written \in Seq(Chars \cup {"_"})
  <2>1. EndChars \subseteq Chars \cup {"_"}
    BY DEF EndChars, Chars, PrefixChars
  <2>2. PICK V : missing \in [mark : V, frames : Seq(EndChars)]
    BY <1>1 DEF CloseInv, MissingInv
  <2>3. missing.frames \in Seq(EndChars) /\ written \in Seq(EndChars)
    BY <1>1, <2>2 DEF CloseInv, MissingInv
  <2> QED
    BY <2>1, <2>3, SeqMonotonic
<1>8. missing.mark \in Addr /\ in_comment \in BOOLEAN
  BY DEF BodyInv
<1>9. /\ pc \in {"idle", "comment", "cell_comment", "next_non_ws", "next_cell",
                 "symbol_context", "integer_context", "put_missing", "thrown"}
      /\ result \in {"none", "read", "put"} \X BOOLEAN
      /\ thrown \in {"none", "overrun", "BISTACK_OUT_OF_MEMORY", "READER_SYNTAX_ERROR",
                     "READER_STATE_ERROR", "READER_SYNTAX_SPURIOUS_LIST_TERMINATOR"}
  BY <1>1 DEF ControlInv, Places, Reading, Results, Errors
<1>10. pos \in 0 .. Max({Len(s) : s \in Scripts})
  BY DEF Lengths
<1> QED
  BY <1>2, <1>3, <1>4, <1>5, <1>6, <1>7, <1>8, <1>9, <1>10 DEF TypeOK

\* No step goes past the longest script.
LEMMA PosStays ==
  ASSUME Scripts # {}, NEW n \in Nat, \A s \in Scripts : Len(s) <= n,
         pos \in 0 .. Max(Lengths), [PrintNext]_<<vars, printing>>
  PROVE  pos' \in 0 .. Max(Lengths)
<1>1. Max(Lengths) \in Nat /\ \A s \in Scripts : Len(s) \in Nat /\ Len(s) <= Max(Lengths)
  BY LongestScript
<1>2. Advances
  <2>1. CASE Next \/ UNCHANGED vars
    BY <2>1, StepAdvances
  <2>2. CASE Running
    BY <2>2, StepAdvances DEF Running
  <2>3. CASE Pprint
    BY <2>3 DEF Pprint, stream, Advances
  <2> QED
    BY <2>1, <2>2, <2>3 DEF PrintNext
<1>3. PICK m \in Nat, p \in Nat : m = Max(Lengths) /\ p = pos /\ p <= m
  BY <1>1
<1>4. CASE pos' = pos
  BY <1>4
<1>5. ASSUME pos' = pos + 1, NEW s \in Scripts, pos < Len(s)
      PROVE  pos' \in 0 .. Max(Lengths)
  <2>1. PICK l \in Nat : l = Len(s) /\ l <= m
    BY <1>1, <1>3
  <2>2. p + 1 \in 0 .. m
    BY <1>3, <1>5, <2>1
  <2> QED
    BY <1>3, <1>5, <2>2
<1> QED
  BY <1>2, <1>4, <1>5 DEF Advances

\* The arena's pointers stay in the arena, the characters put back and the
\* prefix characters in their buffers, each open context has its cell, and the
\* reader reads no more than the longest script holds.
THEOREM ReaderTyped ==
  ASSUME Scripts # {}, \E n \in Nat : \A s \in Scripts : Len(s) <= n
  PROVE  PrintSpec => []TypeOK
<1> DEFINE Within == pos \in 0 .. Max(Lengths)
<1>1. PICK n \in Nat : \A s \in Scripts : Len(s) <= n
  OBVIOUS
<1>2. PrintInit => PrintInv /\ Within
  <2> SUFFICES ASSUME PrintInit PROVE PrintInv /\ Within
    OBVIOUS
  <2>1. pos = 0
    BY DEF PrintInit, Init, InitOn
  <2>2. Max(Lengths) \in Nat
    BY <1>1, LongestScript
  <2> QED
    BY <2>1, <2>2, PrintStart
<1>3. PrintInv /\ Within /\ [PrintNext]_<<vars, printing>> => PrintInv' /\ Within'
  <2> SUFFICES ASSUME PrintInv, Within, [PrintNext]_<<vars, printing>> PROVE PrintInv' /\ Within'
    OBVIOUS
  <2>1. PrintInv'
    BY PrintStep
  <2>2. pos' \in 0 .. Max(Lengths)
    BY <1>1, PosStays
  <2> QED
    BY <2>1, <2>2
<1>4. PrintInv /\ Within => TypeOK
  BY BodyTypes DEF PrintInv
<1> QED
  BY <1>2, <1>3, <1>4, PTL DEF PrintSpec
=============================================================================
