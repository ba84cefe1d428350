----------------------------- MODULE ListProofs -----------------------------
(***************************************************************************)
(* Proofs about list.c.  List: the count is the length of the list and its *)
(* tail the last node, and the list implements a sequence with two ends.   *)
(* Multistring, at the end: a string is read as it was written.            *)
(*                                                                         *)
(* A node that was taken off the list stays in the arena, linked to what   *)
(* came after it, so the links of the nodes on the list say nothing of the *)
(* others.  What holds of all of them, and makes From a recursion that     *)
(* ends, is that no links make a circle: the nodes can be laid out in a    *)
(* row along which every link leads on.  The invariant is that, and that   *)
(* the nodes on the list are a path along the links from head to tail.     *)
(* Each operation is shown for nodes and paths first, then for the list.   *)
(***************************************************************************)
EXTENDS List, Multistring, FiniteSetTheorems, WellFoundedInduction, SequenceTheorems, TLAPS

\* A node, and the nodes of an arena, each linked to another one of it or to none.
Cell == [next : Nat, val : Values]

Nodes == Seq(Cell)

Inside(nd) == \A x \in 1 .. Len(nd) : nd[x].next \in 0 .. Len(nd)

\* No links make a circle, those of nodes taken off the list neither: the nodes
\* can be laid out in a row along which every link leads on.
Forward(nd) ==
  \E lo, hi \in Int : \E pos \in [1 .. Len(nd) -> Int] :
    /\ lo < hi
    /\ \A x \in 1 .. Len(nd) :
         /\ lo < pos[x] /\ pos[x] < hi
         /\ nd[x].next # Nil => pos[x] < pos[nd[x].next]

Arena(nd) == nd \in Nodes /\ Inside(nd) /\ Forward(nd)

\* The nodes of the list, each once, as they are linked.
Path(nd, P) ==
  /\ P \in Seq(1 .. Len(nd))
  /\ \A i, j \in 1 .. Len(P) : P[i] = P[j] => i = j
  /\ \A i \in 1 .. Len(P) : nd[P[i]].next = IF i = Len(P) THEN Nil ELSE P[i + 1]

HeadOf(P) == IF P = <<>> THEN Nil ELSE P[1]

TailOf(P) == IF P = <<>> THEN Nil ELSE P[Len(P)]

OnList(P) ==
  /\ Path(node, P)
  /\ list = [head |-> HeadOf(P), tail |-> TailOf(P), count |-> Count(Len(P))]

ListInv == Arena(node) /\ \E P : OnList(P)

-----------------------------------------------------------------------------
(* Numbers.                                                                *)

\* A set of numbers that is not empty has a least one.
LEMMA NatMinimum ==
  ASSUME NEW T, T \subseteq Nat, T # {}
  PROVE \E n \in T : \A m \in T : n <= m
<1> DEFINE U == {1 .. n : n \in T}
<1>1. IsWellFoundedOn(StrictSubsetOrdering(Nat), FiniteSubsetsOf(Nat))
  BY FS_StrictSubsetOrderingWellFounded
<1>2. \A n \in T : IsFiniteSet(1 .. n) /\ 1 .. n \in SUBSET Nat
  BY FS_Interval
<1>3. U \subseteq FiniteSubsetsOf(Nat) /\ U # {}
  BY <1>2 DEF FiniteSubsetsOf
<1>4. PICK x \in U : \A y \in U : ~ (<<y, x>> \in StrictSubsetOrdering(Nat))
  BY <1>1, <1>3, WFMin
<1>5. PICK n \in T : x = 1 .. n
  OBVIOUS
<1>6. ASSUME NEW m \in T, m < n PROVE FALSE
  <2>1. 1 .. m \in U /\ 1 .. m \subseteq 1 .. n /\ n \in 1 .. n /\ n \notin 1 .. m
    BY <1>6
  <2>2. <<1 .. m, 1 .. n>> \in StrictSubsetOrdering(Nat)
    BY <2>1, <1>2 DEF StrictSubsetOrdering
  <2> QED BY <1>4, <1>5, <2>1, <2>2
<1> QED
  BY <1>6

\* The count comes round at a power of two.
LEMMA PowerOfTwo ==
  ASSUME NEW k \in Nat
  PROVE  2 ^ k \in Nat \ {0}
<1>1. IsFiniteSet(1 .. k) /\ Cardinality(1 .. k) = k
  <2>1. Cardinality(1 .. k) = IF 1 > k THEN 0 ELSE k - 1 + 1
    BY FS_Interval
  <2> QED
    BY <2>1, FS_Interval
<1>2. IsFiniteSet(SUBSET (1 .. k)) /\ Cardinality(SUBSET (1 .. k)) = 2 ^ k
  BY <1>1, FS_SUBSET
<1>3. Cardinality(SUBSET (1 .. k)) \in Nat /\ Cardinality(SUBSET (1 .. k)) # 0
  <2>1. SUBSET (1 .. k) # {}
    OBVIOUS
  <2> QED
    BY <1>2, <2>1, FS_EmptySet, FS_CardinalityType
<1> QED
  BY <1>2, <1>3

\* The remainder of the next number.
LEMMA NextRemainder ==
  ASSUME NEW B \in Nat \ {0}, NEW i \in Nat
  PROVE  /\ i % B \in 0 .. B - 1
         /\ (i + 1) % B = IF i % B = B - 1 THEN 0 ELSE (i % B) + 1
<1>1. IF i % B = B - 1
        THEN (i + 1) % B = 0 /\ (i + 1) \div B = (i \div B) + 1
        ELSE (i + 1) % B = (i % B) + 1 /\ (i + 1) \div B = i \div B
  OBVIOUS
<1>2. i % B \in 0 .. B - 1
  OBVIOUS
<1> QED
  BY <1>1, <1>2

\* Counting up and down again, in the bits that the count has.
LEMMA CountSteps ==
  ASSUME NEW n \in Nat
  PROVE  Count(Count(n) + 1) = Count(n + 1) /\ Count(Count(n + 1) - 1) = Count(n)
<1>1. PICK B \in Nat \ {0} : B = 2 ^ COUNT_BITS
  BY ListAssumption, PowerOfTwo
<1>2. PICK r \in 0 .. B - 1 : r = n % B
  BY NextRemainder
<1>3. (n + 1) % B = IF r = B - 1 THEN 0 ELSE r + 1
  BY <1>2, NextRemainder
<1>4. B % B = 0 /\ (-1) % B = B - 1
  <2>1. B % B = 0
    OBVIOUS
  <2>2. (-1) % B = B - 1
    OBVIOUS
  <2> QED
    BY <2>1, <2>2
<1>5. \A k \in 0 .. B - 1 : k % B = k
  OBVIOUS
<1>6. CASE r = B - 1
  <2>1. r + 1 = B /\ 0 - 1 = -1
    BY <1>6
  <2> QED
    BY <1>1, <1>2, <1>3, <1>4, <1>6, <2>1 DEF Count
<1>7. CASE r # B - 1
  <2>1. r + 1 \in 0 .. B - 1 /\ (r + 1) - 1 = r
    BY <1>7
  <2> QED
    BY <1>1, <1>2, <1>3, <1>5, <1>7, <2>1 DEF Count
<1> QED
  BY <1>6, <1>7

-----------------------------------------------------------------------------
(* Following the links.                                                    *)

\* The nodes from n on, in an arena.
Trail(nd, n) ==
  LET on[x \in 0 .. Len(nd)] == IF x = Nil THEN <<>> ELSE <<x>> \o on[nd[x].next]
  IN on[n]

\* f follows the links from the nodes in S.
Follows(nd, f, S) ==
  \A x \in S : f[x] = IF x = Nil THEN <<>> ELSE <<x>> \o f[nd[x].next]

\* The recursion has a solution: from one for the nodes in the last k places of
\* the row there is one for those in the last k + 1.
LEMMA TrailExists ==
  ASSUME NEW nd, Arena(nd)
  PROVE  \E f : Follows(nd, f, 0 .. Len(nd)) /\ \A n : Trail(nd, n) = f[n]
<1>1. PICK N \in Nat : N = Len(nd)
  BY DEF Arena, Nodes
<1>2. PICK lo \in Int, hi \in Int, pos \in [1 .. N -> Int] :
        /\ lo < hi
        /\ \A x \in 1 .. N :
             /\ lo < pos[x] /\ pos[x] < hi
             /\ nd[x].next # Nil => pos[x] < pos[nd[x].next]
  BY <1>1 DEF Arena, Forward
<1>3. \A x \in 1 .. N : nd[x].next \in 0 .. N
  BY <1>1 DEF Arena, Inside
<1> DEFINE Late(k) == {x \in 0 .. N : x = Nil \/ pos[x] >= hi - k}
           Solved(k) == \E f : f = [x \in 0 .. N |-> f[x]] /\ Follows(nd, f, Late(k))
<1>4. Solved(0)
  <2>1. PICK f : f = [x \in 0 .. N |-> <<>>]
    OBVIOUS
  <2>2. \A x \in Late(0) : x = Nil
    BY <1>2 DEF Nil
  <2>3. 0 \in 0 .. N
    OBVIOUS
  <2>4. f = [x \in 0 .. N |-> f[x]] /\ f[Nil] = <<>>
    BY <2>1, <2>3 DEF Nil
  <2> QED
    BY <2>2, <2>4 DEF Follows
<1>5. ASSUME NEW k \in Nat, Solved(k) PROVE Solved(k + 1)
  <2>1. PICK f : Follows(nd, f, Late(k))
    BY <1>5
  <2>2. PICK g : g = [x \in 0 .. N |-> IF x \in Late(k) THEN f[x]
                                       ELSE <<x>> \o f[nd[x].next]]
    OBVIOUS
  <2>3. ASSUME NEW x \in Late(k + 1), x # Nil
        PROVE  x \in 1 .. N /\ nd[x].next \in Late(k) /\ g[nd[x].next] = f[nd[x].next]
    <3>1. x \in 1 .. N /\ pos[x] >= hi - (k + 1)
      BY <2>3 DEF Nil
    <3>2. nd[x].next \in 0 .. N
      BY <1>3, <3>1
    <3>3. nd[x].next = Nil \/ pos[nd[x].next] >= hi - k
      <4>1. CASE nd[x].next # Nil
        <5>1. nd[x].next \in 1 .. N
          BY <3>2, <4>1 DEF Nil
        <5>2. PICK p \in Int : p = pos[x]
          BY <3>1
        <5>3. PICK q \in Int : q = pos[nd[x].next]
          BY <5>1
        <5>4. p < q
          BY <1>2, <3>1, <4>1, <5>2, <5>3
        <5> QED
          BY <3>1, <5>2, <5>3, <5>4
      <4> QED
        BY <4>1
    <3>4. nd[x].next \in Late(k)
      BY <3>2, <3>3
    <3> QED
      BY <2>2, <3>1, <3>2, <3>4
  <2>4. ASSUME NEW x \in Late(k + 1)
        PROVE  g[x] = IF x = Nil THEN <<>> ELSE <<x>> \o g[nd[x].next]
    <3>1. CASE x = Nil
      <4>1. x \in Late(k) /\ x \in 0 .. N
        BY <3>1 DEF Nil
      <4>2. f[x] = <<>>
        BY <2>1, <3>1, <4>1 DEF Follows
      <4> QED
        BY <2>2, <3>1, <4>1, <4>2
    <3>2. CASE x # Nil /\ x \in Late(k)
      <4>1. g[x] = f[x] /\ f[x] = <<x>> \o f[nd[x].next]
        BY <2>1, <2>2, <3>2 DEF Follows
      <4> QED
        BY <2>3, <3>2, <4>1
    <3>3. CASE x # Nil /\ x \notin Late(k)
      <4>1. g[x] = <<x>> \o f[nd[x].next]
        BY <2>2, <3>3
      <4> QED
        BY <2>3, <3>3, <4>1
    <3> QED
      BY <3>1, <3>2, <3>3
  <2>5. g = [x \in 0 .. N |-> g[x]]
    BY <2>2
  <2> QED
    BY <2>4, <2>5 DEF Follows
<1>6. \A k \in Nat : Solved(k)
  <2> DEFINE Unsolved == {k \in Nat : ~Solved(k)}
  <2> HIDE DEF Solved
  <2>1. SUFFICES ASSUME Unsolved # {} PROVE FALSE
    OBVIOUS
  <2>2. PICK k \in Unsolved : \A m \in Unsolved : k <= m
    <3>1. Unsolved \subseteq Nat
      OBVIOUS
    <3>2. \A T : T \subseteq Nat /\ T # {} => \E n \in T : \A m \in T : n <= m
      BY NatMinimum
    <3> HIDE DEF Unsolved
    <3> QED
      BY <2>1, <3>1, <3>2
  <2>3. k # 0 /\ k - 1 \in Nat
    BY <1>4, <2>2
  <2>4. Solved(k - 1)
    BY <2>2, <2>3
  <2>5. Solved((k - 1) + 1)
    BY <1>5, <2>3, <2>4
  <2> QED
    BY <2>2, <2>3, <2>5
<1>7. PICK f : f = [x \in 0 .. N |-> f[x]] /\ Follows(nd, f, 0 .. N)
  <2>1. PICK k \in Nat : \A x \in 1 .. N : pos[x] >= hi - k
    <3>1. ASSUME NEW x \in 1 .. N PROVE pos[x] >= hi - (hi - lo)
      <4>1. pos[x] \in Int /\ lo < pos[x]
        BY <1>2
      <4> QED
        BY <4>1
    <3>2. hi - lo \in Nat
      BY <1>2
    <3> QED
      BY <3>1, <3>2
  <2>2. Late(k) = 0 .. N
    BY <2>1 DEF Nil
  <2> QED
    BY <1>6, <2>2
<1> DEFINE Sol(on) == on = [x \in 0 .. Len(nd) |-> IF x = Nil THEN <<>> ELSE <<x>> \o on[nd[x].next]]
<1>8. Sol(f)
  BY <1>1, <1>7 DEF Follows
<1>9. PICK g : g = CHOOSE on : Sol(on)
  OBVIOUS
<1>10. Sol(g)
  BY <1>8, <1>9
<1>11. \A n : Trail(nd, n) = g[n]
  BY <1>9 DEF Trail
<1>12. Follows(nd, g, 0 .. Len(nd))
  BY <1>10 DEF Follows
<1> QED
  BY <1>11, <1>12


\* What follows a node of the list is the rest of the list.
LEMMA TrailIsPath ==
  ASSUME NEW nd, Arena(nd), NEW P, Path(nd, P)
  PROVE  Trail(nd, HeadOf(P)) = P
<1>1. PICK f : Follows(nd, f, 0 .. Len(nd)) /\ \A x : Trail(nd, x) = f[x]
  BY TrailExists
<1>2. PICK N \in Nat : N = Len(nd)
  BY DEF Arena, Nodes
<1>3. PICK n \in Nat :
        /\ n = Len(P) /\ P \in [1 .. n -> 1 .. N]
        /\ \A i \in 1 .. n : nd[P[i]].next = IF i = n THEN Nil ELSE P[i + 1]
  <2>1. P \in Seq(1 .. N)
    BY <1>2 DEF Path
  <2>2. Len(P) \in Nat /\ P \in [1 .. Len(P) -> 1 .. N]
    BY <2>1, LenProperties
  <2> QED
    BY <2>2 DEF Path
<1>0. ASSUME NEW i \in 1 .. n PROVE P[i] \in 1 .. N /\ P[i] \in 0 .. Len(nd) /\ P[i] # Nil
  <2>1. P[i] \in 1 .. N
    BY <1>3
  <2>2. \A x \in 1 .. N : x \in 0 .. Len(nd) /\ x # Nil
    BY <1>2 DEF Nil
  <2> QED
    BY <2>1, <2>2
<1> DEFINE Rest(i) == [k \in 1 .. (n - i) + 1 |-> P[i + k - 1]]
<1>4. \A i \in 1 .. n : Rest(i) \in Seq(1 .. N)
  <2>1. ASSUME NEW i \in 1 .. n PROVE Rest(i) \in Seq(1 .. N)
    <3>1. (n - i) + 1 \in Nat /\ \A k \in 1 .. (n - i) + 1 : i + k - 1 \in 1 .. n
      OBVIOUS
    <3>2. Rest(i) \in [1 .. (n - i) + 1 -> 1 .. N]
      BY <1>3, <3>1
    <3> QED
      BY <3>1, <3>2
  <2> QED
    BY <2>1
<1>5. ASSUME NEW i \in 1 .. n PROVE f[P[i]] = <<P[i]>> \o f[nd[P[i]].next]
  <2>1. P[i] \in 0 .. Len(nd) /\ P[i] # Nil
    BY <1>0
  <2> QED
    BY <1>1, <2>1 DEF Follows
<1>6. f[Nil] = <<>>
  <2>1. Nil \in 0 .. Len(nd)
    BY <1>2 DEF Nil
  <2> QED
    BY <1>1, <2>1 DEF Follows
<1>7. n > 0 => f[P[n]] = Rest(n)
  <2>1. ASSUME n > 0 PROVE f[P[n]] = Rest(n)
    <3>1. nd[P[n]].next = Nil
      <4>1. n \in 1 .. n
        BY <2>1
      <4> QED
        BY <1>3, <4>1
    <3>2. f[P[n]] = <<P[n]>> \o <<>>
      <4>1. n \in 1 .. n
        BY <2>1
      <4>2. f[P[n]] = <<P[n]>> \o f[nd[P[n]].next]
        BY <1>5, <4>1
      <4> QED
        BY <1>6, <3>1, <4>2
    <3>3. Rest(n) = <<P[n]>>
      <4>1. (n - n) + 1 = 1 /\ n + 1 - 1 = n
        OBVIOUS
      <4>2. \A k \in 1 .. 1 : n + k - 1 = n
        OBVIOUS
      <4> QED
        BY <4>1, <4>2
    <3>4. P[n] \in 1 .. N
      <4>1. n \in 1 .. n
        BY <2>1
      <4> QED
        BY <1>0, <4>1
    <3>5. <<P[n]>> \o <<>> = <<P[n]>>
      BY <3>4, ConcatEmptySeq
    <3> QED
      BY <3>2, <3>3, <3>5
  <2> QED
    BY <2>1
<1>8. ASSUME NEW i \in 1 .. n, i # n, f[P[i + 1]] = Rest(i + 1) PROVE f[P[i]] = Rest(i)
  <2>0. i + 1 \in 1 .. n
    BY <1>8
  <2>1. nd[P[i]].next = P[i + 1] /\ i + 1 \in 1 .. n
    BY <1>3, <1>8, <2>0
  <2>2. f[P[i]] = <<P[i]>> \o Rest(i + 1)
    BY <1>5, <1>8, <2>1
  <2>3. PICK r \in Seq(1 .. N) : r = Rest(i + 1)
    BY <1>4, <2>1
  <2>4. PICK m \in Nat : m = Len(r) /\ m = n - i
    <3>1. (n - (i + 1)) + 1 = n - i /\ n - i \in Nat
      BY <2>1
    <3> QED
      BY <2>3, <3>1
  <2>5. P[i] \in 1 .. N
    BY <1>0
  <2>6. PICK one \in Seq(1 .. N) : one = <<P[i]>> /\ Len(one) = 1 /\ one[1] = P[i]
    <3>1. PICK p \in 1 .. N : p = P[i]
      BY <2>5
    <3>2. <<p>> \in Seq(1 .. N) /\ Len(<<p>>) = 1 /\ <<p>>[1] = p
      OBVIOUS
    <3> QED
      BY <3>1, <3>2
  <2>7. PICK s \in Seq(1 .. N) :
          /\ s = one \o r /\ Len(s) = m + 1
          /\ \A k \in 1 .. m + 1 : s[k] = IF k <= 1 THEN one[k] ELSE r[k - 1]
    <3>1. /\ one \o r \in Seq(1 .. N) /\ Len(one \o r) = Len(one) + Len(r)
          /\ \A k \in 1 .. Len(one) + Len(r) :
               (one \o r)[k] = IF k <= Len(one) THEN one[k] ELSE r[k - Len(one)]
      BY ConcatProperties
    <3>2. Len(one) + Len(r) = m + 1
      BY <2>4, <2>6
    <3> QED
      BY <2>6, <3>1, <3>2
  <2>8. \A k \in 1 .. m : r[k] = P[i + k]
    <3>1. \A k \in 1 .. m : (i + 1) + k - 1 = i + k
      OBVIOUS
    <3> QED
      BY <2>3, <2>4, <3>1
  <2>9. \A k \in 1 .. m + 1 : s[k] = P[i + k - 1]
    <3>1. ASSUME NEW k \in 1 .. m + 1 PROVE s[k] = P[i + k - 1]
      <4>1. CASE k = 1
        <5>1. i + 1 - 1 = i
          OBVIOUS
        <5> QED
          BY <2>6, <2>7, <4>1, <5>1
      <4>2. CASE k # 1
        <5>1. k - 1 \in 1 .. m /\ ~ (k <= 1) /\ i + (k - 1) = i + k - 1
          BY <4>2
        <5> QED
          BY <2>7, <2>8, <5>1
      <4> QED
        BY <4>1, <4>2
    <3> QED
      BY <3>1
  <2>10. s = Rest(i)
    <3>1. (n - i) + 1 = m + 1
      BY <2>4
    <3>2. s = [k \in 1 .. m + 1 |-> s[k]]
      BY <2>7, LenProperties
    <3> QED
      BY <2>9, <3>1, <3>2
  <2> QED
    BY <2>2, <2>3, <2>6, <2>7, <2>10
<1>9. \A i \in 1 .. n : f[P[i]] = Rest(i)
  <2> DEFINE Wrong == {k \in Nat : \E i \in 1 .. n : k = n - i /\ f[P[i]] # Rest(i)}
  <2>1. ASSUME NEW i \in 1 .. n, f[P[i]] # Rest(i) PROVE FALSE
    <3> HIDE DEF Rest
    <3>1. n - i \in Wrong
      BY <2>1
    <3>2. PICK k \in Wrong : \A m \in Wrong : k <= m
      <4>1. Wrong \subseteq Nat
        OBVIOUS
      <4>2. \A T : T \subseteq Nat /\ T # {} => \E l \in T : \A m \in T : l <= m
        BY NatMinimum
      <4> HIDE DEF Wrong
      <4> QED
        BY <3>1, <4>1, <4>2
    <3>3. PICK j \in 1 .. n : k = n - j /\ f[P[j]] # Rest(j)
      BY <3>2
    <3>4. j # n
      BY <1>7, <3>3
    <3>5. j + 1 \in 1 .. n
      BY <3>4
    <3>6. f[P[j + 1]] # Rest(j + 1)
      BY <1>8, <3>3, <3>4
    <3>7. n - (j + 1) \in Wrong
      BY <3>5, <3>6
    <3>8. k <= n - (j + 1)
      BY <3>2, <3>7
    <3> QED
      BY <3>3, <3>8
  <2> QED
    BY <2>1
<1>10. CASE n = 0
  <2>1. P = <<>> /\ HeadOf(P) = Nil
    BY <1>3, <1>10 DEF HeadOf
  <2> QED
    BY <1>1, <1>6, <2>1
<1>11. CASE n # 0
  <2>0. P # <<>> /\ 1 \in 1 .. n
    <3>1. 1 \in 1 .. n
      BY <1>11
    <3>2. n = Len(P)
      BY <1>3
    <3>3. Len(P) # 0 => P # <<>>
      OBVIOUS
    <3> QED
      BY <1>11, <3>1, <3>2, <3>3
  <2>1. P # <<>> /\ HeadOf(P) = P[1] /\ 1 \in 1 .. n
    BY <2>0 DEF HeadOf
  <2>2. Rest(1) = P
    <3>1. (n - 1) + 1 = n /\ \A k \in 1 .. n : 1 + k - 1 = k
      OBVIOUS
    <3> QED
      BY <1>3, <3>1
  <2> QED
    BY <1>1, <1>9, <2>1, <2>2
<1> QED
  BY <1>10, <1>11

\* The values of the nodes in P.
ItemsOf(nd, P, n) == [i \in 1 .. n |-> nd[P[i]].val]

\* The nodes from the head on are the path, its values the items of the list.
LEMMA ListIsPath ==
  ASSUME NEW P, Arena(node), OnList(P)
  PROVE  From(list.head) = P /\ Items = ItemsOf(node, P, Len(P)) /\ CountIsLength
<1>1. Trail(node, HeadOf(P)) = P /\ list.head = HeadOf(P)
  BY TrailIsPath DEF OnList
<1>2. From(list.head) = P
  BY <1>1 DEF From, Trail
<1>3. PICK n \in Nat : n = Len(P) /\ DOMAIN P = 1 .. n
  BY DEF OnList, Path
<1>4. Items = ItemsOf(node, P, Len(P))
  BY <1>2, <1>3 DEF Items, ItemsOf
<1>5. Len(Items) = n
  BY <1>3, <1>4 DEF ItemsOf
<1>6. list.count = Count(Len(Items))
  BY <1>3, <1>5 DEF OnList
<1>7. list.tail = IF list.head = Nil THEN Nil ELSE Last(From(list.head))
  <2>1. CASE P = <<>>
    BY <1>1, <2>1 DEF OnList, HeadOf, TailOf
  <2>2. CASE P # <<>>
    <3>1. P[1] # Nil
      <4>1. 1 \in 1 .. n /\ n # 0
        BY <1>3, <2>2 DEF OnList, Path
      <4>2. P[1] \in 1 .. Len(node)
        BY <1>3, <4>1 DEF OnList, Path
      <4> QED
        BY <4>2 DEF Nil
    <3> QED
      BY <1>1, <1>2, <2>2, <3>1 DEF OnList, HeadOf, TailOf, Last
  <2> QED
    BY <2>1, <2>2
<1> QED
  BY <1>2, <1>4, <1>6, <1>7 DEF CountIsLength

-----------------------------------------------------------------------------
(* Arenas and lists, laid open.                                            *)

\* The nodes 1 .. N, with their places in the row.
Laid(nd, N, pos, lo, hi) ==
  /\ nd \in [1 .. N -> Cell]
  /\ pos \in [1 .. N -> Int]
  /\ lo < hi
  /\ \A x \in 1 .. N : nd[x].next \in 0 .. N /\ lo < pos[x] /\ pos[x] < hi
  /\ \A x \in 1 .. N : nd[x].next # Nil => pos[x] < pos[nd[x].next]

\* The n nodes of the list, with their links.
Linked(nd, N, P, n) ==
  /\ P \in [1 .. n -> 1 .. N]
  /\ \A i, j \in 1 .. n : P[i] = P[j] => i = j
  /\ \A i \in 1 .. n : nd[P[i]].next = IF i = n THEN Nil ELSE P[i + 1]

\* The n members of s, with y behind them or in front of them, and without the
\* last or the first of them.
Behind(s, n, y) == [i \in 1 .. n + 1 |-> IF i = n + 1 THEN y ELSE s[i]]
InFront(s, n, y) == [i \in 1 .. n + 1 |-> IF i = 1 THEN y ELSE s[i - 1]]
ButLast(s, n) == [i \in 1 .. n - 1 |-> s[i]]
ButFirst(s, n) == [i \in 1 .. n - 1 |-> s[i + 1]]

\* The nodes, with t linked to u.
LinkTo(nd, t, u) == [nd EXCEPT ![t].next = u]

\* The nodes of an arena have their places.
LEMMA ArenaIsLaid ==
  ASSUME NEW nd, Arena(nd)
  PROVE  \E N \in Nat : \E lo, hi \in Int : \E pos : N = Len(nd) /\ Laid(nd, N, pos, lo, hi)
<1>1. PICK N \in Nat : N = Len(nd)
  BY DEF Arena, Nodes
<1>2. PICK lo \in Int, hi \in Int, pos \in [1 .. N -> Int] :
        /\ lo < hi
        /\ \A x \in 1 .. N :
             /\ lo < pos[x] /\ pos[x] < hi
             /\ nd[x].next # Nil => pos[x] < pos[nd[x].next]
  BY <1>1 DEF Arena, Forward
<1>3. nd \in [1 .. N -> Cell]
  <2>1. nd \in Seq(Cell)
    BY DEF Arena, Nodes
  <2> QED
    BY <1>1, <2>1, LenProperties
<1>4. \A x \in 1 .. N : nd[x].next \in 0 .. N
  BY <1>1 DEF Arena, Inside
<1>5. Laid(nd, N, pos, lo, hi)
  BY <1>2, <1>3, <1>4 DEF Laid
<1> QED
  BY <1>1, <1>2, <1>5

\* Nodes that have their places are an arena.
LEMMA LaidIsArena ==
  ASSUME NEW nd, NEW N \in Nat, NEW lo \in Int, NEW hi \in Int, NEW pos, Laid(nd, N, pos, lo, hi)
  PROVE  Arena(nd) /\ Len(nd) = N
<1>1. nd \in [1 .. N -> Cell] /\ pos \in [1 .. N -> Int]
  BY DEF Laid
<1>2. nd \in Nodes /\ Len(nd) = N
  BY <1>1 DEF Nodes
<1>3. Inside(nd)
  BY <1>2 DEF Inside, Laid
<1>4. Forward(nd)
  BY <1>1, <1>2 DEF Forward, Laid
<1> QED
  BY <1>2, <1>3, <1>4 DEF Arena

\* A path is linked so.
LEMMA PathIsLinked ==
  ASSUME NEW nd, NEW P, Path(nd, P)
  PROVE  \E n \in Nat : n = Len(P) /\ Linked(nd, Len(nd), P, n)
<1>1. P \in Seq(1 .. Len(nd))
  BY DEF Path
<1>2. PICK n \in Nat : n = Len(P) /\ P \in [1 .. n -> 1 .. Len(nd)]
  BY <1>1, LenProperties
<1> QED
  BY <1>2 DEF Path, Linked

\* Nodes that are linked so are a path.
LEMMA LinkedIsPath ==
  ASSUME NEW nd, NEW P, NEW n \in Nat, Linked(nd, Len(nd), P, n)
  PROVE  Path(nd, P) /\ Len(P) = n /\ DOMAIN P = 1 .. n
<1>1. P \in [1 .. n -> 1 .. Len(nd)]
  BY DEF Linked
<1>2. P \in Seq(1 .. Len(nd)) /\ Len(P) = n /\ DOMAIN P = 1 .. n
  BY <1>1
<1> QED
  BY <1>2 DEF Path, Linked

\* Where a list begins and ends.
LEMMA EndsOf ==
  ASSUME NEW nd, NEW N \in Nat, NEW P, NEW n \in Nat, Linked(nd, N, P, n)
  PROVE  /\ HeadOf(P) = (IF n = 0 THEN Nil ELSE P[1])
         /\ TailOf(P) = (IF n = 0 THEN Nil ELSE P[n])
         /\ n # 0 => P[1] \in 1 .. N /\ P[n] \in 1 .. N /\ P[1] # Nil
         /\ n # 0 => (P[1] = P[n] <=> n = 1)
<1>1. P \in [1 .. n -> 1 .. N]
  BY DEF Linked
<1>2. Len(P) = n /\ (P = <<>> <=> n = 0)
  BY <1>1
<1>3. n # 0 => 1 \in 1 .. n /\ n \in 1 .. n
  OBVIOUS
<1>4. n # 0 => P[1] \in 1 .. N /\ P[n] \in 1 .. N
  BY <1>1, <1>3
<1>5. n # 0 => P[1] # Nil
  BY <1>4 DEF Nil
<1>6. n # 0 => (P[1] = P[n] <=> n = 1)
  BY <1>3 DEF Linked
<1> QED
  BY <1>2, <1>4, <1>5, <1>6 DEF HeadOf, TailOf

-----------------------------------------------------------------------------
(* What an operation does to them.                                         *)

\* A node more, in place p of the row: before those it leads to, and behind none.
LEMMA OneMoreLaid ==
  ASSUME NEW nd, NEW N \in Nat, NEW lo \in Int, NEW hi \in Int, NEW pos, Laid(nd, N, pos, lo, hi),
         NEW r \in Cell, r.next \in 0 .. N
  PROVE  \E ps : /\ Laid(Behind(nd, N, r), N + 1, ps, lo - 1, hi)
                 /\ \A x \in 1 .. N : ps[x] = pos[x]
<1> DEFINE more == [x \in 1 .. N + 1 |-> IF x = N + 1 THEN r ELSE nd[x]]
           ps == [x \in 1 .. N + 1 |-> IF x = N + 1 THEN lo ELSE pos[x]]
<1>1. \A x \in 1 .. N + 1 : x = N + 1 \/ x \in 1 .. N
  OBVIOUS
<1>2. nd \in [1 .. N -> Cell] /\ pos \in [1 .. N -> Int]
  BY DEF Laid
<1>3. more \in [1 .. N + 1 -> Cell]
  BY <1>1, <1>2
<1>4. ps \in [1 .. N + 1 -> Int]
  BY <1>1, <1>2
<1>5. ASSUME NEW x \in 1 .. N + 1
      PROVE  /\ more[x].next \in 0 .. N
             /\ lo - 1 < ps[x] /\ ps[x] < hi
             /\ more[x].next # Nil => ps[x] < ps[more[x].next]
  <2>1. \A y \in 1 .. N : ps[y] = pos[y] /\ lo < pos[y] /\ pos[y] < hi /\ pos[y] \in Int
    BY <1>2 DEF Laid
  <2>2. lo < hi
    BY DEF Laid
  <2>3. CASE x = N + 1
    <3>1. more[x] = r /\ ps[x] = lo
      BY <2>3
    <3>2. r.next # Nil => r.next \in 1 .. N
      BY DEF Nil
    <3> HIDE DEF more, ps
    <3> QED
      BY <2>1, <2>2, <3>1, <3>2
  <2>4. CASE x \in 1 .. N
    <3>1. more[x] = nd[x] /\ ps[x] = pos[x]
      BY <2>4
    <3> HIDE DEF more, ps
    <3>2. nd[x].next \in 0 .. N /\ (nd[x].next # Nil => pos[x] < pos[nd[x].next])
      BY <2>4 DEF Laid
    <3>3. nd[x].next # Nil => nd[x].next \in 1 .. N
      BY <3>2 DEF Nil
    <3>4. lo - 1 < pos[x] /\ pos[x] < hi
      BY <2>1, <2>4
    <3> QED
      BY <2>1, <3>1, <3>2, <3>3, <3>4
  <2> QED
    BY <1>1, <2>3, <2>4
<1>6. \A x \in 1 .. N : ps[x] = pos[x]
  OBVIOUS
<1>7. lo - 1 < hi
  BY DEF Laid
<1>8. \A z \in 0 .. N : z \in 0 .. N + 1
  OBVIOUS
<1> HIDE DEF more, ps
<1>9. Laid(more, N + 1, ps, lo - 1, hi)
  BY <1>3, <1>4, <1>5, <1>7, <1>8 DEF Laid
<1> QED
  BY <1>6, <1>9 DEF more, Behind

\* A node more, that leads to none, at the end of the row.
LEMMA LastMoreLaid ==
  ASSUME NEW nd, NEW N \in Nat, NEW lo \in Int, NEW hi \in Int, NEW pos, Laid(nd, N, pos, lo, hi),
         NEW r \in Cell, r.next = Nil
  PROVE  \E ps : /\ Laid(Behind(nd, N, r), N + 1, ps, lo, hi + 1)
                 /\ \A x \in 1 .. N : ps[x] < ps[N + 1]
<1> DEFINE more == [x \in 1 .. N + 1 |-> IF x = N + 1 THEN r ELSE nd[x]]
           ps == [x \in 1 .. N + 1 |-> IF x = N + 1 THEN hi ELSE pos[x]]
<1>1. \A x \in 1 .. N + 1 : x = N + 1 \/ x \in 1 .. N
  OBVIOUS
<1>2. nd \in [1 .. N -> Cell] /\ pos \in [1 .. N -> Int]
  BY DEF Laid
<1>3. more \in [1 .. N + 1 -> Cell]
  BY <1>1, <1>2
<1>4. ps \in [1 .. N + 1 -> Int]
  BY <1>1, <1>2
<1>6. \A y \in 1 .. N : ps[y] = pos[y] /\ lo < pos[y] /\ pos[y] < hi /\ pos[y] \in Int
  BY <1>2 DEF Laid
<1>5. ASSUME NEW x \in 1 .. N + 1
      PROVE  /\ more[x].next \in 0 .. N
             /\ lo < ps[x] /\ ps[x] < hi + 1
             /\ more[x].next # Nil => ps[x] < ps[more[x].next]
  <2>2. lo < hi
    BY DEF Laid
  <2>3. CASE x = N + 1
    <3>1. more[x] = r /\ ps[x] = hi
      BY <2>3
    <3> HIDE DEF more, ps
    <3>2. 0 \in 0 .. N
      OBVIOUS
    <3> QED
      BY <2>2, <3>1, <3>2 DEF Nil
  <2>4. CASE x \in 1 .. N
    <3>1. more[x] = nd[x] /\ ps[x] = pos[x]
      BY <2>4
    <3> HIDE DEF more, ps
    <3>2. nd[x].next \in 0 .. N /\ (nd[x].next # Nil => pos[x] < pos[nd[x].next])
      BY <2>4 DEF Laid
    <3>3. nd[x].next # Nil => nd[x].next \in 1 .. N
      BY <3>2 DEF Nil
    <3>4. lo < pos[x] /\ pos[x] < hi + 1
      BY <1>6, <2>4
    <3> QED
      BY <1>6, <3>1, <3>2, <3>3, <3>4
  <2> QED
    BY <1>1, <2>3, <2>4
<1>7. ps[N + 1] = hi
  OBVIOUS
<1>8. lo < hi + 1
  BY DEF Laid
<1>9. \A z \in 0 .. N : z \in 0 .. N + 1
  OBVIOUS
<1> HIDE DEF more, ps
<1>10. Laid(more, N + 1, ps, lo, hi + 1)
  BY <1>3, <1>4, <1>5, <1>8, <1>9 DEF Laid
<1>11. \A x \in 1 .. N : ps[x] < ps[N + 1]
  BY <1>6, <1>7
<1> QED
  BY <1>10, <1>11 DEF more, Behind

\* A node is linked to one further on in the row, or to none.
LEMMA LinkLaid ==
  ASSUME NEW nd, NEW N \in Nat, NEW lo \in Int, NEW hi \in Int, NEW pos, Laid(nd, N, pos, lo, hi),
         NEW t \in 1 .. N, NEW u \in 0 .. N, u # Nil => pos[t] < pos[u]
  PROVE  /\ Laid(LinkTo(nd, t, u), N, pos, lo, hi)
         /\ \A x \in 1 .. N : /\ LinkTo(nd, t, u)[x].val = nd[x].val
                              /\ LinkTo(nd, t, u)[x].next = IF x = t THEN u ELSE nd[x].next
<1>1. PICK new1 : new1 = LinkTo(nd, t, u)
  OBVIOUS
<1>2. nd \in [1 .. N -> Cell]
  BY DEF Laid
<1>3. \A x \in 1 .. N : new1[x] = IF x = t THEN [nd[x] EXCEPT !.next = u] ELSE nd[x]
  BY <1>1, <1>2 DEF LinkTo
<1>4. ASSUME NEW x \in 1 .. N
      PROVE  new1[x] \in Cell /\ new1[x].val = nd[x].val
             /\ new1[x].next = IF x = t THEN u ELSE nd[x].next
  <2>1. nd[x] \in Cell /\ u \in Nat
    BY <1>2
  <2> QED
    BY <1>3, <2>1 DEF Cell
<1>5. new1 \in [1 .. N -> Cell]
  <2>1. DOMAIN new1 = 1 .. N /\ new1 = [x \in 1 .. N |-> new1[x]]
    BY <1>1, <1>2 DEF LinkTo
  <2> QED
    BY <1>4, <2>1
<1>6. Laid(new1, N, pos, lo, hi)
  BY <1>4, <1>5 DEF Laid
<1> QED
  BY <1>1, <1>4, <1>6

\* A node more behind the others.
LEMMA LinkedBehind ==
  ASSUME NEW nd, NEW N \in Nat, NEW P, NEW n \in Nat, Linked(nd, N, P, n),
         NEW nd2, nd2[N + 1].next = Nil,
         \A x \in 1 .. N : nd2[x].next = IF n # 0 /\ x = P[n] THEN N + 1 ELSE nd[x].next
  PROVE  Linked(nd2, N + 1, Behind(P, n, N + 1), n + 1)
<1> DEFINE Q == [i \in 1 .. n + 1 |-> IF i = n + 1 THEN N + 1 ELSE P[i]]
<1>1. \A i \in 1 .. n : P[i] \in 1 .. N
  BY DEF Linked
<1>2. \A x \in 1 .. N : x \in 1 .. N + 1 /\ x # N + 1
  OBVIOUS
<1>3. Q[n + 1] = N + 1 /\ \A i \in 1 .. n : Q[i] = P[i]
  OBVIOUS
<1>4. \A i \in 1 .. n + 1 : i = n + 1 \/ i \in 1 .. n
  OBVIOUS
<1>5. Q \in [1 .. n + 1 -> 1 .. N + 1]
  BY <1>1, <1>2, <1>4
<1> HIDE DEF Q
<1>6. ASSUME NEW i \in 1 .. n + 1, NEW j \in 1 .. n + 1, Q[i] = Q[j] PROVE i = j
  <2>1. \A k \in 1 .. n : Q[k] # N + 1
    BY <1>1, <1>2, <1>3
  <2>2. CASE i \in 1 .. n /\ j \in 1 .. n
    BY <1>3, <1>6, <2>2 DEF Linked
  <2>3. CASE i = n + 1 \/ j = n + 1
    BY <1>3, <1>4, <1>6, <2>1, <2>3
  <2> QED
    BY <1>4, <2>2, <2>3
<1>7. ASSUME NEW i \in 1 .. n + 1
      PROVE  nd2[Q[i]].next = IF i = n + 1 THEN Nil ELSE Q[i + 1]
  <2>1. CASE i = n + 1
    BY <1>3, <2>1
  <2>2. CASE i = n /\ n # 0
    <3>1. i \in 1 .. n /\ i + 1 = n + 1 /\ i # n + 1
      BY <2>2
    <3>2. nd2[P[i]].next = N + 1
      BY <1>1, <2>2, <3>1
    <3> QED
      BY <1>3, <3>1, <3>2
  <2>3. CASE i \in 1 .. n /\ i # n
    <3>1. i + 1 \in 1 .. n /\ i # n + 1 /\ n \in 1 .. n
      BY <2>3
    <3>2. P[i] # P[n]
      BY <2>3, <3>1 DEF Linked
    <3>3. nd2[P[i]].next = nd[P[i]].next
      BY <1>1, <2>3, <3>2
    <3>4. nd[P[i]].next = P[i + 1]
      BY <2>3 DEF Linked
    <3> QED
      BY <1>3, <2>3, <3>1, <3>3, <3>4
  <2> QED
    BY <1>4, <2>1, <2>2, <2>3
<1>8. Linked(nd2, N + 1, Q, n + 1)
  BY <1>5, <1>6, <1>7 DEF Linked
<1> QED
  BY <1>8 DEF Q, Behind

\* A node more in front of the others.
LEMMA LinkedInFront ==
  ASSUME NEW nd, NEW N \in Nat, NEW P, NEW n \in Nat, Linked(nd, N, P, n),
         NEW nd2, nd2[N + 1].next = IF n = 0 THEN Nil ELSE P[1],
         \A x \in 1 .. N : nd2[x].next = nd[x].next
  PROVE  Linked(nd2, N + 1, InFront(P, n, N + 1), n + 1)
<1> DEFINE Q == [i \in 1 .. n + 1 |-> IF i = 1 THEN N + 1 ELSE P[i - 1]]
<1>1. \A i \in 1 .. n : P[i] \in 1 .. N
  BY DEF Linked
<1>2. \A x \in 1 .. N : x \in 1 .. N + 1 /\ x # N + 1
  OBVIOUS
<1>3. Q[1] = N + 1 /\ \A i \in 1 .. n : Q[i + 1] = P[i]
  <2>1. 1 \in 1 .. n + 1
    OBVIOUS
  <2>2. \A i \in 1 .. n : i + 1 \in 1 .. n + 1 /\ i + 1 # 1 /\ (i + 1) - 1 = i
    OBVIOUS
  <2> QED
    BY <2>1, <2>2
<1>4. \A i \in 1 .. n + 1 : i = 1 \/ (i - 1 \in 1 .. n /\ (i - 1) + 1 = i)
  OBVIOUS
<1>5. Q \in [1 .. n + 1 -> 1 .. N + 1]
  <2>1. ASSUME NEW i \in 1 .. n + 1 PROVE (IF i = 1 THEN N + 1 ELSE P[i - 1]) \in 1 .. N + 1
    <3>1. CASE i = 1
      BY <3>1
    <3>2. CASE i # 1
      <4>1. i - 1 \in 1 .. n
        BY <1>4, <3>2
      <4> QED
        BY <1>1, <1>2, <3>2, <4>1
    <3> QED
      BY <3>1, <3>2
  <2> QED
    BY <2>1
<1> HIDE DEF Q
<1>6. ASSUME NEW i \in 1 .. n + 1, NEW j \in 1 .. n + 1, Q[i] = Q[j] PROVE i = j
  <2>1. \A k \in 1 .. n : Q[k + 1] # N + 1
    BY <1>1, <1>2, <1>3
  <2>2. CASE i # 1 /\ j # 1
    <3>1. PICK k \in 1 .. n : k + 1 = i
      BY <1>4, <2>2
    <3>2. PICK l \in 1 .. n : l + 1 = j
      BY <1>4, <2>2
    <3>3. P[k] = P[l]
      BY <1>3, <1>6, <3>1, <3>2
    <3>4. k = l
      BY <3>3 DEF Linked
    <3> QED
      BY <3>1, <3>2, <3>4
  <2>3. CASE i = 1 /\ j # 1
    <3>1. PICK l \in 1 .. n : l + 1 = j
      BY <1>4, <2>3
    <3> QED
      BY <1>3, <1>6, <2>1, <2>3, <3>1
  <2>4. CASE i # 1 /\ j = 1
    <3>1. PICK l \in 1 .. n : l + 1 = i
      BY <1>4, <2>4
    <3> QED
      BY <1>3, <1>6, <2>1, <2>4, <3>1
  <2> QED
    BY <2>2, <2>3, <2>4
<1>7. ASSUME NEW i \in 1 .. n + 1
      PROVE  nd2[Q[i]].next = IF i = n + 1 THEN Nil ELSE Q[i + 1]
  <2>1. CASE i = 1
    <3>1. CASE n = 0
      BY <1>3, <2>1, <3>1
    <3>2. CASE n # 0
      <4>1. 1 \in 1 .. n /\ i # n + 1 /\ Q[1 + 1] = P[1]
        <5>1. 1 \in 1 .. n /\ i # n + 1
          BY <2>1, <3>2
        <5> QED
          BY <1>3, <5>1
      <4> QED
        BY <1>3, <2>1, <3>2, <4>1
    <3> QED
      BY <3>1, <3>2
  <2>2. CASE i # 1
    <3>1. PICK k \in 1 .. n : k + 1 = i
      BY <1>4, <2>2
    <3>2. Q[i] = P[k] /\ P[k] \in 1 .. N
      BY <1>1, <1>3, <3>1
    <3>3. nd2[Q[i]].next = IF k = n THEN Nil ELSE P[k + 1]
      BY <3>2 DEF Linked
    <3>4. (i = n + 1 <=> k = n) /\ (k # n => k + 1 \in 1 .. n)
      BY <3>1
    <3>5. k # n => Q[i + 1] = P[k + 1]
      BY <1>3, <3>1, <3>4
    <3> QED
      BY <3>3, <3>4, <3>5
  <2> QED
    BY <2>1, <2>2
<1>8. Linked(nd2, N + 1, Q, n + 1)
  BY <1>5, <1>6, <1>7 DEF Linked
<1> QED
  BY <1>8 DEF Q, InFront

\* nd2 is nd with the link to the last of n nodes cut.
LastCut(nd, N, P, n, nd2) ==
  /\ N \in Nat /\ n \in Nat /\ n > 1 /\ Linked(nd, N, P, n)
  /\ \A x \in 1 .. N : nd2[x].next = IF x = P[n - 1] THEN Nil ELSE nd[x].next

\* The last one cut off.
LEMMA LinkedWithoutLast ==
  ASSUME NEW nd, NEW N, NEW P, NEW n, NEW nd2, LastCut(nd, N, P, n, nd2)
  PROVE  Linked(nd2, N, ButLast(P, n), n - 1)
<1> SUFFICES ASSUME N \in Nat, n \in Nat, n > 1, Linked(nd, N, P, n),
                    \A x \in 1 .. N : nd2[x].next = IF x = P[n - 1] THEN Nil ELSE nd[x].next
             PROVE  Linked(nd2, N, ButLast(P, n), n - 1)
  BY DEF LastCut
<1> DEFINE Q == [i \in 1 .. n - 1 |-> P[i]]
<1>1. \A i \in 1 .. n : P[i] \in 1 .. N
  BY DEF Linked
<1>2. \A i \in 1 .. n - 1 : i \in 1 .. n /\ i # n /\ Q[i] = P[i]
  OBVIOUS
<1>3. Q \in [1 .. n - 1 -> 1 .. N]
  BY <1>1, <1>2
<1> HIDE DEF Q
<1>4. \A i, j \in 1 .. n - 1 : Q[i] = Q[j] => i = j
  BY <1>2 DEF Linked
<1>5. ASSUME NEW i \in 1 .. n - 1
      PROVE  nd2[Q[i]].next = IF i = n - 1 THEN Nil ELSE Q[i + 1]
  <2>1. Q[i] = P[i] /\ P[i] \in 1 .. N
    BY <1>1, <1>2
  <2>2. CASE i = n - 1
    BY <2>1, <2>2
  <2>3. CASE i # n - 1
    <3>1. i + 1 \in 1 .. n - 1 /\ n - 1 \in 1 .. n
      BY <2>3
    <3>2. P[i] # P[n - 1]
      BY <1>2, <2>3, <3>1 DEF Linked
    <3>3. nd[P[i]].next = P[i + 1]
      BY <1>2 DEF Linked
    <3> QED
      BY <1>2, <2>1, <2>3, <3>1, <3>2, <3>3
  <2> QED
    BY <2>2, <2>3
<1>6. Linked(nd2, N, Q, n - 1)
  BY <1>3, <1>4, <1>5 DEF Linked
<1> QED
  BY <1>6 DEF Q, ButLast

\* The first one left out.
LEMMA LinkedWithoutFirst ==
  ASSUME NEW nd, NEW N \in Nat, NEW P, NEW n \in Nat, n > 1, Linked(nd, N, P, n)
  PROVE  Linked(nd, N, ButFirst(P, n), n - 1)
<1> DEFINE Q == [i \in 1 .. n - 1 |-> P[i + 1]]
<1>1. \A i \in 1 .. n : P[i] \in 1 .. N
  BY DEF Linked
<1>2. \A i \in 1 .. n - 1 : i + 1 \in 1 .. n /\ Q[i] = P[i + 1] /\ (i + 1 = n <=> i = n - 1)
  OBVIOUS
<1>3. Q \in [1 .. n - 1 -> 1 .. N]
  BY <1>1, <1>2
<1> HIDE DEF Q
<1>4. ASSUME NEW i \in 1 .. n - 1, NEW j \in 1 .. n - 1, Q[i] = Q[j] PROVE i = j
  <2>1. i + 1 = j + 1
    BY <1>2, <1>4 DEF Linked
  <2> QED
    BY <2>1
<1>5. ASSUME NEW i \in 1 .. n - 1
      PROVE  nd[Q[i]].next = IF i = n - 1 THEN Nil ELSE Q[i + 1]
  <2>1. nd[Q[i]].next = IF i + 1 = n THEN Nil ELSE P[(i + 1) + 1]
    BY <1>2 DEF Linked
  <2>2. i # n - 1 => i + 1 \in 1 .. n - 1
    OBVIOUS
  <2> QED
    BY <1>2, <2>1, <2>2
<1>6. Linked(nd, N, Q, n - 1)
  BY <1>3, <1>4, <1>5 DEF Linked
<1> QED
  BY <1>6 DEF Q, ButFirst

-----------------------------------------------------------------------------
(* The list before and after a step.                                       *)

\* How the list lies in its arena.
Lies(N, n, lo, hi, pos, P) ==
  /\ N = Len(node)
  /\ Laid(node, N, pos, lo, hi)
  /\ Linked(node, N, P, n)
  /\ list = [head |-> HeadOf(P), tail |-> TailOf(P), count |-> Count(n)]
  /\ From(list.head) = P
  /\ Items = ItemsOf(node, P, n)

\* A list lies so.
LEMMA ListLies ==
  ASSUME ListInv
  PROVE  \E N, n \in Nat : \E lo, hi \in Int : \E pos, P : Lies(N, n, lo, hi, pos, P)
<1>1. PICK P : OnList(P)
  BY DEF ListInv
<1>2. PICK N \in Nat, lo \in Int, hi \in Int : \E pos : N = Len(node) /\ Laid(node, N, pos, lo, hi)
  BY ArenaIsLaid DEF ListInv
<1>3. PICK pos : Laid(node, N, pos, lo, hi)
  BY <1>2
<1>4. PICK n \in Nat : n = Len(P) /\ Linked(node, N, P, n)
  BY <1>1, <1>2, PathIsLinked DEF OnList
<1>5. list = [head |-> HeadOf(P), tail |-> TailOf(P), count |-> Count(n)]
  BY <1>1, <1>4 DEF OnList
<1>6. From(list.head) = P /\ Items = ItemsOf(node, P, n)
  BY <1>1, <1>4, ListIsPath DEF ListInv
<1> QED
  BY <1>2, <1>3, <1>4, <1>5, <1>6 DEF Lies

\* A step that leaves nodes and links so leaves a list.
LEMMA ListIsLeft ==
  ASSUME NEW N \in Nat, NEW n \in Nat, NEW lo \in Int, NEW hi \in Int, NEW pos, NEW P,
         Laid(node', N, pos, lo, hi), Linked(node', N, P, n),
         list' = [head |-> IF n = 0 THEN Nil ELSE P[1],
                  tail |-> IF n = 0 THEN Nil ELSE P[n],
                  count |-> Count(n)]
  PROVE  ListInv' /\ Items' = ItemsOf(node', P, n)
<1>1. Arena(node') /\ Len(node') = N
  BY LaidIsArena
<1>2. Path(node', P) /\ Len(P) = n /\ DOMAIN P = 1 .. n
  BY <1>1, LinkedIsPath
<1>3. HeadOf(P) = (IF n = 0 THEN Nil ELSE P[1]) /\ TailOf(P) = (IF n = 0 THEN Nil ELSE P[n])
  BY EndsOf
<1>4. Path(node, P)'
  BY <1>2 DEF Path, Nil
<1>5. list' = [head |-> HeadOf(P), tail |-> TailOf(P), count |-> Count(Len(P))]
  BY <1>2, <1>3
<1>6. OnList(P)'
  BY <1>4, <1>5 DEF OnList, HeadOf, TailOf, Count, Nil
<1>7. Trail(node', HeadOf(P)) = P
  BY <1>1, <1>2, TrailIsPath
<1>8. list'.head = HeadOf(P)
  BY <1>5
<1>9. From(list.head)' = P
  BY <1>7, <1>8 DEF From, Trail, Nil
<1>10. Items' = ItemsOf(node', P, n)
  BY <1>2, <1>9 DEF Items, ItemsOf
<1>11. Arena(node)'
  BY <1>1 DEF Arena, Nodes, Inside, Forward, Nil, Cell
<1> QED
  BY <1>6, <1>10, <1>11 DEF ListInv

\* The values of a list are a sequence.
LEMMA ItemsAre ==
  ASSUME NEW nd, NEW N \in Nat, NEW lo \in Int, NEW hi \in Int, NEW pos, Laid(nd, N, pos, lo, hi),
         NEW P, NEW n \in Nat, Linked(nd, N, P, n)
  PROVE  /\ ItemsOf(nd, P, n) \in [1 .. n -> Values]
         /\ \A i \in 1 .. n : P[i] \in 1 .. N /\ ItemsOf(nd, P, n)[i] = nd[P[i]].val
<1>1. \A i \in 1 .. n : P[i] \in 1 .. N
  BY DEF Linked
<1>2. \A x \in 1 .. N : nd[x].val \in Values
  <2>1. nd \in [1 .. N -> Cell]
    BY DEF Laid
  <2> QED
    BY <2>1 DEF Cell
<1> QED
  BY <1>1, <1>2 DEF ItemsOf

\* A sequence with one more at either end of it.
LEMMA OneMore ==
  ASSUME NEW S, NEW n \in Nat, NEW s \in [1 .. n -> S], NEW y \in S
  PROVE  Append(s, y) = Behind(s, n, y) /\ <<y>> \o s = InFront(s, n, y)
<1>1. s \in Seq(S) /\ Len(s) = n
  OBVIOUS
<1>2. Append(s, y) = Behind(s, n, y)
  <2>1. PICK t \in Seq(S) :
          /\ t = Append(s, y) /\ Len(t) = n + 1
          /\ \A x \in 1 .. n : t[x] = s[x]
          /\ t[n + 1] = y
    BY <1>1, AppendProperties
  <2>2. t = [x \in 1 .. n + 1 |-> t[x]]
    BY <2>1, LenProperties
  <2>3. \A x \in 1 .. n + 1 : x = n + 1 \/ x \in 1 .. n
    OBVIOUS
  <2> QED
    BY <2>1, <2>2, <2>3 DEF Behind
<1>3. <<y>> \o s = InFront(s, n, y)
  <2>1. <<y>> \in Seq(S) /\ Len(<<y>>) = 1 /\ <<y>>[1] = y
    OBVIOUS
  <2>2. PICK one \in Seq(S) : one = <<y>> /\ Len(one) = 1 /\ one[1] = y
    BY <2>1
  <2>3. PICK t \in Seq(S) :
          /\ t = one \o s /\ Len(t) = Len(one) + Len(s)
          /\ \A i \in 1 .. Len(one) + Len(s) :
               t[i] = IF i <= Len(one) THEN one[i] ELSE s[i - Len(one)]
    <3>1. /\ one \o s \in Seq(S) /\ Len(one \o s) = Len(one) + Len(s)
          /\ \A i \in 1 .. Len(one) + Len(s) :
               (one \o s)[i] = IF i <= Len(one) THEN one[i] ELSE s[i - Len(one)]
      BY <1>1, ConcatProperties
    <3> QED
      BY <3>1
  <2>4. Len(t) = n + 1 /\ \A i \in 1 .. n + 1 : t[i] = IF i <= 1 THEN one[i] ELSE s[i - 1]
    <3>1. Len(one) + Len(s) = n + 1
      BY <1>1, <2>2
    <3> QED
      BY <2>2, <2>3, <3>1
  <2>5. t = [x \in 1 .. n + 1 |-> t[x]]
    BY <2>4, LenProperties
  <2>6. \A x \in 1 .. n + 1 : (x <= 1 <=> x = 1)
    OBVIOUS
  <2> QED
    BY <2>2, <2>3, <2>4, <2>5, <2>6 DEF InFront
<1> QED
  BY <1>2, <1>3

\* A sequence with one less at either end of it.
LEMMA OneLessOf ==
  ASSUME NEW S, NEW n \in Nat, n > 0, NEW s \in [1 .. n -> S]
  PROVE  /\ s # <<>>
         /\ Last(s) = s[n] /\ Front(s) = ButLast(s, n)
         /\ Head(s) = s[1] /\ Tail(s) = ButFirst(s, n)
<1>1. s \in Seq(S) /\ Len(s) = n /\ s # <<>>
  OBVIOUS
<1>2. Last(s) = s[n]
  BY <1>1 DEF Last
<1>3. Front(s) = ButLast(s, n)
  BY <1>1 DEF Front, ButLast
<1>4. Head(s) = s[1]
  BY <1>1
<1>5. Tail(s) = ButFirst(s, n)
  <2>1. /\ Tail(s) \in Seq(S) /\ Len(Tail(s)) = Len(s) - 1
        /\ \A i \in 1 .. Len(s) - 1 : Tail(s)[i] = s[i + 1]
    BY <1>1, HeadTailProperties
  <2>2. Tail(s) = [i \in 1 .. Len(s) - 1 |-> Tail(s)[i]]
    BY <1>1, <2>1, LenProperties
  <2> QED
    BY <1>1, <2>1, <2>2 DEF ButFirst
<1> QED
  BY <1>1, <1>2, <1>3, <1>4, <1>5

\* The values, where the nodes are the same but for one more at either end.
LEMMA MoreItems ==
  ASSUME NEW nd, NEW nd2, NEW P, NEW n \in Nat, NEW y,
         \A i \in 1 .. n : nd2[P[i]].val = nd[P[i]].val
  PROVE  /\ ItemsOf(nd2, Behind(P, n, y), n + 1) = Behind(ItemsOf(nd, P, n), n, nd2[y].val)
         /\ ItemsOf(nd2, InFront(P, n, y), n + 1) = InFront(ItemsOf(nd, P, n), n, nd2[y].val)
<1>1. \A i \in 1 .. n + 1 : i = n + 1 \/ (i # n + 1 /\ i \in 1 .. n)
  OBVIOUS
<1>2. \A i \in 1 .. n + 1 : i = 1 \/ (i # 1 /\ i - 1 \in 1 .. n)
  OBVIOUS
<1>3. \A i \in 1 .. n : ItemsOf(nd, P, n)[i] = nd[P[i]].val
  BY DEF ItemsOf
<1>4. ItemsOf(nd2, Behind(P, n, y), n + 1) = Behind(ItemsOf(nd, P, n), n, nd2[y].val)
  <2>1. ASSUME NEW i \in 1 .. n + 1
        PROVE  nd2[Behind(P, n, y)[i]].val
                 = IF i = n + 1 THEN nd2[y].val ELSE ItemsOf(nd, P, n)[i]
    BY <1>1, <1>3 DEF Behind
  <2>2. ItemsOf(nd2, Behind(P, n, y), n + 1)
          = [i \in 1 .. n + 1 |-> nd2[Behind(P, n, y)[i]].val]
    BY DEF ItemsOf
  <2>3. Behind(ItemsOf(nd, P, n), n, nd2[y].val)
          = [i \in 1 .. n + 1 |-> IF i = n + 1 THEN nd2[y].val ELSE ItemsOf(nd, P, n)[i]]
    BY DEF Behind
  <2> QED
    BY <2>1, <2>2, <2>3
<1>5. ItemsOf(nd2, InFront(P, n, y), n + 1) = InFront(ItemsOf(nd, P, n), n, nd2[y].val)
  <2>1. ASSUME NEW i \in 1 .. n + 1
        PROVE  nd2[InFront(P, n, y)[i]].val
                 = IF i = 1 THEN nd2[y].val ELSE ItemsOf(nd, P, n)[i - 1]
    BY <1>2, <1>3 DEF InFront
  <2>2. ItemsOf(nd2, InFront(P, n, y), n + 1)
          = [i \in 1 .. n + 1 |-> nd2[InFront(P, n, y)[i]].val]
    BY DEF ItemsOf
  <2>3. InFront(ItemsOf(nd, P, n), n, nd2[y].val)
          = [i \in 1 .. n + 1 |-> IF i = 1 THEN nd2[y].val ELSE ItemsOf(nd, P, n)[i - 1]]
    BY DEF InFront
  <2> QED
    BY <2>1, <2>2, <2>3
<1> QED
  BY <1>4, <1>5

\* The values, where one node at either end is left out.
LEMMA FewerItems ==
  ASSUME NEW nd, NEW nd2, NEW P, NEW n \in Nat,
         \A i \in 1 .. n : nd2[P[i]].val = nd[P[i]].val
  PROVE  /\ ItemsOf(nd2, ButLast(P, n), n - 1) = ButLast(ItemsOf(nd, P, n), n)
         /\ ItemsOf(nd2, ButFirst(P, n), n - 1) = ButFirst(ItemsOf(nd, P, n), n)
<1>1. \A i \in 1 .. n - 1 : i \in 1 .. n /\ i + 1 \in 1 .. n
  OBVIOUS
<1>3. \A i \in 1 .. n : ItemsOf(nd, P, n)[i] = nd[P[i]].val
  BY DEF ItemsOf
<1>4. ItemsOf(nd2, ButLast(P, n), n - 1) = ButLast(ItemsOf(nd, P, n), n)
  <2>1. ASSUME NEW i \in 1 .. n - 1
        PROVE  nd2[ButLast(P, n)[i]].val = ItemsOf(nd, P, n)[i]
    BY <1>1, <1>3 DEF ButLast
  <2>2. ItemsOf(nd2, ButLast(P, n), n - 1) = [i \in 1 .. n - 1 |-> nd2[ButLast(P, n)[i]].val]
    BY DEF ItemsOf
  <2>3. ButLast(ItemsOf(nd, P, n), n) = [i \in 1 .. n - 1 |-> ItemsOf(nd, P, n)[i]]
    BY DEF ButLast
  <2> QED
    BY <2>1, <2>2, <2>3
<1>5. ItemsOf(nd2, ButFirst(P, n), n - 1) = ButFirst(ItemsOf(nd, P, n), n)
  <2>1. ASSUME NEW i \in 1 .. n - 1
        PROVE  nd2[ButFirst(P, n)[i]].val = ItemsOf(nd, P, n)[i + 1]
    BY <1>1, <1>3 DEF ButFirst
  <2>2. ItemsOf(nd2, ButFirst(P, n), n - 1) = [i \in 1 .. n - 1 |-> nd2[ButFirst(P, n)[i]].val]
    BY DEF ItemsOf
  <2>3. ButFirst(ItemsOf(nd, P, n), n) = [i \in 1 .. n - 1 |-> ItemsOf(nd, P, n)[i + 1]]
    BY DEF ButFirst
  <2> QED
    BY <2>1, <2>2, <2>3
<1> QED
  BY <1>4, <1>5

-----------------------------------------------------------------------------
(* The operations.                                                         *)

\* The ends of the list, and its values, where it lies so.
LEMMA ListEnds ==
  ASSUME NEW N \in Nat, NEW n \in Nat, NEW lo \in Int, NEW hi \in Int, NEW pos, NEW P,
         Lies(N, n, lo, hi, pos, P)
  PROVE  /\ N = Len(node) /\ Laid(node, N, pos, lo, hi) /\ Linked(node, N, P, n)
         /\ list.head = (IF n = 0 THEN Nil ELSE P[1])
         /\ list.tail = (IF n = 0 THEN Nil ELSE P[n])
         /\ list.count = Count(n)
         /\ (list.head = Nil <=> n = 0)
         /\ n # 0 => (list.head = list.tail <=> n = 1)
         /\ \A i \in 1 .. n : P[i] \in 1 .. N
         /\ Items = ItemsOf(node, P, n) /\ Items \in [1 .. n -> Values]
         /\ \A i \in 1 .. n : Items[i] = node[P[i]].val
         /\ node \in [1 .. N -> Cell]
<1>1. /\ N = Len(node) /\ Laid(node, N, pos, lo, hi) /\ Linked(node, N, P, n)
      /\ list = [head |-> HeadOf(P), tail |-> TailOf(P), count |-> Count(n)]
      /\ Items = ItemsOf(node, P, n)
  BY DEF Lies
<1>2. /\ HeadOf(P) = (IF n = 0 THEN Nil ELSE P[1])
      /\ TailOf(P) = (IF n = 0 THEN Nil ELSE P[n])
      /\ n # 0 => P[1] \in 1 .. N /\ P[n] \in 1 .. N /\ P[1] # Nil
      /\ n # 0 => (P[1] = P[n] <=> n = 1)
  BY <1>1, EndsOf
<1>3. list.head = HeadOf(P) /\ list.tail = TailOf(P) /\ list.count = Count(n)
  BY <1>1
<1>4. /\ ItemsOf(node, P, n) \in [1 .. n -> Values]
      /\ \A i \in 1 .. n : P[i] \in 1 .. N /\ ItemsOf(node, P, n)[i] = node[P[i]].val
  BY <1>1, ItemsAre
<1>5. node \in [1 .. N -> Cell]
  BY <1>1 DEF Laid
<1> QED
  BY <1>1, <1>2, <1>3, <1>4, <1>5

\* A node is put behind the others, and the last one linked to it where there
\* is one.
LEMMA AppendList ==
  ASSUME ListInv, NEW val \in Values, list_append(val)
  PROVE  ListInv' /\ Abstract!Append1(val)
<1>0. PICK N \in Nat, n \in Nat, lo \in Int, hi \in Int : \E pos, P : Lies(N, n, lo, hi, pos, P)
  BY ListLies
<1>1. PICK pos, P : Lies(N, n, lo, hi, pos, P)
  BY <1>0
<1>2. /\ N = Len(node) /\ Laid(node, N, pos, lo, hi) /\ Linked(node, N, P, n)
      /\ list.head = (IF n = 0 THEN Nil ELSE P[1])
      /\ list.tail = (IF n = 0 THEN Nil ELSE P[n])
      /\ list.count = Count(n)
      /\ (list.head = Nil <=> n = 0)
      /\ \A i \in 1 .. n : P[i] \in 1 .. N
      /\ Items = ItemsOf(node, P, n) /\ Items \in [1 .. n -> Values]
      /\ node \in [1 .. N -> Cell]
  BY <1>1, ListEnds
<1>3. PICK r \in Cell : r = [next |-> Nil, val |-> val] /\ r.next = Nil /\ r.val = val
  <2>1. PICK r : r = [next |-> Nil, val |-> val]
    OBVIOUS
  <2>2. r \in Cell /\ r.next = Nil /\ r.val = val
    BY <2>1 DEF Nil, Cell
  <2> QED
    BY <2>1, <2>2
<1>4. PICK more : more = Behind(node, N, r)
  OBVIOUS
<1>5. Append(node, r) = more
  <2>1. node \in [1 .. N -> Cell] /\ r \in Cell /\ N \in Nat
    BY <1>2
  <2> QED
    BY ONLY <1>4, <2>1, OneMore
<1>6. PICK ps : Laid(more, N + 1, ps, lo, hi + 1) /\ \A x \in 1 .. N : ps[x] < ps[N + 1]
  BY <1>2, <1>3, <1>4, LastMoreLaid
<1>7. N + 1 \in 1 .. N + 1 /\ \A x \in 1 .. N : x \in 1 .. N + 1 /\ x # N + 1
  OBVIOUS
<1>8. more[N + 1] = r /\ \A x \in 1 .. N : more[x] = node[x]
  BY <1>4, <1>7 DEF Behind
<1>9. list' = [head |-> IF n = 0 THEN N + 1 ELSE P[1], tail |-> N + 1, count |-> Count(n + 1)]
  <2>1. Count(Count(n) + 1) = Count(n + 1)
    BY CountSteps
  <2>2. list' = [head  |-> IF list.head = Nil THEN N + 1 ELSE list.head,
                 tail  |-> N + 1, count |-> Count(list.count + 1)]
    BY <1>2 DEF list_append, new
  <2> QED
    BY <1>2, <2>1, <2>2
<1>10. node' = IF n = 0 THEN more ELSE LinkTo(more, P[n], N + 1)
  <2>1. node' = IF list.head = Nil THEN more ELSE [more EXCEPT ![list.tail].next = N + 1]
    BY <1>2, <1>3, <1>5 DEF list_append, Link, new
  <2> QED
    BY <1>2, <2>1 DEF LinkTo
<1>11. PICK nd : /\ nd = node'
                 /\ Laid(nd, N + 1, ps, lo, hi + 1)
                 /\ nd[N + 1].next = Nil /\ nd[N + 1].val = val
                 /\ \A x \in 1 .. N : nd[x].val = node[x].val
                 /\ \A x \in 1 .. N :
                      nd[x].next = IF n # 0 /\ x = P[n] THEN N + 1 ELSE node[x].next
  <2>1. CASE n = 0
    BY <1>3, <1>6, <1>8, <1>10, <2>1
  <2>2. CASE n # 0
    <3>1. PICK M \in Nat, up \in Int : M = N + 1 /\ up = hi + 1
      OBVIOUS
    <3>2. PICK t \in 1 .. M : t = P[n] /\ t \in 1 .. N
      <4>1. n \in 1 .. n
        BY <2>2
      <4> QED
        BY <1>2, <1>7, <3>1, <4>1
    <3>3. Laid(more, M, ps, lo, up) /\ ps[t] < ps[M]
      BY <1>6, <3>1, <3>2
    <3>4. M \in 0 .. M
      OBVIOUS
    <3>5. PICK nd : nd = LinkTo(more, t, M)
      OBVIOUS
    <3>6. /\ Laid(nd, M, ps, lo, up)
          /\ \A x \in 1 .. M : nd[x].val = more[x].val
                               /\ nd[x].next = IF x = t THEN M ELSE more[x].next
      BY <3>3, <3>4, <3>5, LinkLaid
    <3>7. nd = node'
      BY <1>10, <2>2, <3>1, <3>2, <3>5
    <3>8. nd[N + 1].next = Nil /\ nd[N + 1].val = val
      BY <1>3, <1>7, <1>8, <3>1, <3>2, <3>6
    <3>9. \A x \in 1 .. N :
             /\ nd[x].val = node[x].val
             /\ nd[x].next = IF n # 0 /\ x = P[n] THEN N + 1 ELSE node[x].next
      BY <1>7, <1>8, <2>2, <3>1, <3>2, <3>6
    <3> QED
      BY <3>1, <3>6, <3>7, <3>8, <3>9
  <2> QED
    BY <2>1, <2>2
<1>12. PICK Q : Q = Behind(P, n, N + 1)
  OBVIOUS
<1>13. Linked(nd, N + 1, Q, n + 1)
  <2>1. \A x \in 1 .. N : nd[x].next = IF n # 0 /\ x = P[n] THEN N + 1 ELSE node[x].next
    BY <1>11
  <2>2. nd[N + 1].next = Nil /\ Linked(node, N, P, n)
    BY <1>2, <1>11
  <2> QED
    BY <1>12, <2>1, <2>2, LinkedBehind
<1>14. Q[n + 1] = N + 1 /\ Q[1] = IF n = 0 THEN N + 1 ELSE P[1]
  <2>1. 1 \in 1 .. n + 1 /\ n + 1 \in 1 .. n + 1 /\ (1 = n + 1 <=> n = 0)
    OBVIOUS
  <2> QED
    BY <1>12, <2>1 DEF Behind
<1>15. ListInv' /\ Items' = ItemsOf(node', Q, n + 1)
  <2>1. PICK M \in Nat, m \in Nat, up \in Int : M = N + 1 /\ m = n + 1 /\ up = hi + 1
    OBVIOUS
  <2>2. Laid(node', M, ps, lo, up) /\ Linked(node', M, Q, m)
    BY <1>11, <1>13, <2>1
  <2>3. list' = [head |-> IF m = 0 THEN Nil ELSE Q[1],
                 tail |-> IF m = 0 THEN Nil ELSE Q[m],
                 count |-> Count(m)]
    BY <1>9, <1>14, <2>1
  <2>4. ListInv' /\ Items' = ItemsOf(node', Q, m)
    BY <2>2, <2>3, ListIsLeft
  <2> QED
    BY <2>1, <2>4
<1>16. Items' = Append(Items, val)
  <2>1. \A i \in 1 .. n : nd[P[i]].val = node[P[i]].val
    BY <1>2, <1>11
  <2>2. ItemsOf(nd, Behind(P, n, N + 1), n + 1) = Behind(ItemsOf(node, P, n), n, nd[N + 1].val)
    BY <2>1, MoreItems
  <2>3. Append(Items, val) = Behind(Items, n, val)
    <3>1. n \in Nat /\ Items \in [1 .. n -> Values]
      BY <1>2
    <3> QED
      BY <3>1, OneMore
  <2> QED
    BY <1>2, <1>11, <1>12, <1>15, <2>2, <2>3
<1>17. ret' = val
  BY DEF list_append
<1> QED
  BY <1>15, <1>16, <1>17 DEF Abstract!Append1

\* A node is put in front of the others.
LEMMA UnshiftList ==
  ASSUME ListInv, NEW val \in Values, list_unshift(val)
  PROVE  ListInv' /\ Abstract!Unshift(val)
<1>0. PICK N \in Nat, n \in Nat, lo \in Int, hi \in Int : \E pos, P : Lies(N, n, lo, hi, pos, P)
  BY ListLies
<1>1. PICK pos, P : Lies(N, n, lo, hi, pos, P)
  BY <1>0
<1>2. /\ N = Len(node) /\ Laid(node, N, pos, lo, hi) /\ Linked(node, N, P, n)
      /\ list.head = (IF n = 0 THEN Nil ELSE P[1])
      /\ list.tail = (IF n = 0 THEN Nil ELSE P[n])
      /\ list.count = Count(n)
      /\ (list.head = Nil <=> n = 0)
      /\ \A i \in 1 .. n : P[i] \in 1 .. N
      /\ Items = ItemsOf(node, P, n) /\ Items \in [1 .. n -> Values]
      /\ node \in [1 .. N -> Cell]
  BY <1>1, ListEnds
<1>3. n # 0 => 1 \in 1 .. n /\ n \in 1 .. n /\ n + 1 # 1 /\ (n + 1) - 1 = n
  OBVIOUS
<1>4. PICK h \in 0 .. N : h = list.head
  <2>1. \A x \in 1 .. N : x \in 0 .. N
    OBVIOUS
  <2>2. 0 \in 0 .. N
    OBVIOUS
  <2> QED
    BY <1>2, <1>3, <2>1, <2>2 DEF Nil
<1>5. PICK r \in Cell : r = [next |-> h, val |-> val] /\ r.next = h /\ r.val = val
  <2>1. PICK r : r = [next |-> h, val |-> val]
    OBVIOUS
  <2>2. r \in Cell /\ r.next = h /\ r.val = val
    BY <2>1 DEF Cell
  <2> QED
    BY <2>1, <2>2
<1>6. PICK nd : nd = Behind(node, N, r)
  OBVIOUS
<1>7. node' = nd
  <2>1. Append(node, r) = nd
    <3>1. node \in [1 .. N -> Cell] /\ r \in Cell /\ N \in Nat
      BY <1>2
    <3> QED
      BY ONLY <1>6, <3>1, OneMore
  <2> QED
    BY <1>4, <1>5, <2>1 DEF list_unshift
<1>8. PICK ps : Laid(nd, N + 1, ps, lo - 1, hi)
  <2>1. r.next \in 0 .. N
    BY <1>5
  <2> QED
    BY <1>2, <1>6, <2>1, OneMoreLaid
<1>9. nd[N + 1] = r /\ \A x \in 1 .. N : nd[x] = node[x]
  <2>1. N + 1 \in 1 .. N + 1 /\ \A x \in 1 .. N : x \in 1 .. N + 1 /\ x # N + 1
    OBVIOUS
  <2> QED
    BY <1>6, <2>1 DEF Behind
<1>10. PICK Q : Q = InFront(P, n, N + 1)
  OBVIOUS
<1>11. Linked(nd, N + 1, Q, n + 1)
  <2>1. nd[N + 1].next = IF n = 0 THEN Nil ELSE P[1]
    BY <1>2, <1>4, <1>5, <1>9
  <2>2. \A x \in 1 .. N : nd[x].next = node[x].next
    BY <1>9
  <2> QED
    BY <1>2, <1>10, <2>1, <2>2, LinkedInFront
<1>12. Q[1] = N + 1 /\ Q[n + 1] = IF n = 0 THEN N + 1 ELSE P[n]
  <2>1. 1 \in 1 .. n + 1 /\ n + 1 \in 1 .. n + 1
    OBVIOUS
  <2> QED
    BY <1>3, <1>10, <2>1 DEF InFront
<1>13. list' = [head |-> N + 1, tail |-> IF n = 0 THEN N + 1 ELSE P[n], count |-> Count(n + 1)]
  <2>1. Count(Count(n) + 1) = Count(n + 1)
    BY CountSteps
  <2>2. list' = [head  |-> N + 1,
                 tail  |-> IF list.tail = Nil THEN N + 1 ELSE list.tail,
                 count |-> Count(list.count + 1)]
    BY <1>2 DEF list_unshift, new
  <2>3. list.tail = Nil <=> n = 0
    <3>1. \A x \in 1 .. N : x # Nil
      BY DEF Nil
    <3> QED
      BY <1>2, <1>3, <3>1
  <2> QED
    BY <1>2, <2>1, <2>2, <2>3
<1>14. ListInv' /\ Items' = ItemsOf(node', Q, n + 1)
  <2>1. PICK M \in Nat, m \in Nat, down \in Int : M = N + 1 /\ m = n + 1 /\ down = lo - 1
    OBVIOUS
  <2>2. Laid(node', M, ps, down, hi) /\ Linked(node', M, Q, m)
    BY <1>7, <1>8, <1>11, <2>1
  <2>3. list' = [head |-> IF m = 0 THEN Nil ELSE Q[1],
                 tail |-> IF m = 0 THEN Nil ELSE Q[m],
                 count |-> Count(m)]
    BY <1>12, <1>13, <2>1
  <2>4. ListInv' /\ Items' = ItemsOf(node', Q, m)
    BY <2>2, <2>3, ListIsLeft
  <2> QED
    BY <2>1, <2>4
<1>15. Items' = <<val>> \o Items
  <2>1. \A i \in 1 .. n : nd[P[i]].val = node[P[i]].val
    BY <1>2, <1>9
  <2>2. ItemsOf(nd, InFront(P, n, N + 1), n + 1)
          = InFront(ItemsOf(node, P, n), n, nd[N + 1].val)
    BY <2>1, MoreItems
  <2>3. <<val>> \o Items = InFront(Items, n, val)
    <3>1. n \in Nat /\ Items \in [1 .. n -> Values]
      BY <1>2
    <3> QED
      BY <3>1, OneMore
  <2> QED
    BY <1>2, <1>5, <1>7, <1>9, <1>10, <1>14, <2>2, <2>3
<1>16. ret' = val
  BY DEF list_unshift
<1> QED
  BY <1>14, <1>15, <1>16 DEF Abstract!Unshift

-----------------------------------------------------------------------------
(* list_pop and list_shift.                                                *)

\* Nothing of the list is touched.
LEMMA SameList ==
  ASSUME ListInv, UNCHANGED <<node, list>>
  PROVE  ListInv' /\ Items' = Items
<1>1. From(list.head)' = From(list.head)
  BY DEF From, Nil
<1>2. Items' = Items
  BY <1>1 DEF Items
<1> QED
  BY <1>2 DEF ListInv, Arena, Nodes, Inside, Forward, OnList, Path, HeadOf, TailOf,
              Count, Nil, Cell

\* The last node is taken off, and the list is empty.
LEMMA EmptiedList ==
  ASSUME ListInv, UNCHANGED node, list' = Empty
  PROVE  ListInv' /\ Items' = <<>>
<1>0. PICK N \in Nat, n \in Nat, lo \in Int, hi \in Int : \E pos, P : Lies(N, n, lo, hi, pos, P)
  BY ListLies
<1>1. PICK pos, P : Lies(N, n, lo, hi, pos, P)
  BY <1>0
<1>2. Laid(node', N, pos, lo, hi)
  BY <1>1, ListEnds
<1>3. PICK Q : Q = <<>>
  OBVIOUS
<1>4. Linked(node', N, Q, 0)
  BY <1>3 DEF Linked
<1>5. Count(0) = 0
  <2>1. PICK B \in Nat \ {0} : B = 2 ^ COUNT_BITS
    BY ListAssumption, PowerOfTwo
  <2>2. 0 % B = 0
    OBVIOUS
  <2> QED
    BY <2>1, <2>2 DEF Count
<1>6. PICK m \in Nat : m = 0
  OBVIOUS
<1>7. list' = [head |-> IF m = 0 THEN Nil ELSE Q[1],
               tail |-> IF m = 0 THEN Nil ELSE Q[m],
               count |-> Count(m)]
  BY <1>5, <1>6 DEF Empty
<1>8. Linked(node', N, Q, m)
  BY <1>4, <1>6
<1>9. ListInv' /\ Items' = ItemsOf(node', Q, m)
  BY <1>2, <1>7, <1>8, ListIsLeft
<1>10. ItemsOf(node', Q, m) = <<>>
  BY <1>6 DEF ItemsOf
<1> QED
  BY <1>9, <1>10

\* The walk for the node before the tail finds it.
LEMMA SecondLastIs ==
  ASSUME NEW N \in Nat, NEW n \in Nat, NEW lo \in Int, NEW hi \in Int, NEW pos, NEW P,
         Lies(N, n, lo, hi, pos, P), n > 1
  PROVE  SecondLast = P[n - 1]
<1>1. Linked(node, N, P, n) /\ From(list.head) = P /\ list.tail = P[n]
  <2>1. From(list.head) = P
    BY DEF Lies
  <2> QED
    BY <2>1, ListEnds
<1>2. DOMAIN P = 1 .. n
  BY <1>1 DEF Linked
<1>3. n - 1 \in 1 .. n /\ n \in 1 .. n /\ (n - 1) + 1 = n /\ n - 1 # n
  OBVIOUS
<1>4. P[n] # Nil
  <2>1. P[n] \in 1 .. N
    BY <1>1, <1>3 DEF Linked
  <2> QED
    BY <2>1 DEF Nil
<1>5. ASSUME NEW i \in 1 .. n PROVE node[P[i]].next = P[n] <=> i = n - 1
  <2>1. node[P[i]].next = IF i = n THEN Nil ELSE P[i + 1]
    BY <1>1 DEF Linked
  <2>2. CASE i = n
    BY <1>3, <1>4, <2>1, <2>2
  <2>3. CASE i # n
    <3>1. i + 1 \in 1 .. n /\ (i + 1 = n <=> i = n - 1)
      BY <2>3
    <3>2. P[i + 1] = P[n] <=> i + 1 = n
      BY <1>1, <1>3, <3>1 DEF Linked
    <3> QED
      BY <2>1, <2>3, <3>1, <3>2
  <2> QED
    BY <2>2, <2>3
<1> DEFINE before == {i \in DOMAIN From(list.head) : node[From(list.head)[i]].next = list.tail}
<1>6. before = {n - 1}
  BY <1>1, <1>2, <1>3, <1>5
<1>7. (CHOOSE i \in before : \A j \in before : i <= j) = n - 1
  <2>1. n - 1 <= n - 1
    OBVIOUS
  <2> HIDE DEF before
  <2> QED
    BY <1>6, <2>1
<1>8. SecondLast = From(list.head)[CHOOSE i \in before : \A j \in before : i <= j]
  BY DEF SecondLast
<1> QED
  BY <1>1, <1>7, <1>8

\* The last value is taken.
LEMMA PopList ==
  ASSUME ListInv, list_pop
  PROVE  ListInv' /\ Abstract!TakeLast
<1>0. PICK N \in Nat, n \in Nat, lo \in Int, hi \in Int : \E pos, P : Lies(N, n, lo, hi, pos, P)
  BY ListLies
<1>1. PICK pos, P : Lies(N, n, lo, hi, pos, P)
  BY <1>0
<1>2. /\ N = Len(node) /\ Laid(node, N, pos, lo, hi) /\ Linked(node, N, P, n)
      /\ list.head = (IF n = 0 THEN Nil ELSE P[1])
      /\ list.tail = (IF n = 0 THEN Nil ELSE P[n])
      /\ list.count = Count(n)
      /\ (list.head = Nil <=> n = 0)
      /\ n # 0 => (list.head = list.tail <=> n = 1)
      /\ \A i \in 1 .. n : P[i] \in 1 .. N
      /\ Items = ItemsOf(node, P, n) /\ Items \in [1 .. n -> Values]
      /\ \A i \in 1 .. n : Items[i] = node[P[i]].val
  BY <1>1, ListEnds
<1>3. CASE n = 0
  <2>1. ret' = NULL /\ UNCHANGED <<node, list>>
    BY <1>2, <1>3 DEF list_pop
  <2>2. Items = <<>>
    BY <1>2, <1>3
  <2>3. ListInv' /\ Items' = Items
    BY <2>1, SameList
  <2> QED
    BY <2>1, <2>2, <2>3 DEF Abstract!TakeLast
<1>4. n # 0 => n > 0 /\ n \in 1 .. n /\ 1 \in 1 .. n
  OBVIOUS
<1>5. n # 0 => Items # <<>> /\ Last(Items) = Items[n] /\ Front(Items) = ButLast(Items, n)
  <2>1. n > 0 => \A s \in [1 .. n -> Values] : s # <<>> /\ Last(s) = s[n] /\ Front(s) = ButLast(s, n)
    BY OneLessOf
  <2>2. Items \in [1 .. n -> Values]
    BY <1>2
  <2> QED
    BY <1>4, <2>1, <2>2
<1>6. CASE n = 1
  <2>1. ret' = node[list.head].val /\ list' = Empty /\ UNCHANGED node
    BY <1>2, <1>6 DEF list_pop
  <2>2. ret' = Last(Items)
    BY <1>2, <1>4, <1>5, <1>6, <2>1
  <2>3. ListInv' /\ Items' = <<>>
    BY <2>1, EmptiedList
  <2>4. ButLast(Items, n) = <<>>
    BY <1>6 DEF ButLast
  <2> QED
    BY <1>5, <1>6, <2>2, <2>3, <2>4 DEF Abstract!TakeLast, Abstract!Last, Abstract!Front, Last, Front
<1>7. CASE n > 1
  <2>1. /\ ret' = node[list.tail].val
        /\ node' = [node EXCEPT ![SecondLast].next = Nil]
        /\ list' = [list EXCEPT !.tail = SecondLast, !.count = OneLess(list)]
    BY <1>2, <1>7 DEF list_pop
  <2>2. SecondLast = P[n - 1]
    BY <1>1, <1>7, SecondLastIs
  <2>3. PICK m \in Nat : m = n - 1 /\ m \in 1 .. n /\ m # 0 /\ 1 \in 1 .. m /\ m \in 1 .. m
    BY <1>7
  <2>4. PICK t \in 1 .. N : t = P[m]
    BY <1>2, <2>3
  <2>5. PICK nd : nd = LinkTo(node, t, 0)
    OBVIOUS
  <2>6. node' = nd
    BY <2>1, <2>2, <2>3, <2>4, <2>5 DEF LinkTo, Nil
  <2>7. /\ Laid(nd, N, pos, lo, hi)
        /\ \A x \in 1 .. N : nd[x].val = node[x].val /\ nd[x].next = IF x = t THEN 0 ELSE node[x].next
    <3>1. 0 \in 0 .. N /\ (0 # Nil => pos[t] < pos[0])
      BY DEF Nil
    <3> QED
      BY <1>2, <2>5, <3>1, LinkLaid
  <2>8. PICK Q : Q = ButLast(P, n)
    OBVIOUS
  <2>9. Linked(nd, N, Q, m)
    <3>1. \A x \in 1 .. N : nd[x].next = IF x = P[n - 1] THEN Nil ELSE node[x].next
      BY <2>3, <2>4, <2>7 DEF Nil
    <3>2. LastCut(node, N, P, n, nd)
      BY <1>2, <1>7, <3>1 DEF LastCut
    <3>3. Linked(nd, N, ButLast(P, n), n - 1)
      BY <3>2, LinkedWithoutLast
    <3> QED
      BY <2>3, <2>8, <3>3
  <2>10. Q[1] = P[1] /\ Q[m] = P[m]
    BY <2>3, <2>8 DEF ButLast
  <2>11. list' = [head |-> P[1], tail |-> P[m], count |-> Count(m)]
    <3>1. Count(Count(m + 1) - 1) = Count(m)
      BY CountSteps
    <3>2. m + 1 = n
      BY <2>3
    <3>3. OneLess(list) = Count(m)
      BY <1>2, <3>1, <3>2 DEF OneLess
    <3>4. list = [head |-> list.head, tail |-> list.tail, count |-> list.count]
      BY <1>1 DEF Lies
    <3>5. list' = [head |-> list.head, tail |-> P[m], count |-> Count(m)]
      BY <2>1, <2>2, <2>3, <3>3, <3>4
    <3> QED
      BY <1>2, <1>7, <3>5
  <2>12. ListInv' /\ Items' = ItemsOf(node', Q, m)
    <3>1. list' = [head |-> IF m = 0 THEN Nil ELSE Q[1],
                   tail |-> IF m = 0 THEN Nil ELSE Q[m],
                   count |-> Count(m)]
      BY <2>3, <2>10, <2>11
    <3>2. Laid(node', N, pos, lo, hi) /\ Linked(node', N, Q, m)
      BY <2>6, <2>7, <2>9
    <3> QED
      BY <3>1, <3>2, ListIsLeft
  <2>13. Items' = Front(Items)
    <3>1. \A i \in 1 .. n : nd[P[i]].val = node[P[i]].val
      BY <1>2, <2>7
    <3>2. ItemsOf(nd, ButLast(P, n), n - 1) = ButLast(ItemsOf(node, P, n), n)
      BY <3>1, FewerItems
    <3> QED
      BY <1>2, <1>5, <1>7, <2>3, <2>6, <2>8, <2>12, <3>2
  <2>14. ret' = Last(Items) /\ Items # <<>>
    BY <1>2, <1>4, <1>5, <1>7, <2>1
  <2> QED
    BY <2>12, <2>13, <2>14 DEF Abstract!TakeLast, Abstract!Last, Abstract!Front, Last, Front
<1> QED
  BY <1>3, <1>6, <1>7

\* The first value is taken.
LEMMA ShiftList ==
  ASSUME ListInv, list_shift
  PROVE  ListInv' /\ Abstract!TakeFirst
<1>0. PICK N \in Nat, n \in Nat, lo \in Int, hi \in Int : \E pos, P : Lies(N, n, lo, hi, pos, P)
  BY ListLies
<1>1. PICK pos, P : Lies(N, n, lo, hi, pos, P)
  BY <1>0
<1>2. /\ N = Len(node) /\ Laid(node, N, pos, lo, hi) /\ Linked(node, N, P, n)
      /\ list.head = (IF n = 0 THEN Nil ELSE P[1])
      /\ list.tail = (IF n = 0 THEN Nil ELSE P[n])
      /\ list.count = Count(n)
      /\ (list.head = Nil <=> n = 0)
      /\ n # 0 => (list.head = list.tail <=> n = 1)
      /\ \A i \in 1 .. n : P[i] \in 1 .. N
      /\ Items = ItemsOf(node, P, n) /\ Items \in [1 .. n -> Values]
      /\ \A i \in 1 .. n : Items[i] = node[P[i]].val
  BY <1>1, ListEnds
<1>3. UNCHANGED node
  BY DEF list_shift
<1>4. n # 0 => n > 0 /\ n \in 1 .. n /\ 1 \in 1 .. n
  OBVIOUS
<1>5. n # 0 => Items # <<>> /\ Head(Items) = Items[1] /\ Tail(Items) = ButFirst(Items, n)
  <2>1. n > 0 => \A s \in [1 .. n -> Values] : s # <<>> /\ Head(s) = s[1] /\ Tail(s) = ButFirst(s, n)
    BY OneLessOf
  <2>2. Items \in [1 .. n -> Values]
    BY <1>2
  <2> QED
    BY <1>4, <2>1, <2>2
<1>6. CASE n = 0
  <2>1. ret' = NULL /\ UNCHANGED <<node, list>>
    BY <1>2, <1>6 DEF list_shift
  <2>2. Items = <<>>
    BY <1>2, <1>6
  <2>3. ListInv' /\ Items' = Items
    BY <2>1, SameList
  <2> QED
    BY <2>1, <2>2, <2>3 DEF Abstract!TakeFirst
<1>7. n # 0 => ret' = Head(Items)
  BY <1>2, <1>4, <1>5 DEF list_shift
<1>8. CASE n = 1
  <2>1. list' = Empty
    BY <1>2, <1>8 DEF list_shift
  <2>2. ListInv' /\ Items' = <<>>
    BY <1>3, <2>1, EmptiedList
  <2>3. ButFirst(Items, n) = <<>>
    BY <1>8 DEF ButFirst
  <2> QED
    BY <1>5, <1>7, <1>8, <2>2, <2>3 DEF Abstract!TakeFirst
<1>9. CASE n > 1
  <2>1. list' = [list EXCEPT !.head = node[list.head].next, !.count = OneLess(list)]
    BY <1>2, <1>9 DEF list_shift
  <2>2. PICK m \in Nat : m = n - 1 /\ m # 0 /\ 1 \in 1 .. m /\ m \in 1 .. m /\ m + 1 = n
    BY <1>9
  <2>3. node[list.head].next = P[2]
    <3>1. 1 \in 1 .. n /\ 1 # n /\ 1 + 1 = 2
      BY <1>9
    <3>2. node[P[1]].next = P[2]
      BY <1>2, <3>1 DEF Linked
    <3> QED
      BY <1>2, <1>9, <3>2
  <2>4. PICK Q : Q = ButFirst(P, n)
    OBVIOUS
  <2>5. Linked(node', N, Q, m)
    <3>1. Linked(node, N, Q, n - 1)
      BY <1>2, <1>9, <2>4, LinkedWithoutFirst
    <3> QED
      BY <1>3, <2>2, <3>1
  <2>6. Q[1] = P[2] /\ Q[m] = P[n]
    <3>1. 1 + 1 = 2
      OBVIOUS
    <3> QED
      BY <2>2, <2>4, <3>1 DEF ButFirst
  <2>7. list' = [head |-> P[2], tail |-> P[n], count |-> Count(m)]
    <3>1. Count(Count(m + 1) - 1) = Count(m)
      BY CountSteps
    <3>2. OneLess(list) = Count(m)
      BY <1>2, <2>2, <3>1 DEF OneLess
    <3>3. list = [head |-> list.head, tail |-> list.tail, count |-> list.count]
      BY <1>1 DEF Lies
    <3>4. list' = [head |-> P[2], tail |-> list.tail, count |-> Count(m)]
      BY <2>1, <2>3, <3>2, <3>3
    <3> QED
      BY <1>2, <1>9, <3>4
  <2>8. ListInv' /\ Items' = ItemsOf(node', Q, m)
    <3>1. list' = [head |-> IF m = 0 THEN Nil ELSE Q[1],
                   tail |-> IF m = 0 THEN Nil ELSE Q[m],
                   count |-> Count(m)]
      BY <2>2, <2>6, <2>7
    <3>2. Laid(node', N, pos, lo, hi)
      BY <1>2, <1>3
    <3> QED
      BY <2>5, <3>1, <3>2, ListIsLeft
  <2>9. Items' = Tail(Items)
    <3>1. \A i \in 1 .. n : node'[P[i]].val = node[P[i]].val
      BY <1>3
    <3>2. ItemsOf(node', ButFirst(P, n), n - 1) = ButFirst(ItemsOf(node, P, n), n)
      BY <3>1, FewerItems
    <3> QED
      BY <1>2, <1>5, <1>9, <2>2, <2>4, <2>8, <3>2
  <2> QED
    BY <1>5, <1>7, <1>9, <2>8, <2>9 DEF Abstract!TakeFirst
<1> QED
  BY <1>6, <1>8, <1>9

-----------------------------------------------------------------------------
(* The theorems.                                                           *)

\* There are no nodes at first.
LEMMA InitList == Init => ListInv /\ Abstract!Init
<1> SUFFICES ASSUME Init PROVE ListInv /\ Abstract!Init
  OBVIOUS
<1>1. node = <<>> /\ list = Empty /\ ret = NULL
  BY DEF Init
<1>2. Arena(node)
  <2>1. node \in Nodes /\ Len(node) = 0
    BY <1>1 DEF Nodes
  <2>2. PICK pos : pos \in [1 .. 0 -> Int]
    <3>1. [x \in 1 .. 0 |-> 0] \in [1 .. 0 -> Int]
      OBVIOUS
    <3> QED
      BY <3>1
  <2>3. Forward(node)
    <3>1. 0 < 1 /\ 0 \in Int /\ 1 \in Int /\ 1 .. 0 = {}
      OBVIOUS
    <3> QED
      BY <2>1, <2>2, <3>1 DEF Forward
  <2>4. Inside(node)
    BY <2>1 DEF Inside
  <2> QED
    BY <2>1, <2>3, <2>4 DEF Arena
<1>3. Count(0) = 0
  <2>1. PICK B \in Nat \ {0} : B = 2 ^ COUNT_BITS
    BY ListAssumption, PowerOfTwo
  <2>2. 0 % B = 0
    OBVIOUS
  <2> QED
    BY <2>1, <2>2 DEF Count
<1>4. PICK P : P = <<>>
  OBVIOUS
<1>5. OnList(P)
  <2>1. Path(node, P)
    BY <1>4 DEF Path
  <2> QED
    BY <1>1, <1>3, <1>4, <2>1 DEF OnList, HeadOf, TailOf, Empty
<1>6. Items = <<>>
  <2>1. From(list.head) = P
    BY <1>2, <1>5, ListIsPath
  <2> QED
    BY <1>4, <2>1 DEF Items
<1> QED
  BY <1>1, <1>2, <1>5, <1>6 DEF ListInv, Abstract!Init

\* An iteration leaves the list alone, and so does a step of nothing.
LEMMA IterList ==
  ASSUME ListInv, list_iter \/ UNCHANGED vars
  PROVE  ListInv' /\ Items' = Items /\ ret' = ret
<1>1. UNCHANGED <<node, list>> /\ ret' = ret
  BY DEF list_iter, vars
<1> QED
  BY <1>1, SameList

\* Every step keeps the list, and is one of the sequence or leaves it.
LEMMA StepList ==
  ASSUME ListInv, [Next]_vars
  PROVE  ListInv' /\ [Abstract!Next]_<<Items, ret>>
<1>1. ASSUME NEW v \in Values, list_append(v)
      PROVE  ListInv' /\ [Abstract!Next]_<<Items, ret>>
  BY <1>1, AppendList DEF Abstract!Next
<1>2. ASSUME NEW v \in Values, list_unshift(v)
      PROVE  ListInv' /\ [Abstract!Next]_<<Items, ret>>
  BY <1>2, UnshiftList DEF Abstract!Next
<1>3. ASSUME list_pop
      PROVE  ListInv' /\ [Abstract!Next]_<<Items, ret>>
  BY <1>3, PopList DEF Abstract!Next
<1>4. ASSUME list_shift
      PROVE  ListInv' /\ [Abstract!Next]_<<Items, ret>>
  BY <1>4, ShiftList DEF Abstract!Next
<1>5. ASSUME list_iter \/ UNCHANGED vars
      PROVE  ListInv' /\ [Abstract!Next]_<<Items, ret>>
  BY <1>5, IterList
<1> QED
  BY <1>1, <1>2, <1>3, <1>4, <1>5 DEF Next

\* The nodes on the list are a path through an arena without circles that
\* begins at the head and ends at the tail, and the count is its length in as
\* many bits as it has, whatever was done at either end before (list.c:19-100).
THEOREM ListIsCounted == Spec => []CountIsLength
<1>1. Init => ListInv
  BY InitList
<1>2. ListInv /\ [Next]_vars => ListInv'
  BY StepList
<1>3. ListInv => CountIsLength
  BY ListIsPath DEF ListInv
<1> QED
  BY <1>1, <1>2, <1>3, PTL DEF Spec

\* The LIST is a sequence with two ends: every step of its code is a step of
\* the sequence, or leaves it and what the last call returned as they were.
THEOREM ListImplementsDeque == Spec => DequeSpec
<1>1. Init => ListInv /\ Abstract!Init
  BY InitList
<1>2. ListInv /\ [Next]_vars => ListInv'
  BY StepList
<1>3. ListInv /\ [Next]_vars => [Abstract!Next]_<<Items, ret>>
  BY StepList
<1> QED
  BY <1>1, <1>2, <1>3, PTL DEF Spec, DequeSpec, Abstract!Spec

-----------------------------------------------------------------------------
(* The growing string, for buffers of every size and strings of every      *)
(* length: the reader gets what was written, in order.                     *)

\* What is in a buffer.
Bytes == Chars \cup {Garbage}

\* The place of character i, counted from 0, is in this buffer.
Page(i) == (i \div BUFSIZE) + 1

\* The last buffer ends where the string does, or is full.
Layout ==
  /\ totallen \in Nat /\ bufpos \in 1 .. BUFSIZE
  /\ stringbufs \in Seq([0 .. BUFSIZE - 1 -> Bytes])
  /\ bufpos = BUFSIZE =>
       totallen % BUFSIZE = 0 /\ Len(stringbufs) = totallen \div BUFSIZE
  /\ bufpos # BUFSIZE =>
       totallen % BUFSIZE = bufpos /\ Len(stringbufs) = Page(totallen)

\* The buffers hold what was written.
Holds ==
  /\ text \in Seq(Chars) /\ Len(text) = totallen
  /\ \A i \in 0 .. totallen - 1 :
       Page(i) \in 1 .. Len(stringbufs) /\ InBuf(i) = text[i + 1]

\* The reader stands in the buffer of the character it was given last.
Beside ==
  /\ char_index \in 0 .. totallen /\ buf \in Nat
  /\ buf = NoBuf => char_index = 0
  /\ buf # NoBuf => char_index > 0 /\ buf = Page(char_index - 1)

\* It was given the beginning of the text.
Given ==
  /\ got \in Seq(Chars) /\ Len(got) = char_index
  /\ \A i \in 1 .. char_index : got[i] = text[i]

MsInv == Layout /\ Holds /\ Beside /\ Given

-----------------------------------------------------------------------------
(* Where a character is.                                                   *)

\* Every character has a buffer and a place in it.
LEMMA PageType ==
  ASSUME NEW B \in Nat \ {0}, NEW i \in Nat
  PROVE  i \div B \in Nat /\ i % B \in 0 .. B - 1
<1>1. i \div B \in Nat
  OBVIOUS
<1>2. i % B \in 0 .. B - 1
  OBVIOUS
<1> QED
  BY <1>1, <1>2

\* The next character is at the next place, or at the first one of the next
\* buffer.
LEMMA NextPlace ==
  ASSUME NEW B \in Nat \ {0}, NEW i \in Nat
  PROVE  IF i % B = B - 1
           THEN (i + 1) % B = 0 /\ (i + 1) \div B = (i \div B) + 1
           ELSE (i + 1) % B = (i % B) + 1 /\ (i + 1) \div B = i \div B
  OBVIOUS

\* Two characters are not at one place.
LEMMA PlacesDiffer ==
  ASSUME NEW B \in Nat \ {0}, NEW i \in Nat, NEW j \in Nat,
         i \div B = j \div B, i % B = j % B
  PROVE  i = j
  OBVIOUS

-----------------------------------------------------------------------------
(* A character is written.                                                 *)

\* The list of buffers after the write.
Bufs == IF bufpos = BUFSIZE
          THEN Append(stringbufs, [i \in 0 .. BUFSIZE - 1 |-> Garbage])
          ELSE stringbufs

Pos == IF bufpos = BUFSIZE THEN 0 ELSE bufpos

\* The character goes to the place of its number, in the last buffer, and the
\* buffers before have not moved.
LEMMA PlaceOfNext ==
  ASSUME BUFSIZE \in Nat \ {0}, Layout
  PROVE  /\ Bufs \in Seq([0 .. BUFSIZE - 1 -> Bytes])
         /\ Len(Bufs) = Page(totallen) /\ Len(Bufs) \in Nat \ {0}
         /\ Pos = totallen % BUFSIZE /\ Pos \in 0 .. BUFSIZE - 1
         /\ \A k \in 1 .. Len(stringbufs) : k \in 1 .. Len(Bufs) /\ Bufs[k] = stringbufs[k]
<1>1. PICK n \in Nat : n = Len(stringbufs)
  BY DEF Layout
<1>2. totallen \div BUFSIZE \in Nat /\ totallen % BUFSIZE \in 0 .. BUFSIZE - 1
  BY PageType DEF Layout
<1>3. CASE bufpos = BUFSIZE
  <2>1. PICK fresh \in [0 .. BUFSIZE - 1 -> Bytes] :
          fresh = [i \in 0 .. BUFSIZE - 1 |-> Garbage]
    BY DEF Bytes
  <2>2. /\ Bufs = Append(stringbufs, fresh) /\ Pos = 0
        /\ totallen % BUFSIZE = 0 /\ n = totallen \div BUFSIZE
    BY <1>1, <1>3, <2>1 DEF Bufs, Pos, Layout
  <2>3. /\ Bufs \in Seq([0 .. BUFSIZE - 1 -> Bytes]) /\ Len(Bufs) = n + 1
        /\ \A k \in 1 .. n : Bufs[k] = stringbufs[k]
    <3>1. PICK S : S = [0 .. BUFSIZE - 1 -> Bytes]
      OBVIOUS
    <3>2. fresh \in S /\ stringbufs \in Seq(S)
      BY <2>1, <3>1 DEF Layout
    <3>3. /\ Append(stringbufs, fresh) \in Seq(S)
          /\ Len(Append(stringbufs, fresh)) = Len(stringbufs) + 1
          /\ \A k \in 1 .. Len(stringbufs) : Append(stringbufs, fresh)[k] = stringbufs[k]
      BY <3>2, AppendProperties
    <3> QED
      BY <1>1, <2>2, <3>1, <3>3
  <2>4. 0 \in 0 .. BUFSIZE - 1
    OBVIOUS
  <2> QED
    BY <1>1, <2>2, <2>3, <2>4 DEF Page
<1>4. CASE bufpos # BUFSIZE
  BY <1>1, <1>2, <1>4 DEF Bufs, Pos, Layout, Page
<1> QED
  BY <1>3, <1>4

\* The last buffer is full when the next character would begin a new one.
LEMMA WriteLayout ==
  ASSUME BUFSIZE \in Nat \ {0}, Layout, NEW ch \in Chars, ms_writechar(ch)
  PROVE  /\ Layout' /\ Len(stringbufs') = Len(Bufs)
         /\ \A k \in 1 .. Len(Bufs) : \A p \in 0 .. BUFSIZE - 1 :
              stringbufs'[k][p] = IF k = Page(totallen) /\ p = totallen % BUFSIZE
                                    THEN ch ELSE Bufs[k][p]
<1>1. /\ Bufs \in Seq([0 .. BUFSIZE - 1 -> Bytes])
      /\ Len(Bufs) = Page(totallen) /\ Len(Bufs) \in Nat \ {0}
      /\ Pos = totallen % BUFSIZE /\ Pos \in 0 .. BUFSIZE - 1
  BY PlaceOfNext
<1>2. /\ stringbufs' = [Bufs EXCEPT ![Len(Bufs)][Pos] = ch]
      /\ bufpos' = Pos + 1 /\ totallen' = totallen + 1
  BY DEF ms_writechar, Bufs, Pos
<1>3. PICK n \in Nat \ {0} : n = Len(Bufs)
  BY <1>1
<1>4. PICK b : b = [Bufs[n] EXCEPT ![Pos] = ch]
  OBVIOUS
<1>5. Bufs[n] \in [0 .. BUFSIZE - 1 -> Bytes] /\ ch \in Bytes
  BY <1>1, <1>3 DEF Bytes
<1>6. /\ b \in [0 .. BUFSIZE - 1 -> Bytes]
      /\ \A p \in 0 .. BUFSIZE - 1 : b[p] = IF p = Pos THEN ch ELSE Bufs[n][p]
  BY <1>1, <1>4, <1>5
<1>7. PICK s : s = [Bufs EXCEPT ![n] = b]
  OBVIOUS
<1>8. /\ s \in Seq([0 .. BUFSIZE - 1 -> Bytes]) /\ Len(s) = n
      /\ \A k \in 1 .. n : s[k] = IF k = n THEN b ELSE Bufs[k]
  BY <1>1, <1>3, <1>6, <1>7
<1>9. stringbufs' = s
  BY <1>2, <1>3, <1>4, <1>7
<1>10. totallen \in Nat
  BY DEF Layout
<1>11. Layout'
  <2>1. bufpos' \in 1 .. BUFSIZE /\ totallen' \in Nat
    BY <1>1, <1>2, <1>10
  <2>2. CASE bufpos' = BUFSIZE
    <3>1. totallen % BUFSIZE = BUFSIZE - 1
      BY <1>1, <1>2, <2>2
    <3>2. totallen' % BUFSIZE = 0 /\ totallen' \div BUFSIZE = (totallen \div BUFSIZE) + 1
      BY <1>2, <1>10, <3>1, NextPlace
    <3> QED
      BY <1>1, <1>3, <1>8, <1>9, <2>1, <2>2, <3>2 DEF Layout, Page
  <2>3. CASE bufpos' # BUFSIZE
    <3>1. totallen % BUFSIZE # BUFSIZE - 1
      BY <1>1, <1>2, <2>3
    <3>2. /\ totallen' % BUFSIZE = (totallen % BUFSIZE) + 1
          /\ totallen' \div BUFSIZE = totallen \div BUFSIZE
      BY <1>2, <1>10, <3>1, NextPlace
    <3> QED
      BY <1>1, <1>2, <1>3, <1>8, <1>9, <2>1, <2>3, <3>2 DEF Layout, Page
  <2> QED
    BY <2>2, <2>3
<1>12. ASSUME NEW k \in 1 .. n, NEW p \in 0 .. BUFSIZE - 1
       PROVE  s[k][p] = IF k = Page(totallen) /\ p = totallen % BUFSIZE
                          THEN ch ELSE Bufs[k][p]
  <2>1. CASE k = n
    BY <1>1, <1>3, <1>6, <1>8, <2>1
  <2>2. CASE k # n
    BY <1>1, <1>3, <1>8, <2>2
  <2> QED
    BY <2>1, <2>2
<1> QED
  BY <1>3, <1>8, <1>9, <1>11, <1>12

\* What was written before stays where it is.
LEMMA WriteHolds ==
  ASSUME BUFSIZE \in Nat \ {0}, Layout, Holds, NEW ch \in Chars, ms_writechar(ch)
  PROVE  Holds'
<1>1. PICK len \in Nat : len = totallen
  BY DEF Layout
<1>2. totallen' = len + 1 /\ text' = Append(text, ch)
  BY <1>1 DEF ms_writechar
<1>3. /\ text' \in Seq(Chars) /\ Len(text') = len + 1 /\ text'[len + 1] = ch
      /\ \A i \in 1 .. len : text'[i] = text[i]
  BY <1>1, <1>2, AppendProperties DEF Holds
<1>4. PICK m \in Nat \ {0} : m = Len(Bufs)
  BY PlaceOfNext
<1>5. /\ m = Page(len) /\ Len(stringbufs') = m
      /\ \A k \in 1 .. m : \A p \in 0 .. BUFSIZE - 1 :
           stringbufs'[k][p] = IF k = m /\ p = len % BUFSIZE THEN ch ELSE Bufs[k][p]
  <2>1. Len(Bufs) = Page(totallen)
    BY PlaceOfNext
  <2>2. /\ Len(stringbufs') = Len(Bufs)
        /\ \A k \in 1 .. Len(Bufs) : \A p \in 0 .. BUFSIZE - 1 :
             stringbufs'[k][p] = IF k = Page(totallen) /\ p = totallen % BUFSIZE
                                   THEN ch ELSE Bufs[k][p]
    BY WriteLayout
  <2> QED
    BY <1>1, <1>4, <2>1, <2>2
<1>6. ASSUME NEW i \in 0 .. len
      PROVE  Page(i) \in 1 .. m /\ InBuf(i)' = text'[i + 1]
  <2>1. i \in Nat /\ i % BUFSIZE \in 0 .. BUFSIZE - 1 /\ InBuf(i)' = stringbufs'[Page(i)][i % BUFSIZE]
    BY PageType DEF InBuf, Page
  <2>2. CASE i = len
    BY <1>3, <1>4, <1>5, <2>1, <2>2
  <2>3. CASE i # len
    <3>1. i \in 0 .. totallen - 1 /\ i + 1 \in 1 .. len
      BY <1>1, <2>3
    <3>2. /\ Page(i) \in 1 .. Len(stringbufs)
          /\ stringbufs[Page(i)][i % BUFSIZE] = text[i + 1]
      BY <3>1 DEF Holds, InBuf, Page
    <3>3. Page(i) \in 1 .. m /\ Bufs[Page(i)] = stringbufs[Page(i)]
      BY <1>4, <3>2, PlaceOfNext
    <3>4. ~(Page(i) = m /\ i % BUFSIZE = len % BUFSIZE)
      <4>1. PICK q \in Nat : q = i \div BUFSIZE
        BY <2>1, PageType
      <4>2. PICK r \in Nat : r = len \div BUFSIZE
        BY PageType
      <4>3. Page(i) = q + 1 /\ m = r + 1
        BY <1>5, <4>1, <4>2 DEF Page
      <4>4. Page(i) = m => q = r
        BY <4>3
      <4> QED
        BY <2>1, <2>3, <4>1, <4>2, <4>4, PlacesDiffer
    <3>5. stringbufs'[Page(i)][i % BUFSIZE] = text[i + 1]
      BY <1>5, <2>1, <3>2, <3>3, <3>4
    <3> QED
      BY <1>3, <2>1, <3>1, <3>3, <3>5
  <2> QED
    BY <2>2, <2>3
<1>7. 0 .. totallen' - 1 = 0 .. len
  BY <1>2
<1> QED
  BY <1>2, <1>3, <1>5, <1>6, <1>7 DEF Holds, Page

\* ms_writechar writes behind what is there, in a new buffer where the last is full.
LEMMA WriteStep ==
  ASSUME BUFSIZE \in Nat \ {0}, MsInv, NEW ch \in Chars, ms_writechar(ch)
  PROVE  MsInv'
<1>1. Layout' /\ Holds'
  BY WriteLayout, WriteHolds DEF MsInv
<1>2. /\ totallen' = totallen + 1 /\ text' = Append(text, ch)
      /\ char_index' = char_index /\ buf' = buf /\ got' = got
  BY DEF ms_writechar, reader
<1>3. Beside'
  <2>1. char_index' \in 0 .. totallen'
    BY <1>2 DEF MsInv, Layout, Beside
  <2> QED
    BY <1>2, <2>1 DEF MsInv, Beside, Page
<1>4. Given'
  <2>1. /\ text \in Seq(Chars) /\ char_index \in 0 .. Len(text)
        /\ \A i \in 1 .. Len(text) : text'[i] = text[i]
    BY <1>2, AppendProperties, SMTT(20) DEF MsInv, Holds, Beside
  <2> QED
    BY <1>2, <2>1 DEF MsInv, Given
<1> QED
  BY <1>1, <1>3, <1>4 DEF MsInv

-----------------------------------------------------------------------------
(* A character is read.                                                    *)

\* ms_iterchar goes on to the next buffer exactly where the one it is in ends.
LEMMA IterStep ==
  ASSUME BUFSIZE \in Nat \ {0}, MsInv, ms_iterchar
  PROVE  MsInv'
<1>1. PICK i \in Nat : i = char_index
  BY DEF MsInv, Layout, Beside
<1>2. /\ i < totallen /\ totallen \in Nat /\ i \in 0 .. totallen - 1
      /\ i \div BUFSIZE \in Nat /\ i % BUFSIZE \in 0 .. BUFSIZE - 1
      /\ UNCHANGED <<ms, text>>
  <2>1. i < totallen /\ totallen \in Nat /\ UNCHANGED <<ms, text>>
    BY <1>1 DEF ms_iterchar, MsInv, Layout
  <2>2. i \in 0 .. totallen - 1
    BY <2>1
  <2> QED
    BY <2>1, <2>2, PageType
<1>3. PICK at : at = IF buf = NoBuf THEN 1 ELSE IF TurnsPage(char_index) THEN buf + 1 ELSE buf
  OBVIOUS
<1>4. at = Page(i)
  <2>1. CASE buf = NoBuf
    <3>1. i = 0 /\ 0 \div BUFSIZE = 0
      BY <1>1, <2>1 DEF MsInv, Beside
    <3> QED
      BY <1>3, <2>1, <3>1 DEF Page
  <2>2. CASE buf # NoBuf
    <3>1. PICK j \in Nat : i = j + 1
      <4>1. i - 1 \in Nat /\ i = (i - 1) + 1
        BY <1>1, <2>2 DEF MsInv, Beside
      <4> QED
        BY <4>1
    <3>2. buf = (j \div BUFSIZE) + 1
      <4>1. char_index - 1 = j
        BY <1>1, <3>1
      <4> QED
        BY <2>2, <4>1 DEF MsInv, Beside, Page
    <3>3. /\ j \div BUFSIZE \in Nat /\ j % BUFSIZE \in 0 .. BUFSIZE - 1
          /\ IF j % BUFSIZE = BUFSIZE - 1
               THEN i % BUFSIZE = 0 /\ i \div BUFSIZE = (j \div BUFSIZE) + 1
               ELSE i % BUFSIZE = (j % BUFSIZE) + 1 /\ i \div BUFSIZE = j \div BUFSIZE
      BY <3>1, NextPlace, PageType
    <3>4. i % BUFSIZE = 0 <=> j % BUFSIZE = BUFSIZE - 1
      BY <3>3
    <3>5. TurnsPage(char_index) <=> i % BUFSIZE = 0
      BY <1>1 DEF TurnsPage
    <3> QED
      BY <1>3, <2>2, <3>2, <3>3, <3>4, <3>5 DEF Page
  <2> QED
    BY <2>1, <2>2
<1>5. /\ buf' = at /\ char_index' = i + 1
      /\ got' = Append(got, IF at \in DOMAIN stringbufs
                              THEN stringbufs[at][i % BUFSIZE] ELSE Garbage)
  <2>1. buf = NoBuf => i = 0 /\ 0 % BUFSIZE = 0
    BY <1>1 DEF MsInv, Beside
  <2> QED
    BY <1>1, <1>3, <2>1 DEF ms_iterchar
<1>6. at \in 1 .. Len(stringbufs) /\ stringbufs[at][i % BUFSIZE] = text[i + 1]
  BY <1>2, <1>4 DEF MsInv, Holds, InBuf, Page
<1>7. got' = Append(got, text[i + 1])
  <2>1. at \in DOMAIN stringbufs
    BY <1>6 DEF MsInv, Layout
  <2> QED
    BY <1>5, <1>6, <2>1
<1>8. Layout' /\ Holds'
  BY <1>2 DEF ms, MsInv, Layout, Holds, InBuf, Page
<1>9. Beside'
  <2>1. i + 1 \in 0 .. totallen /\ i + 1 > 0 /\ (i + 1) - 1 = i
    BY <1>2
  <2>2. at \in Nat /\ at # NoBuf
    BY <1>2, <1>4 DEF Page, NoBuf
  <2>3. char_index' - 1 = i
    BY <1>5, <2>1
  <2> QED
    BY <1>2, <1>4, <1>5, <2>1, <2>2, <2>3 DEF ms, Beside, Page
<1>10. Given'
  <2>1. text[i + 1] \in Chars
    BY <1>2 DEF MsInv, Holds
  <2>2. /\ got' \in Seq(Chars) /\ Len(got') = i + 1 /\ got'[i + 1] = text[i + 1]
        /\ \A k \in 1 .. i : got'[k] = got[k]
    BY <1>1, <1>7, <2>1, AppendProperties DEF MsInv, Given
  <2>3. \A k \in 1 .. i + 1 : got'[k] = text[k]
    BY <1>1, <2>2 DEF MsInv, Given
  <2> QED
    BY <1>2, <1>5, <2>2, <2>3 DEF Given
<1> QED
  BY <1>8, <1>9, <1>10 DEF MsInv

-----------------------------------------------------------------------------

\* Nothing is written and nothing read at first.
LEMMA InitMs ==
  ASSUME BUFSIZE \in Nat \ {0}, MsInit
  PROVE  MsInv
<1>1. 0 % BUFSIZE = 0 /\ 0 \div BUFSIZE = 0 /\ BUFSIZE \in 1 .. BUFSIZE
  OBVIOUS
<1>2. Layout
  <2>1. <<>> \in Seq([0 .. BUFSIZE - 1 -> Bytes]) /\ Len(<<>>) = 0
    BY EmptySeq
  <2> QED
    BY <1>1, <2>1 DEF MsInit, Layout
<1>3. Holds
  BY DEF MsInit, Holds
<1>4. Beside
  <2>1. totallen = 0 /\ char_index = 0 /\ buf = 0
    BY DEF MsInit, NoBuf
  <2> QED
    BY <2>1 DEF Beside, NoBuf
<1>5. Given
  BY DEF MsInit, Given
<1> QED
  BY <1>2, <1>3, <1>4, <1>5 DEF MsInv

\* The beginning of the text, as ReadsInOrder says it.
LEMMA GivenInOrder ==
  ASSUME MsInv
  PROVE  ReadsInOrder
<1>1. PICK n \in Nat : n = Len(got)
  BY DEF MsInv, Given
<1>2. /\ n = char_index /\ n <= Len(text) /\ text \in Seq(Chars) /\ got \in Seq(Chars)
      /\ \A i \in 1 .. n : got[i] = text[i]
  BY <1>1 DEF MsInv, Layout, Given, Holds, Beside
<1>3. PICK u : u = SubSeq(text, 1, n)
  OBVIOUS
<1>4. u \in Seq(Chars) /\ Len(u) = n /\ \A i \in 1 .. n : u[i] = text[i]
  <2>1. 1 \in Int /\ n \in Int /\ \A i \in 1 .. n : text[i] \in Chars
    BY <1>2
  <2> QED
    BY <1>3, <2>1, SubSeqProperties
<1>5. u = got
  BY <1>1, <1>2, <1>4, SeqEqual
<1> QED
  BY <1>1, <1>2, <1>3, <1>5 DEF ReadsInOrder

\* No step loses any of it.
LEMMA StepMs ==
  ASSUME BUFSIZE \in Nat \ {0}, MsInv, [MsNext]_msvars
  PROVE  MsInv'
<1>1. CASE \E ch \in Chars : ms_writechar(ch)
  BY <1>1, WriteStep
<1>2. CASE ms_iterchar
  BY <1>2, IterStep
<1>3. CASE UNCHANGED msvars
  BY <1>3 DEF msvars, ms, reader, MsInv, Layout, Holds, Beside, Given, InBuf, Page
<1> QED
  BY <1>1, <1>2, <1>3 DEF MsNext

\* Whatever the size of the buffers, and however the calls of the reader and
\* of the writer fall, the characters that were read are those that were
\* written first: the reader never turns to a buffer that is not there, nor
\* stays on one that it is through with.
THEOREM ReadAsWritten ==
  ASSUME BUFSIZE \in Nat \ {0}
  PROVE  MsSpec => []ReadsInOrder
<1>1. MsInit => MsInv
  BY InitMs
<1>2. MsInv /\ [MsNext]_msvars => MsInv'
  BY StepMs
<1>3. MsInv => ReadsInOrder
  BY GivenInOrder
<1> QED
  BY <1>1, <1>2, <1>3, PTL DEF MsSpec

-----------------------------------------------------------------------------
(* The functions that take the string as one piece.                        *)

\* The character of number k * B + j is at place j of the buffer after k full
\* ones.
LEMMA PlaceOf ==
  ASSUME NEW B \in Nat \ {0}, NEW k \in Nat, NEW j \in 0 .. B - 1
  PROVE  (k * B + j) \div B = k /\ (k * B + j) % B = j
OBVIOUS

\* A number, between two multiples of the buffers' size.
LEMMA PagesBefore ==
  ASSUME NEW B \in Nat \ {0}, NEW i \in Nat, NEW q, q = i \div B
  PROVE  /\ q \in Nat /\ q * B <= i /\ i < q * B + B
         /\ i % B = 0 => q * B = i
<1>1. q \in Nat
  OBVIOUS
<1>2. q * B <= i /\ i < q * B + B
  BY <1>1
<1>3. i % B = 0 => q * B = i
  OBVIOUS
<1> QED
  BY <1>1, <1>2, <1>3

\* More full buffers have more characters.
LEMMA MorePages ==
  ASSUME NEW B \in Nat \ {0}, NEW a \in Int, NEW b \in Int
  PROVE  /\ a * B \in Int /\ (a + 1) * B = a * B + B
         /\ a < b => a * B + B <= b * B
<1>1. a * B \in Int /\ (a + 1) * B = a * B + B
  OBVIOUS
<1>2. ASSUME a < b
      PROVE  a * B + B <= b * B
  <2>1. PICK d \in Nat : b = a + 1 + d
    <3>1. b - a - 1 \in Nat /\ b = a + 1 + (b - a - 1)
      BY <1>2
    <3> QED
      BY <3>1
  <2>2. b * B = a * B + B + d * B /\ d * B >= 0
    BY <2>1
  <2> QED
    BY <2>2
<1> QED
  BY <1>1, <1>2

\* Every buffer has characters in it, and there is one for each character.
LEMMA PagesFilled ==
  ASSUME BUFSIZE \in Nat \ {0}, Layout
  PROVE  /\ Len(stringbufs) \in Nat /\ totallen \in Nat
         /\ totallen <= Len(stringbufs) * BUFSIZE
         /\ \A k \in 1 .. Len(stringbufs) : (k - 1) * BUFSIZE < totallen
<1>1. PICK n \in Nat, q \in Nat : n = Len(stringbufs) /\ q = totallen \div BUFSIZE
  <2>1. Len(stringbufs) \in Nat /\ totallen \in Nat
    BY DEF Layout
  <2>2. totallen \div BUFSIZE \in Nat
    BY <2>1, PageType
  <2> QED
    BY <2>1, <2>2
<1>2. /\ totallen \in Nat /\ q \in Nat /\ q * BUFSIZE <= totallen
      /\ totallen < q * BUFSIZE + BUFSIZE
      /\ totallen % BUFSIZE = 0 => q * BUFSIZE = totallen
  BY <1>1, PagesBefore DEF Layout
<1>3. \/ n = q /\ q * BUFSIZE = totallen
      \/ n = q + 1 /\ q * BUFSIZE < totallen
  <2>1. CASE bufpos = BUFSIZE
    BY <1>1, <1>2, <2>1 DEF Layout
  <2>2. CASE bufpos # BUFSIZE
    <3>1. totallen % BUFSIZE # 0 /\ n = q + 1
      BY <1>1, <2>2 DEF Layout, Page
    <3>2. q * BUFSIZE # totallen
      <4>1. (q * BUFSIZE + 0) % BUFSIZE = 0
        BY <1>2, PlaceOf
      <4> QED
        BY <1>2, <3>1, <4>1
    <3> QED
      BY <1>2, <3>1, <3>2
  <2> QED
    BY <2>1, <2>2
<1>4. totallen <= n * BUFSIZE
  BY <1>2, <1>3, MorePages
<1>5. ASSUME NEW k \in 1 .. n
      PROVE  (k - 1) * BUFSIZE < totallen
  <2>1. k - 1 \in Int /\ k - 1 <= q
    BY <1>2, <1>3
  <2>2. CASE k - 1 = q
    BY <1>2, <1>3, <2>2
  <2>3. CASE k - 1 < q
    <3>1. (k - 1) * BUFSIZE \in Int /\ (k - 1) * BUFSIZE + BUFSIZE <= q * BUFSIZE
      BY <1>2, <2>1, <2>3, MorePages
    <3> QED
      BY <1>2, <3>1
  <2> QED
    BY <1>2, <2>1, <2>2, <2>3
<1> QED
  BY <1>1, <1>2, <1>4, <1>5

\* What holds at the end and, where it holds, one before, holds everywhere.
LEMMA Backwards ==
  ASSUME NEW n \in Nat, NEW T, n + 1 \in T, \A k \in 1 .. n : k + 1 \in T => k \in T
  PROVE  \A k \in 1 .. n + 1 : k \in T
<1> DEFINE Wrong == {j \in Nat : \E k \in 1 .. n + 1 : j = n + 1 - k /\ k \notin T}
<1>1. SUFFICES ASSUME NEW k \in 1 .. n + 1, k \notin T PROVE FALSE
  OBVIOUS
<1>2. n + 1 - k \in Wrong
  BY <1>1
<1>3. PICK j \in Wrong : \A i \in Wrong : j <= i
  <2>1. Wrong \subseteq Nat
    OBVIOUS
  <2> HIDE DEF Wrong
  <2> QED
    BY <1>2, <2>1, NatMinimum
<1>4. PICK m \in 1 .. n + 1 : j = n + 1 - m /\ m \notin T
  BY <1>3
<1>5. m \in 1 .. n /\ m + 1 \notin T
  BY <1>4
<1>6. n + 1 - (m + 1) \in Wrong /\ ~ (j <= n + 1 - (m + 1))
  BY <1>4, <1>5
<1> HIDE DEF Wrong
<1> QED
  BY <1>3, <1>6

\* A piece of each of n pages, and where to go on from there.
Paged(n, P, X, z, piece, next) ==
  /\ n \in Nat /\ z \in [P -> Seq(X)]
  /\ piece \in [1 .. n -> [P -> Seq(X)]] /\ next \in [1 .. n -> [P -> P]]

\* The pieces from page k on, put together; there is none in a place of stop.
Joined(k, n, P, X, z, stop, piece, next, g) ==
  /\ g \in [1 .. n + 1 -> [P -> Seq(X)]] /\ g[n + 1] = z
  /\ \A i \in k .. n : \A p \in P :
       g[i][p] = IF p \in stop THEN <<>> ELSE piece[i][p] \o g[i + 1][next[i][p]]

\* Going through the pages one after the other comes to an end.
LEMMA PagesRecursion ==
  ASSUME NEW n, NEW P, NEW X, NEW z, NEW stop, NEW piece, NEW next,
         Paged(n, P, X, z, piece, next)
  PROVE  \E g : Joined(1, n, P, X, z, stop, piece, next, g)
<1>0. /\ n \in Nat /\ z \in [P -> Seq(X)]
      /\ piece \in [1 .. n -> [P -> Seq(X)]] /\ next \in [1 .. n -> [P -> P]]
  BY DEF Paged
<1> DEFINE T == {k \in 1 .. n + 1 : \E g : Joined(k, n, P, X, z, stop, piece, next, g)}
<1>1. n + 1 \in T
  <2>1. PICK g : g = [k \in 1 .. n + 1 |-> z]
    OBVIOUS
  <2>2. n + 1 \in 1 .. n + 1 /\ (n + 1) .. n = {}
    BY <1>0
  <2>3. g \in [1 .. n + 1 -> [P -> Seq(X)]] /\ g[n + 1] = z
    BY <1>0, <2>1, <2>2
  <2>4. Joined(n + 1, n, P, X, z, stop, piece, next, g)
    BY <2>2, <2>3 DEF Joined
  <2> QED
    BY <2>2, <2>4
<1>2. ASSUME NEW k \in 1 .. n, k + 1 \in T
      PROVE  k \in T
  <2>1. PICK g : Joined(k + 1, n, P, X, z, stop, piece, next, g)
    BY <1>2
  <2>2. PICK row : row = [p \in P |-> IF p \in stop THEN <<>>
                                      ELSE piece[k][p] \o g[k + 1][next[k][p]]]
    OBVIOUS
  <2>3. PICK h : h = [g EXCEPT ![k] = row]
    OBVIOUS
  <2>4. k \in 1 .. n + 1 /\ k + 1 \in 1 .. n + 1 /\ k # n + 1 /\ n + 1 \in 1 .. n + 1
    BY <1>0
  <2>5. g \in [1 .. n + 1 -> [P -> Seq(X)]] /\ g[n + 1] = z
    BY <2>1 DEF Joined
  <2>6. row \in [P -> Seq(X)]
    <3>1. ASSUME NEW p \in P
          PROVE  piece[k][p] \o g[k + 1][next[k][p]] \in Seq(X)
      <4>1. piece[k][p] \in Seq(X) /\ next[k][p] \in P
        BY <1>0
      <4>2. g[k + 1][next[k][p]] \in Seq(X)
        BY <2>4, <2>5, <4>1
      <4> QED
        BY <4>1, <4>2, ConcatProperties
    <3>2. <<>> \in Seq(X)
      OBVIOUS
    <3> QED
      BY <2>2, <3>1, <3>2
  <2>7. /\ h \in [1 .. n + 1 -> [P -> Seq(X)]] /\ h[k] = row
        /\ \A i \in 1 .. n + 1 : i # k => h[i] = g[i]
    BY <2>3, <2>4, <2>5, <2>6
  <2>8. h[n + 1] = z
    BY <2>4, <2>5, <2>7
  <2>9. ASSUME NEW i \in k .. n, NEW p \in P
        PROVE  h[i][p] = IF p \in stop THEN <<>> ELSE piece[i][p] \o h[i + 1][next[i][p]]
    <3>1. i \in 1 .. n + 1 /\ i + 1 \in 1 .. n + 1 /\ i + 1 # k
      BY <1>0
    <3>2. h[i + 1] = g[i + 1]
      BY <2>7, <3>1
    <3>3. CASE i = k
      BY <2>2, <2>7, <3>2, <3>3
    <3>4. CASE i # k
      <4>1. i \in (k + 1) .. n /\ h[i] = g[i]
        BY <1>0, <2>7, <3>1, <3>4
      <4>2. g[i][p] = IF p \in stop THEN <<>> ELSE piece[i][p] \o g[i + 1][next[i][p]]
        BY <2>1, <4>1 DEF Joined
      <4> QED
        BY <3>2, <4>1, <4>2
    <3> QED
      BY <3>3, <3>4
  <2>10. Joined(k, n, P, X, z, stop, piece, next, h)
    BY <2>7, <2>8, <2>9 DEF Joined
  <2> QED
    BY <2>4, <2>10
<1>3. 1 \in T
  <2>1. 1 \in 1 .. n + 1
    BY <1>0
  <2> HIDE DEF T
  <2> QED
    BY <1>0, <1>1, <1>2, <2>1, Backwards
<1> QED
  BY <1>3

\* The rest of the text from buffer k on.
Suffix(k) == SubSeq(text, (k - 1) * BUFSIZE + 1, totallen)

\* How many characters of the text are in buffer k.
Share(k) == Copied((k - 1) * BUFSIZE)

\* A minimum is the least element.
LEMMA MinimumIs ==
  ASSUME NEW S, S \subseteq Int, NEW x \in S, \A y \in S : x <= y
  PROVE  Min(S) = x
<1>1. PICK m : m = Min(S)
  OBVIOUS
<1>2. m \in S /\ \A y \in S : m <= y
  BY <1>1 DEF Min
<1> QED
  BY <1>1, <1>2

\* The smaller of two numbers.
LEMMA MinOfTwo ==
  ASSUME NEW a \in Int, NEW b \in Int
  PROVE  Min({a, b}) = IF a <= b THEN a ELSE b
<1>1. CASE a <= b
  <2>1. \A y \in {a, b} : a <= y
    BY <1>1
  <2> QED
    BY <1>1, <2>1, MinimumIs
<1>2. CASE ~ (a <= b)
  <2>1. \A y \in {a, b} : b <= y
    BY <1>2
  <2> QED
    BY <1>2, <2>1, MinimumIs
<1> QED
  BY <1>1, <1>2

\* All buffers but the last are full, and the last has the rest.
LEMMA ShareIs ==
  ASSUME BUFSIZE \in Nat \ {0}, Layout, NEW k \in 1 .. Len(stringbufs)
  PROVE  /\ (k - 1) * BUFSIZE \in 0 .. totallen /\ Share(k) \in 1 .. BUFSIZE
         /\ (k - 1) * BUFSIZE + Share(k) =
              IF k = Len(stringbufs) THEN totallen ELSE k * BUFSIZE
         /\ (k - 1) * BUFSIZE + Share(k) <= totallen
<1>1. PICK a \in Int, b \in Int : a = (k - 1) * BUFSIZE /\ b = k * BUFSIZE
  <2>1. k - 1 \in Int /\ k \in Int
    OBVIOUS
  <2> QED
    BY <2>1, MorePages
<1>2. b = a + BUFSIZE
  <2>1. k - 1 \in Int /\ (k - 1) + 1 = k
    OBVIOUS
  <2>2. ((k - 1) + 1) * BUFSIZE = (k - 1) * BUFSIZE + BUFSIZE
    BY <2>1, MorePages
  <2> QED
    BY <1>1, <2>1, <2>2
<1>3. /\ totallen \in Nat /\ a < totallen /\ Len(stringbufs) \in Nat
      /\ k = Len(stringbufs) => totallen <= b
      /\ k # Len(stringbufs) => b < totallen
  <2>1. /\ Len(stringbufs) \in Nat /\ totallen \in Nat
        /\ totallen <= Len(stringbufs) * BUFSIZE
        /\ \A i \in 1 .. Len(stringbufs) : (i - 1) * BUFSIZE < totallen
    BY PagesFilled
  <2>2. ASSUME k # Len(stringbufs)
        PROVE  b < totallen
    <3>1. k + 1 \in 1 .. Len(stringbufs) /\ (k + 1) - 1 = k
      BY <2>1, <2>2
    <3>2. ((k + 1) - 1) * BUFSIZE < totallen
      BY <2>1, <3>1
    <3> QED
      BY <1>1, <3>1, <3>2
  <2> QED
    BY <1>1, <2>1, <2>2
<1>4. a >= 0
  <2>1. PICK d \in Nat : d = k - 1
    OBVIOUS
  <2>2. d * BUFSIZE >= 0
    OBVIOUS
  <2> QED
    BY <1>1, <2>1, <2>2
<1>5. Share(k) = IF BUFSIZE <= totallen - a THEN BUFSIZE ELSE totallen - a
  <2>1. Share(k) = Min({BUFSIZE, totallen - a})
    BY <1>1 DEF Share, Copied
  <2>2. BUFSIZE \in Int /\ totallen - a \in Int
    BY <1>3
  <2> QED
    BY <2>1, <2>2, MinOfTwo
<1> QED
  BY <1>1, <1>2, <1>3, <1>4, <1>5

\* The text from a buffer on is what is in the buffer, and the text from the
\* next one on; after the last there is none.
LEMMA PieceOfText ==
  ASSUME BUFSIZE \in Nat \ {0}, Layout, Holds
  PROVE  /\ \A k \in 1 .. Len(stringbufs) :
              Suffix(k) = [i \in 1 .. Share(k) |-> stringbufs[k][i - 1]] \o Suffix(k + 1)
         /\ Suffix(Len(stringbufs) + 1) = <<>>
         /\ Suffix(1) = text
<1>1. /\ Len(stringbufs) \in Nat /\ totallen \in Nat
      /\ totallen <= Len(stringbufs) * BUFSIZE
  BY PagesFilled
<1>2. text \in Seq(Chars) /\ Len(text) = totallen
  BY DEF Holds
<1>3. ASSUME NEW k \in 1 .. Len(stringbufs)
      PROVE  Suffix(k) = [i \in 1 .. Share(k) |-> stringbufs[k][i - 1]] \o Suffix(k + 1)
  <2>1. PICK a, b, c : a = (k - 1) * BUFSIZE /\ b = k * BUFSIZE /\ c = Share(k)
    OBVIOUS
  <2>2. /\ a \in 0 .. totallen /\ c \in 1 .. BUFSIZE /\ a + c <= totallen
        /\ a + c = IF k = Len(stringbufs) THEN totallen ELSE b
    BY <2>1, ShareIs
  <2>3. ASSUME NEW i \in 1 .. c
        PROVE  stringbufs[k][i - 1] = text[a + i]
    <3>1. k - 1 \in Nat /\ i - 1 \in 0 .. BUFSIZE - 1
      BY <2>2
    <3>2. ((k - 1) * BUFSIZE + (i - 1)) \div BUFSIZE = k - 1
          /\ ((k - 1) * BUFSIZE + (i - 1)) % BUFSIZE = i - 1
      BY <3>1, PlaceOf
    <3>3. PICK j \in 0 .. totallen - 1 : j = a + (i - 1)
      BY <1>1, <2>2
    <3>4. j \div BUFSIZE = k - 1 /\ j % BUFSIZE = i - 1
      BY <2>1, <3>2, <3>3
    <3>5. InBuf(j) = text[j + 1]
      BY DEF Holds
    <3>6. InBuf(j) = stringbufs[k][i - 1]
      BY <3>4 DEF InBuf
    <3>7. j + 1 = a + i
      BY <2>2, <3>3
    <3> QED
      BY <3>5, <3>6, <3>7
  <2>4. [i \in 1 .. c |-> stringbufs[k][i - 1]] = SubSeq(text, a + 1, a + c)
    <3>1. SubSeq(text, a + 1, a + c) = [i \in 1 .. c |-> text[a + i]]
      <4>1. (a + c) - (a + 1) + 1 = c
        BY <2>2
      <4>2. SubSeq(text, a + 1, a + c) = [i \in 1 .. (a + c) - (a + 1) + 1 |-> text[i + (a + 1) - 1]]
        BY <1>2, <2>2
      <4>3. \A i \in 1 .. c : i + (a + 1) - 1 = a + i
        BY <2>2
      <4> QED
        BY <4>1, <4>2, <4>3
    <3> QED
      BY <2>3, <3>1
  <2>5. Suffix(k + 1) = SubSeq(text, a + c + 1, totallen)
    <3>1. (k + 1) - 1 = k
      OBVIOUS
    <3>2. CASE k # Len(stringbufs)
      BY <2>1, <2>2, <3>1, <3>2 DEF Suffix
    <3>3. CASE k = Len(stringbufs)
      <4>1. Suffix(k + 1) = SubSeq(text, b + 1, totallen) /\ b \in Int /\ b >= totallen
        BY <1>1, <2>1, <3>1, <3>3, MorePages DEF Suffix
      <4>2. SubSeq(text, b + 1, totallen) = <<>> /\ SubSeq(text, totallen + 1, totallen) = <<>>
        BY <1>1, <1>2, <4>1
      <4> QED
        BY <2>2, <3>3, <4>1, <4>2
    <3> QED
      BY <3>2, <3>3
  <2>6. SubSeq(text, a + 1, totallen) =
          SubSeq(text, a + 1, a + c) \o SubSeq(text, a + c + 1, totallen)
    BY <1>1, <1>2, <2>2
  <2> QED
    BY <2>1, <2>4, <2>5, <2>6 DEF Suffix
<1>4. Suffix(Len(stringbufs) + 1) = <<>>
  <2>1. PICK b \in Int : b = Len(stringbufs) * BUFSIZE
    BY <1>1, MorePages
  <2>2. Suffix(Len(stringbufs) + 1) = SubSeq(text, b + 1, totallen)
    <3>1. (Len(stringbufs) + 1) - 1 = Len(stringbufs)
      BY <1>1
    <3> QED
      BY <2>1, <3>1 DEF Suffix
  <2> QED
    BY <1>1, <1>2, <2>1, <2>2
<1>5. Suffix(1) = text
  <2>1. (1 - 1) * BUFSIZE + 1 = 1
    OBVIOUS
  <2> QED
    BY <1>1, <1>2, <2>1 DEF Suffix
<1> QED
  BY <1>3, <1>4, <1>5

\* What is in a buffer is a sequence of bytes, as far as a place in it goes.
LEMMA PieceType ==
  ASSUME Layout, NEW k \in 1 .. Len(stringbufs), NEW c \in Int, c <= BUFSIZE,
         BUFSIZE \in Nat \ {0}
  PROVE  [i \in 1 .. c |-> stringbufs[k][i - 1]] \in Seq(Bytes)
<1>1. stringbufs[k] \in [0 .. BUFSIZE - 1 -> Bytes]
  BY DEF Layout
<1>2. \A i \in 1 .. c : stringbufs[k][i - 1] \in Bytes
  BY <1>1
<1>3. CASE c >= 0
  <2>1. c \in Nat
    BY <1>3
  <2> QED
    BY <1>2, <2>1
<1>4. CASE ~ (c >= 0)
  <2>1. 1 .. c = 1 .. 0
    BY <1>4
  <2>2. [i \in 1 .. c |-> stringbufs[k][i - 1]] = [i \in 1 .. 0 |-> stringbufs[k][i - 1]]
    BY <2>1
  <2> QED
    BY <2>2
<1> QED
  BY <1>3, <1>4

\* ms_assemble puts the text together.
LEMMA Assembled ==
  ASSUME BUFSIZE \in Nat \ {0}, Layout, Holds
  PROVE  ms_assemble = text
<1> DEFINE n == Len(stringbufs)
           P == 0 .. totallen
           G(f) == [itr \in 1 .. n + 1 |-> [pos \in P |->
                     IF itr > n THEN <<>>
                     ELSE [i \in 1 .. Copied(pos) |-> stringbufs[itr][i - 1]]
                            \o f[itr + 1][pos + Copied(pos)]]]
           from == CHOOSE f : f = G(f)
<1>1. n \in Nat /\ totallen \in Nat
  BY PagesFilled
<1>2. ASSUME NEW pos \in P
      PROVE  /\ Copied(pos) \in Int /\ Copied(pos) <= BUFSIZE
             /\ pos + Copied(pos) \in P
  <2>1. totallen - pos \in Int /\ BUFSIZE \in Int
    BY <1>1
  <2>2. Copied(pos) = IF BUFSIZE <= totallen - pos THEN BUFSIZE ELSE totallen - pos
    BY <2>1, MinOfTwo DEF Copied
  <2> QED
    BY <1>1, <2>2
<1>3. \E f : f = G(f)
  <2>1. PICK z, piece, next :
          /\ z = [pos \in P |-> <<>>]
          /\ piece = [k \in 1 .. n |-> [pos \in P |->
                        [i \in 1 .. Copied(pos) |-> stringbufs[k][i - 1]]]]
          /\ next = [k \in 1 .. n |-> [pos \in P |-> pos + Copied(pos)]]
    OBVIOUS
  <2>2. Paged(n, P, Bytes, z, piece, next)
    <3>1. z \in [P -> Seq(Bytes)]
      BY <2>1
    <3>2. \A k \in 1 .. n : \A pos \in P :
            [i \in 1 .. Copied(pos) |-> stringbufs[k][i - 1]] \in Seq(Bytes)
      BY <1>2, PieceType
    <3>3. piece \in [1 .. n -> [P -> Seq(Bytes)]]
      BY <2>1, <3>2
    <3>4. next \in [1 .. n -> [P -> P]]
      BY <1>2, <2>1
    <3> QED
      BY <1>1, <3>1, <3>3, <3>4 DEF Paged
  <2>3. PICK g : Joined(1, n, P, Bytes, z, {}, piece, next, g)
    BY <2>2, PagesRecursion
  <2>4. /\ g \in [1 .. n + 1 -> [P -> Seq(Bytes)]] /\ g[n + 1] = z
        /\ \A k \in 1 .. n : \A p \in P : g[k][p] = piece[k][p] \o g[k + 1][next[k][p]]
    BY <2>3 DEF Joined
  <2>5. ASSUME NEW k \in 1 .. n + 1, NEW p \in P
        PROVE  g[k][p] = IF k > n THEN <<>>
                         ELSE [i \in 1 .. Copied(p) |-> stringbufs[k][i - 1]]
                                \o g[k + 1][p + Copied(p)]
    <3>1. CASE k > n
      <4>1. k = n + 1
        BY <1>1, <3>1
      <4> QED
        BY <2>1, <2>4, <3>1, <4>1
    <3>2. CASE ~ (k > n)
      <4>1. k \in 1 .. n
        BY <1>1, <3>2
      <4>2. /\ piece[k][p] = [i \in 1 .. Copied(p) |-> stringbufs[k][i - 1]]
            /\ next[k][p] = p + Copied(p)
        BY <2>1, <4>1
      <4>3. g[k][p] = piece[k][p] \o g[k + 1][next[k][p]]
        BY <2>4, <4>1
      <4> QED
        BY <3>2, <4>2, <4>3
    <3> QED
      BY <3>1, <3>2
  <2>6. g = [k \in 1 .. n + 1 |-> [p \in P |-> g[k][p]]]
    <3>1. ASSUME NEW k \in 1 .. n + 1
          PROVE  g[k] = [p \in P |-> g[k][p]]
      <4>1. g[k] \in [P -> Seq(Bytes)]
        BY <2>4
      <4> QED
        BY <4>1
    <3> QED
      BY <2>4, <3>1
  <2>7. g = G(g)
    BY <2>5, <2>6
  <2> QED
    BY <2>7
<1>4. from = G(from)
  <2> HIDE DEF G
  <2> QED
    BY <1>3
<1>5. ms_assemble = from[1][0]
  BY DEF ms_assemble
<1> HIDE DEF from
<1>6. ASSUME NEW k \in 1 .. n + 1, NEW p \in P
      PROVE  from[k][p] = IF k > n THEN <<>>
                          ELSE [i \in 1 .. Copied(p) |-> stringbufs[k][i - 1]]
                                 \o from[k + 1][p + Copied(p)]
  <2>1. PICK h : h = G(from)
    OBVIOUS
  <2>2. h[k] = [pos \in P |-> IF k > n THEN <<>>
                              ELSE [i \in 1 .. Copied(pos) |-> stringbufs[k][i - 1]]
                                     \o from[k + 1][pos + Copied(pos)]]
    BY <2>1
  <2>3. h[k][p] = IF k > n THEN <<>>
                  ELSE [i \in 1 .. Copied(p) |-> stringbufs[k][i - 1]]
                         \o from[k + 1][p + Copied(p)]
    BY <2>2
  <2> QED
    BY <1>4, <2>1, <2>3
<1> HIDE DEF G
<1> DEFINE T == {k \in 1 .. n + 1 : \A p \in P : p = (k - 1) * BUFSIZE \/ k = n + 1
                                                  => from[k][p] = Suffix(k)}
<1>7. n + 1 \in T
  <2>1. n + 1 \in 1 .. n + 1 /\ n + 1 > n
    BY <1>1
  <2>2. Suffix(n + 1) = <<>>
    BY PieceOfText
  <2> QED
    BY <1>6, <2>1, <2>2
<1>8. ASSUME NEW k \in 1 .. n, k + 1 \in T
      PROVE  k \in T
  <2>1. k \in 1 .. n + 1 /\ ~ (k > n) /\ k + 1 \in 1 .. n + 1
    BY <1>1
  <2>2. SUFFICES ASSUME NEW p \in P, p = (k - 1) * BUFSIZE
                 PROVE  from[k][p] = Suffix(k)
    BY <1>1, <2>1
  <2>3. from[k][p] = [i \in 1 .. Copied(p) |-> stringbufs[k][i - 1]]
                       \o from[k + 1][p + Copied(p)]
    BY <1>6, <2>1
  <2>4. Copied(p) = Share(k)
    BY <2>2 DEF Share
  <2>5. p + Copied(p) = (k + 1 - 1) * BUFSIZE \/ k + 1 = n + 1
    <3>1. p + Copied(p) = IF k = n THEN totallen ELSE k * BUFSIZE
      BY <2>2, <2>4, ShareIs
    <3>2. k + 1 - 1 = k
      OBVIOUS
    <3> QED
      BY <3>1, <3>2
  <2>6. p + Copied(p) \in P
    BY <1>2
  <2>7. from[k + 1][p + Copied(p)] = Suffix(k + 1)
    BY <1>8, <2>5, <2>6
  <2>8. Suffix(k) = [i \in 1 .. Share(k) |-> stringbufs[k][i - 1]] \o Suffix(k + 1)
    BY PieceOfText
  <2> QED
    BY <2>3, <2>4, <2>7, <2>8
<1>9. 1 \in T
  <2>1. 1 \in 1 .. n + 1
    BY <1>1
  <2> HIDE DEF T
  <2> QED
    BY <1>1, <1>7, <1>8, <2>1, Backwards
<1>10. from[1][0] = Suffix(1)
  <2>1. 0 = (1 - 1) * BUFSIZE /\ 0 \in P
    BY <1>1
  <2> QED
    BY <1>9, <2>1
<1> QED
  BY <1>5, <1>10, PieceOfText

\* What the length leaves to be hashed at buffer k.
Left(k) == IF k = Len(stringbufs) + 1 THEN 0 ELSE totallen - (k - 1) * BUFSIZE

\* ms_hash passes the text on, and reads no buffer that is not there.
LEMMA HashedAll ==
  ASSUME BUFSIZE \in Nat \ {0}, Layout, Holds
  PROVE  Hashed = text
<1> DEFINE n == Len(stringbufs)
           P == 0 .. totallen
           size(len) == Min({len, BUFSIZE})
           G(f) == [itr \in 1 .. n + 1 |-> [len \in P |->
                     IF len = 0 THEN <<>>
                     ELSE IF itr > n THEN <<Garbage>>
                     ELSE [i \in 1 .. size(len) |-> stringbufs[itr][i - 1]]
                            \o f[itr + 1][len - size(len)]]]
           from == CHOOSE f : f = G(f)
<1>1. n \in Nat /\ totallen \in Nat
  BY PagesFilled
<1>2. ASSUME NEW len \in P
      PROVE  /\ size(len) = IF len <= BUFSIZE THEN len ELSE BUFSIZE
             /\ size(len) \in Int /\ size(len) <= BUFSIZE
             /\ len - size(len) \in P
  <2>1. size(len) = IF len <= BUFSIZE THEN len ELSE BUFSIZE
    BY <1>1, MinOfTwo
  <2> HIDE DEF size
  <2> QED
    BY <1>1, <2>1
<1>3. Hashed = from[1][totallen]
  BY DEF Hashed
<1> HIDE DEF size
<1>4. \E f : f = G(f)
  <2>1. PICK z, piece, next :
          /\ z = [len \in P |-> IF len = 0 THEN <<>> ELSE <<Garbage>>]
          /\ piece = [k \in 1 .. n |-> [len \in P |->
                        [i \in 1 .. size(len) |-> stringbufs[k][i - 1]]]]
          /\ next = [k \in 1 .. n |-> [len \in P |-> len - size(len)]]
    OBVIOUS
  <2>2. Paged(n, P, Bytes, z, piece, next)
    <3>1. z \in [P -> Seq(Bytes)]
      <4>1. <<>> \in Seq(Bytes) /\ <<Garbage>> \in Seq(Bytes)
        BY DEF Bytes
      <4> QED
        BY <2>1, <4>1
    <3>2. \A k \in 1 .. n : \A len \in P :
            [i \in 1 .. size(len) |-> stringbufs[k][i - 1]] \in Seq(Bytes)
      BY <1>2, PieceType
    <3>3. piece \in [1 .. n -> [P -> Seq(Bytes)]]
      BY <2>1, <3>2
    <3>4. next \in [1 .. n -> [P -> P]]
      BY <1>2, <2>1
    <3> QED
      BY <1>1, <3>1, <3>3, <3>4 DEF Paged
  <2>3. PICK g : Joined(1, n, P, Bytes, z, {0}, piece, next, g)
    BY <2>2, PagesRecursion
  <2>4. /\ g \in [1 .. n + 1 -> [P -> Seq(Bytes)]] /\ g[n + 1] = z
        /\ \A k \in 1 .. n : \A p \in P :
             g[k][p] = IF p \in {0} THEN <<>> ELSE piece[k][p] \o g[k + 1][next[k][p]]
    BY <2>3 DEF Joined
  <2>5. ASSUME NEW k \in 1 .. n + 1, NEW p \in P
        PROVE  g[k][p] = IF p = 0 THEN <<>>
                         ELSE IF k > n THEN <<Garbage>>
                         ELSE [i \in 1 .. size(p) |-> stringbufs[k][i - 1]]
                                \o g[k + 1][p - size(p)]
    <3>1. CASE k > n
      <4>1. k = n + 1
        BY <1>1, <3>1
      <4> QED
        BY <2>1, <2>4, <3>1, <4>1
    <3>2. CASE ~ (k > n)
      <4>1. k \in 1 .. n
        BY <1>1, <3>2
      <4>2. /\ piece[k][p] = [i \in 1 .. size(p) |-> stringbufs[k][i - 1]]
            /\ next[k][p] = p - size(p)
        BY <2>1, <4>1
      <4>3. g[k][p] = IF p \in {0} THEN <<>> ELSE piece[k][p] \o g[k + 1][next[k][p]]
        BY <2>4, <4>1
      <4> QED
        BY <3>2, <4>2, <4>3
    <3> QED
      BY <3>1, <3>2
  <2>6. g = [k \in 1 .. n + 1 |-> [p \in P |-> g[k][p]]]
    <3>1. ASSUME NEW k \in 1 .. n + 1
          PROVE  g[k] = [p \in P |-> g[k][p]]
      <4>1. g[k] \in [P -> Seq(Bytes)]
        BY <2>4
      <4> QED
        BY <4>1
    <3> QED
      BY <2>4, <3>1
  <2>7. g = G(g)
    BY <2>5, <2>6
  <2> QED
    BY <2>7
<1>5. from = G(from)
  <2> HIDE DEF G
  <2> QED
    BY <1>4
<1> HIDE DEF from
<1>6. ASSUME NEW k \in 1 .. n + 1, NEW p \in P
      PROVE  from[k][p] = IF p = 0 THEN <<>>
                          ELSE IF k > n THEN <<Garbage>>
                          ELSE [i \in 1 .. size(p) |-> stringbufs[k][i - 1]]
                                 \o from[k + 1][p - size(p)]
  <2>1. PICK h : h = G(from)
    OBVIOUS
  <2>2. h[k] = [len \in P |-> IF len = 0 THEN <<>>
                              ELSE IF k > n THEN <<Garbage>>
                              ELSE [i \in 1 .. size(len) |-> stringbufs[k][i - 1]]
                                     \o from[k + 1][len - size(len)]]
    BY <2>1
  <2>3. h[k][p] = IF p = 0 THEN <<>>
                  ELSE IF k > n THEN <<Garbage>>
                  ELSE [i \in 1 .. size(p) |-> stringbufs[k][i - 1]]
                         \o from[k + 1][p - size(p)]
    BY <2>2
  <2> QED
    BY <1>5, <2>1, <2>3
<1> HIDE DEF G
<1> DEFINE T == {k \in 1 .. n + 1 : Left(k) \in P /\ from[k][Left(k)] = Suffix(k)}
<1>7. n + 1 \in T
  <2>1. n + 1 \in 1 .. n + 1 /\ 0 \in P
    BY <1>1
  <2>2. Suffix(n + 1) = <<>>
    BY PieceOfText
  <2>3. Left(n + 1) = 0
    BY DEF Left
  <2> QED
    BY <1>6, <2>1, <2>2, <2>3
<1>8. ASSUME NEW k \in 1 .. n, k + 1 \in T
      PROVE  k \in T
  <2>1. k \in 1 .. n + 1 /\ ~ (k > n) /\ k # n + 1
    BY <1>1
  <2>2. PICK a, c, p : a = (k - 1) * BUFSIZE /\ c = Share(k) /\ p = Left(k)
    OBVIOUS
  <2>3. /\ a \in 0 .. totallen /\ c \in 1 .. BUFSIZE /\ a + c <= totallen
        /\ a + c = IF k = n THEN totallen ELSE k * BUFSIZE
    BY <2>2, ShareIs
  <2>4. p = totallen - a
    BY <2>1, <2>2 DEF Left
  <2>5. p \in P /\ p # 0
    BY <1>1, <2>3, <2>4
  <2>6. size(p) = c
    <3>1. c = IF BUFSIZE <= totallen - a THEN BUFSIZE ELSE totallen - a
      BY <1>1, <2>2, <2>3, MinOfTwo DEF Share, Copied
    <3>2. size(p) = IF p <= BUFSIZE THEN p ELSE BUFSIZE
      BY <1>2, <2>5
    <3> QED
      BY <1>1, <2>3, <2>4, <3>1, <3>2
  <2>7. p - c = Left(k + 1)
    <3>1. CASE k = n
      BY <1>1, <2>3, <2>4, <3>1 DEF Left
    <3>2. CASE k # n
      <4>1. k + 1 # n + 1 /\ (k + 1) - 1 = k
        BY <1>1, <3>2
      <4> QED
        BY <1>1, <2>3, <2>4, <3>2, <4>1 DEF Left
    <3> QED
      BY <3>1, <3>2
  <2>8. from[k][p] = [i \in 1 .. c |-> stringbufs[k][i - 1]] \o from[k + 1][p - c]
    BY <1>6, <2>1, <2>5, <2>6
  <2>9. from[k + 1][p - c] = Suffix(k + 1)
    BY <1>8, <2>7
  <2>10. Suffix(k) = [i \in 1 .. c |-> stringbufs[k][i - 1]] \o Suffix(k + 1)
    BY <2>2, PieceOfText
  <2> QED
    BY <2>1, <2>2, <2>5, <2>8, <2>9, <2>10
<1>9. 1 \in T
  <2>1. 1 \in 1 .. n + 1
    BY <1>1
  <2> HIDE DEF T
  <2> QED
    BY <1>1, <1>7, <1>8, <2>1, Backwards
<1>10. Left(1) = totallen
  <2>1. CASE n = 0
    <3>1. totallen <= n * BUFSIZE
      BY PagesFilled
    <3> QED
      BY <1>1, <2>1, <3>1 DEF Left
  <2>2. CASE n # 0
    <3>1. 1 # n + 1 /\ (1 - 1) * BUFSIZE = 0
      BY <1>1, <2>2
    <3> QED
      BY <1>1, <3>1 DEF Left
  <2> QED
    BY <2>1, <2>2
<1> QED
  BY <1>3, <1>9, <1>10, PieceOfText

\* The places of a comparison that ends in the last buffer are those of the
\* characters it is asked for.
LEMMA ComparedAre ==
  ASSUME BUFSIZE \in Nat \ {0}, Layout, Holds, NEW n \in 1 .. totallen,
         n > (Len(stringbufs) - 1) * BUFSIZE
  PROVE  /\ ComparedWith(n) = 0 .. n - 1
         /\ \A i \in 0 .. n - 1 : Facing(n, i) = text[i + 1]
<1>1. PICK k \in Nat, q \in Nat : k = Len(stringbufs) /\ q = n \div BUFSIZE
  <2>1. Len(stringbufs) \in Nat /\ n \in Nat
    BY DEF Layout
  <2>2. n \div BUFSIZE \in Nat
    BY <2>1, PageType
  <2> QED
    BY <2>1, <2>2
<1>2. totallen \in Nat /\ totallen <= k * BUFSIZE
  BY <1>1, PagesFilled
<1>3. n < q * BUFSIZE + BUFSIZE /\ q * BUFSIZE \in Int
  <2>1. n \in Nat
    BY <1>2
  <2> QED
    BY <1>1, <2>1, PagesBefore, MorePages
<1>4. q + 1 >= k
  <2>1. SUFFICES ASSUME q + 1 < k PROVE FALSE
    BY <1>1
  <2>2. q < k - 1 /\ k - 1 \in Int
    BY <2>1
  <2>3. (k - 1) * BUFSIZE \in Int /\ q * BUFSIZE + BUFSIZE <= (k - 1) * BUFSIZE
    BY <2>2, MorePages
  <2>4. n > (k - 1) * BUFSIZE
    BY <1>1
  <2> QED
    BY <1>2, <1>3, <2>3, <2>4
<1>5. Min({n, k * BUFSIZE}) = n
  <2>1. n \in Int /\ k * BUFSIZE \in Int /\ n <= k * BUFSIZE
    BY <1>2, MorePages
  <2> QED
    BY <2>1, MinOfTwo
<1>6. ComparedWith(n) = 0 .. n - 1
  BY <1>1, <1>4, <1>5 DEF ComparedWith
<1>7. ASSUME NEW i \in 0 .. n - 1
      PROVE  Facing(n, i) = text[i + 1]
  <2>1. i < n /\ i \in 0 .. totallen - 1
    BY <1>2
  <2>2. InBuf(i) = text[i + 1]
    BY <2>1 DEF Holds
  <2> QED
    BY <2>1, <2>2 DEF Facing
<1> QED
  BY <1>6, <1>7

\* Such a comparison finds the first character that differs.
LEMMA ComparedAll ==
  ASSUME BUFSIZE \in Nat \ {0}, Layout, Holds, NEW n \in 1 .. totallen,
         NEW strb \in [1 .. n -> Chars], n > (Len(stringbufs) - 1) * BUFSIZE
  PROVE  LET differ == {i \in 1 .. n : text[i] # strb[i]} IN
         ms_strncmp(strb, n)
           = IF differ = {} THEN 0 ELSE Sign(text[Min(differ)] - strb[Min(differ)])
<1>1. PICK D, E : /\ D = {i \in 1 .. n : text[i] # strb[i]}
                  /\ E = {i \in ComparedWith(n) : Facing(n, i) # strb[i + 1]}
  OBVIOUS
<1>2. /\ ComparedWith(n) = 0 .. n - 1
      /\ \A i \in 0 .. n - 1 : Facing(n, i) = text[i + 1]
  BY ComparedAre
<1>3. E = {i \in 0 .. n - 1 : text[i + 1] # strb[i + 1]}
  BY <1>1, <1>2
<1>4. n \in Nat /\ D \subseteq 1 .. n
  BY <1>1 DEF Layout
<1>5. ms_strncmp(strb, n) = IF E = {} THEN 0 ELSE Sign(Facing(n, Min(E)) - strb[Min(E) + 1])
  BY <1>1 DEF ms_strncmp
<1>6. CASE D = {}
  <2>1. E = {}
    <3>1. SUFFICES ASSUME NEW i \in E PROVE FALSE
      OBVIOUS
    <3>2. i + 1 \in D
      BY <1>1, <1>3, <1>4
    <3> QED
      BY <1>6, <3>2
  <2> QED
    BY <1>1, <1>5, <1>6, <2>1
<1>7. CASE D # {}
  <2>1. PICK m \in D : \A i \in D : m <= i
    <3>1. D \subseteq Nat
      BY <1>4
    <3> QED
      BY <1>7, <3>1, NatMinimum
  <2>2. Min(D) = m
    <3>1. D \subseteq Int
      BY <1>4
    <3> QED
      BY <2>1, <3>1, MinimumIs
  <2>3. m - 1 \in E /\ \A i \in E : m - 1 <= i
    <3>1. m \in 1 .. n /\ text[m] # strb[m]
      BY <1>1
    <3>2. m - 1 \in 0 .. n - 1 /\ (m - 1) + 1 = m
      BY <1>4, <3>1
    <3>3. m - 1 \in E
      BY <1>3, <3>1, <3>2
    <3>4. ASSUME NEW i \in E
          PROVE  m - 1 <= i
      <4>1. i \in 0 .. n - 1 /\ i + 1 \in D
        BY <1>1, <1>3, <1>4
      <4>2. m <= i + 1
        BY <2>1, <4>1
      <4> QED
        BY <3>1, <4>1, <4>2
    <3> QED
      BY <3>3, <3>4
  <2>4. Min(E) = m - 1
    <3>1. E \subseteq Int
      BY <1>3
    <3> QED
      BY <2>3, <3>1, MinimumIs
  <2>5. Facing(n, m - 1) = text[m] /\ (m - 1) + 1 = m /\ E # {}
    <3>1. m - 1 \in 0 .. n - 1 /\ (m - 1) + 1 = m
      BY <1>4, <2>1
    <3> QED
      BY <1>2, <2>3, <3>1
  <2>6. ms_strncmp(strb, n) = Sign(text[m] - strb[m])
    BY <1>5, <2>4, <2>5
  <2> QED
    BY <1>1, <1>7, <2>2, <2>6
<1> QED
  BY <1>6, <1>7

\* A string put together, hashed buffer by buffer, or compared up to a length
\* within its last buffer, is the text that was written, for buffers of every
\* size and texts of every length.
THEOREM TextInOnePiece ==
  ASSUME BUFSIZE \in Nat \ {0}
  PROVE  MsSpec => []TextAsOnePiece
<1>1. MsInit => MsInv
  BY InitMs
<1>2. MsInv /\ [MsNext]_msvars => MsInv'
  BY StepMs
<1>3. MsInv => TextAsOnePiece
  <2>1. SUFFICES ASSUME MsInv PROVE TextAsOnePiece
    OBVIOUS
  <2>2. Layout /\ Holds
    BY <2>1 DEF MsInv
  <2>3. ms_assemble = text /\ Hashed = text
    BY <2>2, Assembled, HashedAll
  <2>4. ASSUME NEW n \in 1 .. totallen, NEW strb \in [1 .. n -> Chars],
               n > (Len(stringbufs) - 1) * BUFSIZE
        PROVE  LET differ == {i \in 1 .. n : text[i] # strb[i]} IN
               ms_strncmp(strb, n)
                 = IF differ = {} THEN 0 ELSE Sign(text[Min(differ)] - strb[Min(differ)])
    BY <2>2, <2>4, ComparedAll
  <2> QED
    BY <2>3, <2>4 DEF TextAsOnePiece
<1> QED
  BY <1>1, <1>2, <1>3, PTL DEF MsSpec

=============================================================================
