------------------------------- MODULE AvlProofs -------------------------------
(***************************************************************************)
(* The tree of avl.c, proved for every set of keys, every number of nodes  *)
(* and every order of insertions: a lookup finds what was bound, the nodes *)
(* stay in order, heights are those of the tree, and a tree in which no    *)
(* key was bound twice is balanced, which is why no rotation of it ever    *)
(* lacks a child.                                                          *)
(*                                                                         *)
(* A tree is described by a function S that gives each node the set of the *)
(* nodes below it and itself.  What makes it a tree is said node by node,  *)
(* so that a rotation is two nodes that change and three subtrees that     *)
(* stay what they are.                                                     *)
(***************************************************************************)
EXTENDS Avl, FiniteSetTheorems, WellFoundedInduction, SequenceTheorems, TLAPS

NodeRec == [key : Nat, value : Nat, left : Nat, right : Nat, height : Nat]

Memory == Seq(NodeRec)

Sides(side, other) ==
  \/ side = "left" /\ other = "right"
  \/ side = "right" /\ other = "left"

\* A key that lies on that side of another.
Before(side, x, y) == IF side = "left" THEN x <= y ELSE y <= x

Above(a, b) == IF a <= b THEN 1 + b ELSE 1 + a

\* Node n with what is below it on either side.
Linked(m, S, n, side, other) ==
  LET c == m[n][side]
      d == m[n][other]
  IN /\ c \in 0 .. Len(m) /\ (c = Null \/ c \in S[c])
     /\ d \in 0 .. Len(m) /\ (d = Null \/ d \in S[d])
     /\ S[n] = {n} \cup S[c] \cup S[d]
     /\ n \notin S[c] /\ n \notin S[d] /\ S[c] \cap S[d] = {}
     /\ \A x \in S[c] : Before(side, m[x].key, m[n].key)
     /\ \A x \in S[d] : Before(other, m[x].key, m[n].key)

Tall(m, n, side, other) ==
  m[n].height = Above(avl_height(m, m[n][side]), avl_height(m, m[n][other]))

Even(m, n, side, other) ==
  LET a == avl_height(m, m[n][side])
      b == avl_height(m, m[n][other])
  IN a <= b + 1 /\ b <= a + 1

\* Memory where a node's field was written.
Put(m, n, side, c) == [m EXCEPT ![n][side] = c]

Family == [Nat -> SUBSET Nat]

\* The nodes below n make a tree, a balanced one if B.
Tree(m, S, n, B) ==
  /\ S[Null] = {}
  /\ n \in 0 .. Len(m) /\ (n = Null \/ n \in S[n])
  /\ \A x \in S[n] :
       /\ x \in 1 .. Len(m)
       /\ Linked(m, S, x, "left", "right") /\ Tall(m, x, "left", "right")
       /\ B => Even(m, x, "left", "right")
       /\ \A y \in S[x] : S[y] \subseteq S[x]

\* Nothing was written below n.
Framed(m, S, n, q, R) ==
  /\ m \in Memory /\ q \in Memory /\ Len(m) <= Len(q) /\ R[Null] = {}
  /\ \A x \in S[n] : q[x] = m[x] /\ R[x] = S[x]

\* A key that lies on that side of another, and is not equal to it.
Strictly(side, x, y) == IF side = "left" THEN x < y ELSE y < x

\* The subtree in which the key belongs is the higher one, by one.
Leaning(m, t, key) ==
  \E side, other : /\ Sides(side, other) /\ Strictly(side, key, m[t].key)
                  /\ avl_height(m, m[t][side]) = avl_height(m, m[t][other]) + 1

\* Node n can be turned to the other side around its child.
Turnable(m, S, n, B, side, other) ==
  LET c == m[n][side] IN
  /\ m \in Memory /\ S \in Family /\ S[Null] = {} /\ n \in 1 .. Len(m) /\ Sides(side, other)
  /\ c # Null /\ Linked(m, S, n, side, other) /\ Linked(m, S, c, side, other)
  /\ Tree(m, S, m[c][other], B) /\ Tree(m, S, m[c][side], B) /\ Tree(m, S, m[n][other], B)

\* It was: n, which was over c, is below it, and the three trees below them
\* are what they were.
Turned(m, S, n, B, side, other, c, q, R) ==
  LET a == m[c][other]
      b == m[c][side]
      d == m[n][other]
  IN /\ q \in Memory /\ Len(q) = Len(m)
     /\ q[n][side] = a /\ q[n][other] = d /\ q[c][side] = b /\ q[c][other] = n
     /\ q[n].height = Above(avl_height(m, a), avl_height(m, d))
     /\ q[c].height = Above(avl_height(m, b), q[n].height)
     /\ avl_height(q, a) = avl_height(m, a) /\ avl_height(q, b) = avl_height(m, b)
     /\ avl_height(q, d) = avl_height(m, d)
     /\ \A x \in 1 .. Len(m) : q[x].key = m[x].key /\ q[x].value = m[x].value
     /\ \A x \in 1 .. Len(m) : x # n /\ x # c => q[x] = m[x]
     /\ R \in Family /\ R[c] = S[n] /\ R[Null] = {}
     /\ \A x \in Nat : x # n /\ x # c => R[x] = S[x]
     /\ Tree(q, R, a, B) /\ Tree(q, R, b, B) /\ Tree(q, R, d, B)
     /\ Linked(q, R, n, side, other) /\ Tall(q, n, side, other)
     /\ Linked(q, R, c, side, other) /\ Tall(q, c, side, other)

\* Node n's child can be turned, and then n around what is above it.
TwiceTurnable(m, S, n, B, side, other) ==
  LET c == m[n][side] IN
  /\ m \in Memory /\ S \in Family /\ S[Null] = {} /\ n \in 1 .. Len(m) /\ Sides(side, other)
  /\ c # Null /\ m[c][other] # Null /\ Linked(m, S, n, side, other)
  /\ Tree(m, S, c, B) /\ Tree(m, S, m[n][other], B)

\* Heights of the three trees with which a turn leaves n balanced.
EvenOnce(m, n, side, other) ==
  LET i == avl_height(m, m[m[n][side]][other])
      j == avl_height(m, m[m[n][side]][side])
      k == avl_height(m, m[n][other])
  IN i <= k + 1 /\ k <= i + 1 /\ j <= Above(i, k) + 1 /\ Above(i, k) <= j + 1

\* Heights of the four trees with which two turns do.
EvenTwice(m, n, side, other) ==
  LET c == m[n][side]
      e == m[c][other]
      i == avl_height(m, m[e][side])
      j == avl_height(m, m[c][side])
      k == avl_height(m, m[e][other])
      l == avl_height(m, m[n][other])
  IN /\ i <= j + 1 /\ j <= i + 1 /\ k <= l + 1 /\ l <= k + 1
     /\ Above(i, j) <= Above(k, l) + 1 /\ Above(k, l) <= Above(i, j) + 1

\* The child was turned, and n linked to e, which is now above it.
InnerTurned(m, S, n, side, other, e, t, R) ==
  LET c == m[n][side] IN
  /\ Len(t) = Len(m) /\ t[n][side] = e /\ R[n] = S[n]
  /\ avl_height(t, t[e][side]) = Above(avl_height(m, m[e][side]), avl_height(m, m[c][side]))
  /\ avl_height(t, t[e][other]) = avl_height(m, m[e][other])
  /\ avl_height(t, t[n][other]) = avl_height(m, m[n][other])
  /\ \A x \in 1 .. Len(m) :
       /\ t[x].key = m[x].key /\ t[x].value = m[x].value
       /\ x \notin S[n] => t[x] = m[x]
  /\ \A x \in Nat : x \notin S[n] => R[x] = S[x]

\* The nodes below n were rearranged under top; no other was written.
Reshaped(m, S, n, B, q, R, top) ==
  /\ q \in Memory /\ Len(q) = Len(m)
  /\ \A x \in 1 .. Len(m) :
       /\ q[x].key = m[x].key /\ q[x].value = m[x].value
       /\ x \notin S[n] => q[x] = m[x]
  /\ R \in Family /\ R[top] = S[n]
  /\ \A x \in Nat : x \notin S[n] => R[x] = S[x]
  /\ top # Null /\ Tree(q, R, top, B)

\* What a rotation or a rebalancing gives that rearranged the nodes below n.
Rearranged(m, S, n, B, r, top, h) ==
  /\ ~ r.crash /\ r.top = top /\ avl_height(r.mem, top) = h
  /\ \E R : Reshaped(m, S, n, B, r.mem, R, top)

-----------------------------------------------------------------------------
(* Nodes and memory.                                                       *)

\* The greater of two heights, and one.
LEMMA AboveIsMax ==
  ASSUME NEW a \in Nat, NEW b \in Nat
  PROVE  1 + Max({a, b}) = Above(a, b) /\ Above(a, b) \in Nat /\ Above(a, b) = Above(b, a)
<1>1. PICK x : x = Max({a, b})
  OBVIOUS
<1>2. \E z \in {a, b} : \A y \in {a, b} : z >= y
  <2>1. CASE a <= b
    BY <2>1
  <2>2. CASE b <= a
    BY <2>2
  <2> QED
    BY <2>1, <2>2
<1>3. x \in {a, b} /\ \A y \in {a, b} : x >= y
  BY <1>1, <1>2 DEF Max
<1> QED
  BY <1>1, <1>3 DEF Above

\* A field that is written.
LEMMA PutLink ==
  ASSUME NEW m \in Memory, NEW n \in 1 .. Len(m), NEW side, NEW other, Sides(side, other),
         NEW c \in Nat, NEW r, r = Put(m, n, side, c)
  PROVE  /\ r \in Memory /\ Len(r) = Len(m)
         /\ r[n][side] = c /\ r[n][other] = m[n][other]
         /\ r[n].key = m[n].key /\ r[n].value = m[n].value /\ r[n].height = m[n].height
         /\ \A x \in 1 .. Len(m) : x # n => r[x] = m[x]
<1>1. PICK o, w : o = m[n] /\ w = [o EXCEPT ![side] = c]
  OBVIOUS
<1>2. o \in NodeRec
  BY <1>1 DEF Memory
<1>3. /\ w \in NodeRec /\ w[side] = c /\ w[other] = o[other]
      /\ w.key = o.key /\ w.value = o.value /\ w.height = o.height
  BY <1>1, <1>2 DEF NodeRec, Sides
<1>4. r = [m EXCEPT ![n] = w]
  BY <1>1 DEF Put
<1> QED
  BY <1>1, <1>3, <1>4 DEF Memory

\* A node's fields.
LEMMA NodeFields ==
  ASSUME NEW m \in Memory, NEW n \in 1 .. Len(m)
  PROVE  /\ m[n].key \in Nat /\ m[n].value \in Nat /\ m[n].height \in Nat
         /\ m[n].left \in Nat /\ m[n].right \in Nat
<1>1. PICK o : o = m[n]
  OBVIOUS
<1>2. o \in NodeRec
  BY <1>1 DEF Memory
<1> QED
  BY <1>1, <1>2 DEF NodeRec

\* A height is a number.
LEMMA HeightType ==
  ASSUME NEW m \in Memory, NEW n \in 0 .. Len(m)
  PROVE  avl_height(m, n) \in Nat /\ (n = Null => avl_height(m, n) = 0)
         /\ (n # Null => avl_height(m, n) = m[n].height)
<1>1. CASE n = Null
  BY <1>1 DEF avl_height, Null
<1>2. CASE n # Null
  <2>1. n \in 1 .. Len(m)
    BY <1>2 DEF Null
  <2> QED
    BY <1>2, <2>1, NodeFields DEF avl_height
<1> QED
  BY <1>1, <1>2

\* r is m with n's height written, n's children being nodes.
Heightens(m, n, side, other, r) ==
  /\ m \in Memory /\ n \in 1 .. Len(m) /\ Sides(side, other)
  /\ m[n][side] \in 0 .. Len(m) /\ m[n][other] \in 0 .. Len(m)
  /\ r = Heighten(m, n)

\* What differs then.
Heightened(m, n, side, other, r) ==
  /\ r \in Memory /\ Len(r) = Len(m)
  /\ r[n][side] = m[n][side] /\ r[n][other] = m[n][other]
  /\ r[n].key = m[n].key /\ r[n].value = m[n].value
  /\ r[n].height = Above(avl_height(m, m[n][side]), avl_height(m, m[n][other]))
  /\ \A x \in 1 .. Len(m) : x # n => r[x] = m[x]

\* What Heighten writes, where the children are nodes.
LEMMA HeightenWrites ==
  ASSUME NEW m, NEW n, NEW side, NEW other, NEW r, Heightens(m, n, side, other, r)
  PROVE  Heightened(m, n, side, other, r)
<1> SUFFICES ASSUME m \in Memory, n \in 1 .. Len(m), Sides(side, other),
                    m[n][side] \in 0 .. Len(m), m[n][other] \in 0 .. Len(m),
                    r = Heighten(m, n)
             PROVE  Heightened(m, n, side, other, r)
  BY DEF Heightens
<1>1. PICK a, b, h : /\ a = avl_height(m, m[n].left) /\ b = avl_height(m, m[n].right)
                     /\ h = 1 + Max({a, b})
  OBVIOUS
<1>2. m[n].left \in 0 .. Len(m) /\ m[n].right \in 0 .. Len(m)
  BY NodeFields DEF Sides
<1>3. a \in Nat /\ b \in Nat
  BY <1>1, <1>2, HeightType
<1>4. h \in Nat /\ h = Above(a, b) /\ h = Above(b, a)
  BY <1>1, <1>3, AboveIsMax
<1>5. PICK o, w : o = m[n] /\ w = [o EXCEPT !.height = h]
  OBVIOUS
<1>6. o \in NodeRec
  BY <1>5 DEF Memory
<1>7. /\ w \in NodeRec /\ w.left = o.left /\ w.right = o.right
      /\ w.key = o.key /\ w.value = o.value /\ w.height = h
  BY <1>4, <1>5, <1>6 DEF NodeRec
<1>8. r = [m EXCEPT ![n] = w]
  BY <1>1, <1>5 DEF Heighten, HeightAbove
<1>9. /\ r \in Memory /\ Len(r) = Len(m) /\ r[n] = w
      /\ \A x \in 1 .. Len(m) : x # n => r[x] = m[x]
  BY <1>7, <1>8 DEF Memory
<1> QED
  BY <1>1, <1>4, <1>5, <1>7, <1>9 DEF Sides, Heightened

-----------------------------------------------------------------------------
(* Trees.                                                                  *)

\* Left and right may be told in either order.
LEMMA EitherOrder ==
  ASSUME NEW m \in Memory, NEW S, NEW n \in 1 .. Len(m), NEW side, NEW other, Sides(side, other)
  PROVE  /\ Linked(m, S, n, side, other) <=> Linked(m, S, n, "left", "right")
         /\ m[n]["left"] \in 0 .. Len(m) /\ m[n]["right"] \in 0 .. Len(m) =>
              /\ Tall(m, n, side, other) <=> Tall(m, n, "left", "right")
              /\ Even(m, n, side, other) <=> Even(m, n, "left", "right")
<1>1. CASE side = "left"
  BY <1>1 DEF Sides
<1>2. CASE side # "left"
  <2>1. side = "right" /\ other = "left"
    BY <1>2 DEF Sides
  <2>2. Linked(m, S, n, "right", "left") <=> Linked(m, S, n, "left", "right")
    BY DEF Linked
  <2>3. ASSUME m[n]["left"] \in 0 .. Len(m), m[n]["right"] \in 0 .. Len(m)
        PROVE  /\ Tall(m, n, "right", "left") <=> Tall(m, n, "left", "right")
               /\ Even(m, n, "right", "left") <=> Even(m, n, "left", "right")
    <3>1. avl_height(m, m[n]["left"]) \in Nat /\ avl_height(m, m[n]["right"]) \in Nat
      BY <2>3, HeightType
    <3> QED
      BY <3>1 DEF Tall, Even, Above
  <2> QED
    BY <2>1, <2>2, <2>3
<1> QED
  BY <1>1, <1>2

\* A tree's root, and the trees below it.
LEMMA PartTree ==
  ASSUME NEW m \in Memory, NEW S, NEW n, NEW B, Tree(m, S, n, B), n # Null,
         NEW side, NEW other, Sides(side, other)
  PROVE  /\ n \in 1 .. Len(m) /\ Linked(m, S, n, side, other) /\ Tall(m, n, side, other)
         /\ B => Even(m, n, side, other)
         /\ Tree(m, S, m[n][side], B) /\ Tree(m, S, m[n][other], B)
<1>1. n \in S[n] /\ S[Null] = {}
  BY DEF Tree
<1>2. /\ n \in 1 .. Len(m)
      /\ Linked(m, S, n, "left", "right") /\ Tall(m, n, "left", "right")
      /\ B => Even(m, n, "left", "right")
  BY <1>1 DEF Tree
<1>3. /\ Linked(m, S, n, side, other) /\ Tall(m, n, side, other)
      /\ B => Even(m, n, side, other)
  <2>1. m[n]["left"] \in 0 .. Len(m) /\ m[n]["right"] \in 0 .. Len(m)
    BY <1>2 DEF Linked
  <2> QED
    BY <1>2, <2>1, EitherOrder
<1>4. ASSUME NEW c, c \in 0 .. Len(m), c = Null \/ c \in S[c], S[c] \subseteq S[n]
      PROVE  Tree(m, S, c, B)
  BY <1>1, <1>4 DEF Tree
<1>5. /\ S[m[n][side]] \subseteq S[n] /\ S[m[n][other]] \subseteq S[n]
      /\ m[n][side] \in 0 .. Len(m) /\ m[n][other] \in 0 .. Len(m)
      /\ m[n][side] = Null \/ m[n][side] \in S[m[n][side]]
      /\ m[n][other] = Null \/ m[n][other] \in S[m[n][other]]
  BY <1>3 DEF Linked
<1> QED
  BY <1>2, <1>3, <1>4, <1>5

\* Two trees under a node that lies between them.
LEMMA JoinTree ==
  ASSUME NEW m \in Memory, NEW S, NEW n \in 1 .. Len(m), NEW B, NEW side, NEW other, Sides(side, other),
         Tree(m, S, m[n][side], B), Tree(m, S, m[n][other], B),
         Linked(m, S, n, side, other), Tall(m, n, side, other), B => Even(m, n, side, other)
  PROVE  Tree(m, S, n, B)
<1>1. PICK c, d : c = m[n][side] /\ d = m[n][other]
  OBVIOUS
<1>2. S[n] = {n} \cup S[c] \cup S[d]
  BY <1>1 DEF Linked
<1>3. /\ Linked(m, S, n, "left", "right") /\ Tall(m, n, "left", "right")
      /\ B => Even(m, n, "left", "right")
  <2>1. Linked(m, S, n, "left", "right")
    BY EitherOrder
  <2>2. m[n]["left"] \in 0 .. Len(m) /\ m[n]["right"] \in 0 .. Len(m)
    BY <2>1 DEF Linked
  <2> QED
    BY <2>1, <2>2, EitherOrder
<1>4. ASSUME NEW x \in S[n]
      PROVE  /\ x \in 1 .. Len(m)
             /\ Linked(m, S, x, "left", "right") /\ Tall(m, x, "left", "right")
             /\ B => Even(m, x, "left", "right")
             /\ \A y \in S[x] : S[y] \subseteq S[x]
  <2>1. CASE x \in S[c]
    BY <1>1, <2>1 DEF Tree
  <2>2. CASE x \in S[d]
    BY <1>1, <2>2 DEF Tree
  <2>3. CASE x = n
    <3>1. \A y \in S[c] : S[y] \subseteq S[c]
      BY <1>1 DEF Tree
    <3>2. \A y \in S[d] : S[y] \subseteq S[d]
      BY <1>1 DEF Tree
    <3>3. \A y \in S[n] : S[y] \subseteq S[n]
      BY <1>2, <3>1, <3>2
    <3> QED
      BY <1>3, <2>3, <3>3
  <2> QED
    BY <1>2, <2>1, <2>2, <2>3
<1>5. S[Null] = {} /\ n \in S[n] /\ n \in 0 .. Len(m)
  BY <1>2 DEF Tree
<1> QED
  BY <1>4, <1>5 DEF Tree

\* A tree of which nothing is written.
LEMMA FrameTree ==
  ASSUME NEW m, NEW S, NEW n, NEW B, NEW q, NEW R, Tree(m, S, n, B), Framed(m, S, n, q, R)
  PROVE  Tree(q, R, n, B) /\ R[n] = S[n] /\ avl_height(q, n) = avl_height(m, n)
<1>f. /\ m \in Memory /\ q \in Memory /\ Len(m) <= Len(q) /\ R[Null] = {}
      /\ \A x \in S[n] : q[x] = m[x] /\ R[x] = S[x]
  BY DEF Framed
<1> USE <1>f
<1>0. 0 .. Len(m) \subseteq 0 .. Len(q) /\ Null \in 0 .. Len(m) /\ S[Null] = {}
  <2>1. Len(m) \in Nat /\ Len(q) \in Nat
    BY DEF Memory
  <2> QED
    BY <2>1 DEF Null, Tree
<1>1. R[n] = S[n] /\ avl_height(q, n) = avl_height(m, n) /\ n \in 0 .. Len(q)
  <2>1. n \in 0 .. Len(m) /\ (n = Null \/ n \in S[n])
    BY DEF Tree
  <2>2. CASE n = Null
    BY <2>2, <1>0 DEF avl_height
  <2>3. CASE n # Null
    BY <2>1, <2>3, <1>0 DEF avl_height
  <2> QED
    BY <2>2, <2>3
<1>2. ASSUME NEW x \in S[n]
      PROVE  /\ x \in 1 .. Len(q)
             /\ Linked(q, R, x, "left", "right") /\ Tall(q, x, "left", "right")
             /\ B => Even(q, x, "left", "right")
             /\ \A y \in R[x] : R[y] \subseteq R[x]
  <2>1. /\ x \in 1 .. Len(m) /\ Linked(m, S, x, "left", "right") /\ Tall(m, x, "left", "right")
        /\ B => Even(m, x, "left", "right")
        /\ \A y \in S[x] : S[y] \subseteq S[x]
        /\ x \in 1 .. Len(q)
    BY <1>2 DEF Tree
  <2>2. S[x] \subseteq S[n]
    <3>1. CASE n = Null
      BY <3>1, <1>2 DEF Tree
    <3>2. CASE n # Null
      BY <3>2, <1>2 DEF Tree
    <3> QED
      BY <3>1, <3>2
  <2>3. q[x] = m[x] /\ R[x] = S[x]
    OBVIOUS
  <2>4. \A y \in R[x] : R[y] \subseteq R[x]
    BY <2>1, <2>2, <2>3
  <2>5. PICK l, r : l = m[x]["left"] /\ r = m[x]["right"]
    OBVIOUS
  <2>6. /\ l \in 0 .. Len(m) /\ (l = Null \/ l \in S[l])
        /\ r \in 0 .. Len(m) /\ (r = Null \/ r \in S[r])
        /\ S[x] = {x} \cup S[l] \cup S[r]
        /\ x \notin S[l] /\ x \notin S[r] /\ S[l] \cap S[r] = {}
        /\ \A y \in S[l] : Before("left", m[y].key, m[x].key)
        /\ \A y \in S[r] : Before("right", m[y].key, m[x].key)
    BY <2>1, <2>5 DEF Linked
  <2>7. ASSUME NEW c, c = l \/ c = r
        PROVE  R[c] = S[c] /\ avl_height(q, c) = avl_height(m, c) /\ c \in 0 .. Len(q)
    <3>1. CASE c = Null
      BY <3>1, <1>0 DEF avl_height
    <3>2. CASE c # Null
      <4>1. c \in S[n]
        BY <3>2, <2>2, <2>6, <2>7
      <4> QED
        BY <3>2, <4>1, <2>6, <2>7 DEF avl_height
    <3> QED
      BY <3>1, <3>2
  <2>8. \A y \in S[l] \cup S[r] : q[y] = m[y]
    BY <2>2, <2>6
  <2>9. Linked(q, R, x, "left", "right")
    BY <2>3, <2>5, <2>6, <2>7, <2>8 DEF Linked
  <2>10. Tall(q, x, "left", "right") /\ (B => Even(q, x, "left", "right"))
    BY <2>1, <2>3, <2>5, <2>7 DEF Tall, Even
  <2> QED
    BY <2>1, <2>4, <2>9, <2>10
<1>3. n = Null \/ n \in R[n]
  BY <1>1 DEF Tree
<1> QED
  BY <1>1, <1>2, <1>3 DEF Tree

-----------------------------------------------------------------------------
(* Rotations.                                                              *)

\* t is m with n and c turned, a being between the two.
Turns(m, n, c, side, other, a, t) ==
  /\ m \in Memory /\ n \in 1 .. Len(m) /\ c \in 1 .. Len(m) /\ n # c
  /\ Sides(side, other) /\ a \in Nat /\ m[c][other] = a
  /\ t = Turn(m, n, c, side, other)

\* What differs then.
HasTurned(m, n, c, side, other, a, t) ==
  /\ t \in Memory /\ Len(t) = Len(m)
  /\ t[n][side] = a /\ t[n][other] = m[n][other]
  /\ t[c][side] = m[c][side] /\ t[c][other] = n
  /\ \A x \in 1 .. Len(m) : t[x].key = m[x].key /\ t[x].value = m[x].value
  /\ \A x \in 1 .. Len(m) : x # n /\ x # c => t[x] = m[x]

\* The four fields that a turn writes.
LEMMA TurnWrites ==
  ASSUME NEW m, NEW n, NEW c, NEW side, NEW other, NEW a, NEW t,
         Turns(m, n, c, side, other, a, t)
  PROVE  HasTurned(m, n, c, side, other, a, t)
<1> SUFFICES ASSUME m \in Memory, n \in 1 .. Len(m), c \in 1 .. Len(m), n # c,
                    Sides(side, other), a \in Nat, m[c][other] = a,
                    t = Turn(m, n, c, side, other)
             PROVE  HasTurned(m, n, c, side, other, a, t)
  BY DEF Turns
<1>1. PICK u : u = Put(m, c, other, n)
  OBVIOUS
<1>2. Sides(other, side) /\ n \in Nat /\ Len(m) \in Nat
  BY DEF Sides, Memory
<1>3. /\ u \in Memory /\ Len(u) = Len(m)
      /\ u[c][other] = n /\ u[c][side] = m[c][side]
      /\ u[c].key = m[c].key /\ u[c].value = m[c].value
      /\ \A x \in 1 .. Len(m) : x # c => u[x] = m[x]
  BY <1>1, <1>2, PutLink
<1>4. t = Put(u, n, side, a)
  BY <1>1 DEF Turn, Put
<1>5. /\ t \in Memory /\ Len(t) = Len(u)
      /\ t[n][side] = a /\ t[n][other] = u[n][other]
      /\ t[n].key = u[n].key /\ t[n].value = u[n].value
      /\ \A x \in 1 .. Len(u) : x # n => t[x] = u[x]
  BY <1>3, <1>4, PutLink
<1>6. u[n] = m[n] /\ t[c] = u[c]
  BY <1>3, <1>5
<1> QED
  BY <1>3, <1>5, <1>6 DEF HasTurned

\* q is m after a rotation of n and its child c, over the trees a, b and d.
Rotates(m, n, c, side, other, a, b, d, q) ==
  /\ m \in Memory /\ n \in 1 .. Len(m) /\ c \in 1 .. Len(m) /\ n # c
  /\ Sides(side, other) /\ m[n][side] = c
  /\ a \in 0 .. Len(m) /\ b \in 0 .. Len(m) /\ d \in 0 .. Len(m)
  /\ a # n /\ a # c /\ b # n /\ b # c /\ d # n /\ d # c
  /\ m[c][other] = a /\ m[c][side] = b /\ m[n][other] = d
  /\ q = Rotate(m, n, side, other).mem

\* The nodes that a rotation of n and its child c writes, with their heights.
LEMMA RotateWrites ==
  ASSUME NEW m, NEW n, NEW c, NEW side, NEW other, NEW a, NEW b, NEW d, NEW q,
         Rotates(m, n, c, side, other, a, b, d, q)
  PROVE  /\ ~ Rotate(m, n, side, other).crash /\ Rotate(m, n, side, other).top = c
         /\ q \in Memory /\ Len(q) = Len(m)
         /\ q[n][side] = a /\ q[n][other] = d /\ q[c][side] = b /\ q[c][other] = n
         /\ q[n].height = Above(avl_height(m, a), avl_height(m, d))
         /\ q[c].height = Above(avl_height(m, b), q[n].height)
         /\ \A x \in 1 .. Len(m) : q[x].key = m[x].key /\ q[x].value = m[x].value
         /\ \A x \in 1 .. Len(m) : x # n /\ x # c => q[x] = m[x]
         /\ avl_height(q, a) = avl_height(m, a) /\ avl_height(q, b) = avl_height(m, b)
         /\ avl_height(q, d) = avl_height(m, d)
<1> SUFFICES ASSUME m \in Memory, n \in 1 .. Len(m), c \in 1 .. Len(m), n # c,
                    Sides(side, other), m[n][side] = c,
                    a \in 0 .. Len(m), b \in 0 .. Len(m), d \in 0 .. Len(m),
                    a # n, a # c, b # n, b # c, d # n, d # c,
                    m[c][other] = a, m[c][side] = b, m[n][other] = d,
                    q = Rotate(m, n, side, other).mem
             PROVE  /\ ~ Rotate(m, n, side, other).crash /\ Rotate(m, n, side, other).top = c
                    /\ q \in Memory /\ Len(q) = Len(m)
                    /\ q[n][side] = a /\ q[n][other] = d /\ q[c][side] = b /\ q[c][other] = n
                    /\ q[n].height = Above(avl_height(m, a), avl_height(m, d))
                    /\ q[c].height = Above(avl_height(m, b), q[n].height)
                    /\ \A x \in 1 .. Len(m) : q[x].key = m[x].key /\ q[x].value = m[x].value
                    /\ \A x \in 1 .. Len(m) : x # n /\ x # c => q[x] = m[x]
                    /\ avl_height(q, a) = avl_height(m, a) /\ avl_height(q, b) = avl_height(m, b)
                    /\ avl_height(q, d) = avl_height(m, d)
  BY DEF Rotates
<1>1. PICK t, h : t = Turn(m, n, c, side, other) /\ h = Heighten(t, n)
  OBVIOUS
<1>0. Len(m) \in Nat /\ a \in Nat /\ Sides(side, other) /\ n \in 0 .. Len(m) /\ c # Null /\ n # Null
  BY DEF Memory, Null
<1>2. Rotate(m, n, side, other) = [mem |-> Heighten(h, c), top |-> c, crash |-> FALSE]
  <2>1. Rotate(m, n, side, other) = Kept(UpdateHeights(t, n, c), c)
    BY <1>0, <1>1 DEF Rotate
  <2>2. UpdateHeights(t, n, c) = Heighten(h, c)
    BY <1>1 DEF UpdateHeights
  <2> QED
    BY <2>1, <2>2 DEF Kept
<1>3. /\ t \in Memory /\ Len(t) = Len(m)
      /\ t[n][side] = a /\ t[n][other] = d /\ t[c][side] = b /\ t[c][other] = n
      /\ \A x \in 1 .. Len(m) : t[x].key = m[x].key /\ t[x].value = m[x].value
      /\ \A x \in 1 .. Len(m) : x # n /\ x # c => t[x] = m[x]
  <2>1. Turns(m, n, c, side, other, a, t)
    BY <1>0, <1>1 DEF Turns
  <2>2. HasTurned(m, n, c, side, other, a, t)
    BY <2>1, TurnWrites
  <2> QED
    BY <2>2 DEF HasTurned
<1>4. /\ h \in Memory /\ Len(h) = Len(t)
      /\ h[n][side] = a /\ h[n][other] = d
      /\ h[n].key = t[n].key /\ h[n].value = t[n].value
      /\ h[n].height = Above(avl_height(t, a), avl_height(t, d))
      /\ \A x \in 1 .. Len(t) : x # n => h[x] = t[x]
  <2>1. Heightens(t, n, side, other, h)
    BY <1>1, <1>3 DEF Heightens
  <2>2. Heightened(t, n, side, other, h)
    BY <2>1, HeightenWrites
  <2> QED
    BY <1>3, <2>2 DEF Heightened
<1>5. h[c] = t[c] /\ q = Heighten(h, c)
  BY <1>2, <1>3, <1>4
<1>6. /\ q \in Memory /\ Len(q) = Len(h)
      /\ q[c][side] = b /\ q[c][other] = n
      /\ q[c].key = h[c].key /\ q[c].value = h[c].value
      /\ q[c].height = Above(avl_height(h, b), avl_height(h, n))
      /\ \A x \in 1 .. Len(h) : x # c => q[x] = h[x]
  <2>1. h[c][side] = b /\ h[c][other] = n
    BY <1>3, <1>5
  <2>2. Heightens(h, c, side, other, q)
    BY <1>0, <1>3, <1>4, <1>5, <2>1 DEF Heightens
  <2>3. Heightened(h, c, side, other, q)
    BY <2>2, HeightenWrites
  <2> QED
    BY <2>1, <2>3 DEF Heightened
<1>7. q[n] = h[n]
  BY <1>3, <1>4, <1>6
<1>8. ASSUME NEW x \in 0 .. Len(m), x # n, x # c
      PROVE  /\ avl_height(t, x) = avl_height(m, x) /\ avl_height(h, x) = avl_height(m, x)
             /\ avl_height(q, x) = avl_height(m, x)
  <2>1. CASE x = Null
    BY <2>1 DEF avl_height
  <2>2. CASE x # Null
    <3>1. x \in 1 .. Len(m)
      BY <2>2 DEF Null
    <3>2. t[x] = m[x] /\ h[x] = m[x] /\ q[x] = m[x]
      BY <1>3, <1>4, <1>6, <1>8, <3>1
    <3> QED
      BY <2>2, <3>2 DEF avl_height
  <2> QED
    BY <2>1, <2>2
<1>9. avl_height(h, n) = q[n].height
  BY <1>0, <1>7 DEF avl_height
<1>10. \A x \in 1 .. Len(m) : q[x].key = m[x].key /\ q[x].value = m[x].value
  <2>1. ASSUME NEW x \in 1 .. Len(m)
        PROVE  q[x].key = m[x].key /\ q[x].value = m[x].value
    <3>1. CASE x = n
      BY <3>1, <1>3, <1>4, <1>7
    <3>2. CASE x = c
      BY <3>2, <1>3, <1>4, <1>5, <1>6
    <3>3. CASE x # n /\ x # c
      BY <3>3, <1>3, <1>4, <1>6
    <3> QED
      BY <3>1, <3>2, <3>3
  <2> QED
    BY <2>1
<1>11. \A x \in 1 .. Len(m) : x # n /\ x # c => q[x] = m[x]
  BY <1>3, <1>4, <1>6
<1>12. /\ avl_height(q, a) = avl_height(m, a) /\ avl_height(q, b) = avl_height(m, b)
       /\ avl_height(q, d) = avl_height(m, d)
       /\ avl_height(t, a) = avl_height(m, a) /\ avl_height(t, d) = avl_height(m, d)
       /\ avl_height(h, b) = avl_height(m, b)
  BY <1>8
<1>13. ~ Rotate(m, n, side, other).crash /\ Rotate(m, n, side, other).top = c
  BY <1>2
<1>14. q[n].height = Above(avl_height(m, a), avl_height(m, d))
  BY <1>4, <1>7, <1>12
<1>15. q[c].height = Above(avl_height(m, b), q[n].height)
  BY <1>6, <1>9, <1>12
<1> QED
  BY <1>3, <1>4, <1>6, <1>7, <1>10, <1>11, <1>12, <1>13, <1>14, <1>15

\* A rotation keeps the order: what was between the two nodes still is, and
\* the two are over the same three trees.
LEMMA RotateTurns ==
  ASSUME NEW m, NEW S, NEW n, NEW B, NEW side, NEW other, Turnable(m, S, n, B, side, other)
  PROVE  /\ ~ Rotate(m, n, side, other).crash /\ Rotate(m, n, side, other).top = m[n][side]
         /\ \E R : Turned(m, S, n, B, side, other, m[n][side], Rotate(m, n, side, other).mem, R)
<1>e. PICK c, a, b, d, q : /\ c = m[n][side] /\ d = m[n][other]
                         /\ a = m[c][other] /\ b = m[c][side]
                         /\ q = Rotate(m, n, side, other).mem
  OBVIOUS
<1>a. /\ m \in Memory /\ S \in Family /\ S[Null] = {} /\ n \in 1 .. Len(m) /\ Sides(side, other)
      /\ c # Null /\ Linked(m, S, n, side, other) /\ Linked(m, S, c, side, other)
      /\ Tree(m, S, a, B) /\ Tree(m, S, b, B) /\ Tree(m, S, d, B)
  BY <1>e DEF Turnable
<1>0. Len(m) \in Nat
  BY <1>a DEF Memory
<1>1. /\ c \in 1 .. Len(m) /\ c \in S[c] /\ n \notin S[c]
      /\ d \in 0 .. Len(m) /\ (d = Null \/ d \in S[d]) /\ n \notin S[d]
      /\ S[n] = {n} \cup S[c] \cup S[d] /\ S[c] \cap S[d] = {}
      /\ \A x \in S[c] : Before(side, m[x].key, m[n].key)
      /\ \A x \in S[d] : Before(other, m[x].key, m[n].key)
  <2>1. /\ c \in 0 .. Len(m) /\ c \in S[c] /\ n \notin S[c]
        /\ d \in 0 .. Len(m) /\ (d = Null \/ d \in S[d]) /\ n \notin S[d]
        /\ S[n] = {n} \cup S[c] \cup S[d] /\ S[c] \cap S[d] = {}
        /\ \A x \in S[c] : Before(side, m[x].key, m[n].key)
        /\ \A x \in S[d] : Before(other, m[x].key, m[n].key)
    BY <1>a, <1>e DEF Linked
  <2>2. c \in 1 .. Len(m)
    BY <1>a, <1>0, <2>1 DEF Null
  <2> QED
    BY <1>a, <2>1, <2>2
<1>2. /\ a \in 0 .. Len(m) /\ (a = Null \/ a \in S[a]) /\ c \notin S[a]
      /\ b \in 0 .. Len(m) /\ (b = Null \/ b \in S[b]) /\ c \notin S[b]
      /\ S[c] = {c} \cup S[b] \cup S[a] /\ S[a] \cap S[b] = {}
      /\ \A x \in S[b] : Before(side, m[x].key, m[c].key)
      /\ \A x \in S[a] : Before(other, m[x].key, m[c].key)
  BY <1>a, <1>e DEF Linked
<1>3. a # n /\ a # c /\ b # n /\ b # c /\ d # n /\ d # c /\ n # c /\ n # Null
  <2>1. n # c /\ n # Null
    BY <1>a, <1>1 DEF Null
  <2>2. a # n /\ a # c
    BY <1>a, <2>1, <1>1, <1>2
  <2>3. b # n /\ b # c
    BY <1>a, <2>1, <1>1, <1>2
  <2>4. d # n /\ d # c
    BY <1>a, <2>1, <1>1, <1>2
  <2> QED
    BY <1>a, <2>1, <2>2, <2>3, <2>4
<1>4. /\ ~ Rotate(m, n, side, other).crash /\ Rotate(m, n, side, other).top = c
      /\ q \in Memory /\ Len(q) = Len(m)
      /\ q[n][side] = a /\ q[n][other] = d /\ q[c][side] = b /\ q[c][other] = n
      /\ q[n].height = Above(avl_height(m, a), avl_height(m, d))
      /\ q[c].height = Above(avl_height(m, b), q[n].height)
      /\ \A x \in 1 .. Len(m) : q[x].key = m[x].key /\ q[x].value = m[x].value
      /\ \A x \in 1 .. Len(m) : x # n /\ x # c => q[x] = m[x]
      /\ avl_height(q, a) = avl_height(m, a) /\ avl_height(q, b) = avl_height(m, b)
      /\ avl_height(q, d) = avl_height(m, d)
  <2>1. n \in 1 .. Len(m) /\ c \in 1 .. Len(m) /\ m[n][side] = c
    BY <1>a, <1>e, <1>1
  <2>2. /\ a \in 0 .. Len(m) /\ b \in 0 .. Len(m) /\ d \in 0 .. Len(m)
        /\ m[c][other] = a /\ m[c][side] = b /\ m[n][other] = d
    BY <1>a, <1>e, <1>1, <1>2
  <2> QED
    <3>1. Rotates(m, n, c, side, other, a, b, d, q)
      BY <1>e, <1>a, <2>1, <2>2, <1>3 DEF Rotates
    <3>2. q \in Memory /\ Len(q) = Len(m)
      BY <3>1, RotateWrites
    <3> QED
      BY <3>1, <3>2, RotateWrites
<1>5. c \in Nat /\ n \in Nat /\ a \in Nat /\ b \in Nat /\ d \in Nat /\ Null \in Nat
  <2>1. \A x \in 0 .. Len(m) : x \in Nat
    BY <1>a, <1>0
  <2>2. c \in 0 .. Len(m) /\ n \in 0 .. Len(m)
    BY <1>a, <1>0, <1>1
  <2> QED
    BY <1>a, <1>1, <1>2, <2>1, <2>2 DEF Null
<1>6. PICK R \in Family : /\ R[c] = S[n] /\ R[n] = {n} \cup S[a] \cup S[d]
                          /\ \A x \in Nat : x # n /\ x # c => R[x] = S[x]
  <2>1. {n} \cup S[a] \cup S[d] \subseteq Nat /\ S[n] \subseteq Nat
    <3>1. S[a] \subseteq Nat /\ S[d] \subseteq Nat /\ S[n] \subseteq Nat
      BY <1>a, <1>5 DEF Family
    <3> QED
      BY <1>5, <3>1
  <2>2. PICK R : R = [x \in Nat |-> IF x = n THEN {n} \cup S[a] \cup S[d]
                                   ELSE IF x = c THEN S[n] ELSE S[x]]
    OBVIOUS
  <2>3. \A x \in Nat : R[x] \in SUBSET Nat
    BY <1>a, <2>1, <2>2 DEF Family
  <2>4. R \in Family
    BY <2>2, <2>3 DEF Family
  <2> QED
    BY <1>3, <1>5, <2>2, <2>4
<1>7. R[Null] = {}
  BY <1>a, <1>3, <1>5, <1>6
<1>8. ASSUME NEW z, Tree(m, S, z, B), n \notin S[z], c \notin S[z]
      PROVE  Tree(q, R, z, B)
  <2>1. S[z] \subseteq 1 .. Len(m)
    BY <1>a, <1>8 DEF Tree
  <2>2. \A x \in S[z] : q[x] = m[x] /\ R[x] = S[x]
    <3>1. ASSUME NEW x \in S[z]
          PROVE  q[x] = m[x] /\ R[x] = S[x]
      <4>1. x \in 1 .. Len(m) /\ x \in Nat
        BY <1>a, <1>0, <2>1
      <4>2. x # n /\ x # c
        BY <1>a, <1>8
      <4> QED
        BY <1>a, <1>4, <1>6, <4>1, <4>2
    <3> QED
      BY <1>a, <3>1
  <2> QED
    <3>1. q \in Memory /\ Len(m) <= Len(q)
      BY <1>a, <1>0, <1>4
    <3> QED
      <4>1. Tree(m, S, z, B)
        BY <1>a, <1>8
      <4> QED
        <5>1. Framed(m, S, z, q, R)
          BY <1>a, <1>7, <2>2, <3>1 DEF Framed
        <5> QED
          BY <4>1, <5>1, FrameTree
<1>9. Tree(q, R, a, B) /\ Tree(q, R, b, B) /\ Tree(q, R, d, B)
  BY <1>a, <1>1, <1>2, <1>8
<1>10. R[a] = S[a] /\ R[b] = S[b] /\ R[d] = S[d]
  BY <1>a, <1>3, <1>5, <1>6
<1>11. S[a] \subseteq 1 .. Len(m) /\ S[b] \subseteq 1 .. Len(m) /\ S[d] \subseteq 1 .. Len(m)
  BY <1>a DEF Tree
<1>12. Linked(q, R, n, side, other)
  <2>1. \A x \in S[a] : Before(side, m[x].key, m[n].key)
    BY <1>a, <1>e, <1>1, <1>2
  <2>2. \A x \in S[a] : Before(side, q[x].key, q[n].key)
    BY <1>a, <2>1, <1>4, <1>11
  <2>3. \A x \in S[d] : Before(other, q[x].key, q[n].key)
    BY <1>a, <1>1, <1>4, <1>11
  <2>4. S[a] \cap S[d] = {} /\ n \notin S[a]
    BY <1>a, <1>e, <1>1, <1>2
  <2> QED
    <3>1. R[n] = {n} \cup R[a] \cup R[d]
      BY <1>a, <1>6, <1>10
    <3>2. n \notin R[a] /\ n \notin R[d] /\ R[a] \cap R[d] = {}
      BY <1>a, <1>1, <1>10, <2>4
    <3>3. /\ a \in 0 .. Len(q) /\ (a = Null \/ a \in R[a])
          /\ d \in 0 .. Len(q) /\ (d = Null \/ d \in R[d])
      BY <1>a, <1>1, <1>2, <1>4, <1>10
    <3>4. /\ \A x \in R[a] : Before(side, q[x].key, q[n].key)
          /\ \A x \in R[d] : Before(other, q[x].key, q[n].key)
      BY <1>a, <1>10, <2>2, <2>3
    <3>5. q[n][side] = a /\ q[n][other] = d
      BY <1>a, <1>4
    <3> QED
      BY <3>1, <3>2, <3>3, <3>4, <3>5 DEF Linked
<1>13. Linked(q, R, c, side, other)
  <2>1. Before(side, m[c].key, m[n].key)
    BY <1>a, <1>e, <1>1
  <2>2. \A x \in S[n] : m[x].key \in Nat
    BY <1>a, <1>1, <1>2, <1>11, NodeFields
  <2>3. Before(other, m[n].key, m[c].key)
    BY <1>a, <2>1 DEF Before, Sides
  <2>4. ASSUME NEW x \in S[d]
        PROVE  Before(other, m[x].key, m[c].key)
    <3>1. Before(other, m[x].key, m[n].key)
      BY <1>a, <1>e, <1>1
    <3>2. m[x].key \in Nat /\ m[n].key \in Nat /\ m[c].key \in Nat
      BY <1>a, <1>1, <2>2
    <3>3. PICK i, j, k : i = m[x].key /\ j = m[n].key /\ k = m[c].key
      OBVIOUS
    <3>4. i \in Nat /\ j \in Nat /\ k \in Nat /\ Before(other, i, j) /\ Before(other, j, k)
      BY <1>a, <2>3, <3>1, <3>2, <3>3
    <3>5. Before(other, i, k)
      BY <1>a, <3>4 DEF Before
    <3> QED
      BY <1>a, <3>3, <3>5
  <2>5. \A x \in R[n] : Before(other, m[x].key, m[c].key)
    BY <1>a, <1>2, <1>6, <2>3, <2>4
  <2>6. R[n] \subseteq 1 .. Len(m)
    BY <1>a, <1>6, <1>11
  <2>7. \A x \in R[n] : Before(other, q[x].key, q[c].key)
    BY <1>a, <1>1, <1>4, <2>5, <2>6
  <2>8. \A x \in R[b] : Before(side, q[x].key, q[c].key)
    BY <1>a, <1>1, <1>2, <1>4, <1>10, <1>11
  <2>9. /\ c \notin R[b] /\ c \notin R[n] /\ R[b] \cap R[n] = {}
        /\ R[c] = {c} \cup R[b] \cup R[n]
    <3>1. c \notin R[b] /\ c \notin R[n]
      BY <1>a, <1>1, <1>2, <1>3, <1>6, <1>10
    <3>2. R[b] \cap R[n] = {}
      <4>1. S[b] \subseteq S[c]
        BY <1>a, <1>2
      <4>2. n \notin S[b] /\ S[b] \cap S[d] = {} /\ S[b] \cap S[a] = {}
        BY <1>a, <4>1, <1>1, <1>2
      <4>3. R[b] = S[b] /\ R[n] = {n} \cup S[a] \cup S[d]
        BY <1>a, <1>6, <1>10
      <4> QED
        BY <4>2, <4>3
    <3>3. R[c] = {c} \cup R[b] \cup R[n]
      <4>1. S[n] = {n} \cup S[c] \cup S[d]
        BY <1>a, <1>e, <1>1
      <4>2. S[c] = {c} \cup S[b] \cup S[a]
        BY <1>a, <1>2
      <4>3. R[c] = S[n] /\ R[n] = {n} \cup S[a] \cup S[d] /\ R[b] = S[b]
        BY <1>a, <1>6, <1>10
      <4> QED
        BY <1>a, <4>1, <4>2, <4>3
    <3> QED
      BY <1>a, <3>1, <3>2, <3>3
  <2>10. n \in R[n] /\ b \in 0 .. Len(q) /\ n \in 0 .. Len(q) /\ (b = Null \/ b \in R[b])
    <3>1. n \in 0 .. Len(q) /\ b \in 0 .. Len(q)
      <4>1. n \in 0 .. Len(m) /\ Len(q) = Len(m)
        BY <1>a, <1>0, <1>4
      <4> QED
        BY <1>a, <4>1, <1>2
    <3> QED
      BY <1>a, <1>2, <1>6, <1>10, <3>1
  <2> QED
    <3>1. q[c][side] = b /\ q[c][other] = n
      BY <1>a, <1>4
    <3> QED
      BY <3>1, <2>7, <2>8, <2>9, <2>10 DEF Linked
<1>14. Tall(q, n, side, other)
  BY <1>a, <1>4 DEF Tall
<1>15. Tall(q, c, side, other)
  BY <1>a, <1>3, <1>4 DEF Tall, avl_height
<1>16. Turned(m, S, n, B, side, other, c, q, R)
  BY <1>e, <1>4, <1>6, <1>7, <1>9, <1>12, <1>13, <1>14, <1>15 DEF Turned
<1> QED
  BY <1>e, <1>4, <1>16

\* A rotation rearranges the nodes below n, and makes a balanced tree where
\* the heights of the three subtrees are such.
LEMMA TurnOnce ==
  ASSUME NEW m, NEW S, NEW n, NEW B, NEW side, NEW other, Turnable(m, S, n, B, side, other),
         B => EvenOnce(m, n, side, other)
  PROVE  LET c == m[n][side]
         IN Rearranged(m, S, n, B, Rotate(m, n, side, other), c,
                       Above(avl_height(m, m[c][side]),
                             Above(avl_height(m, m[c][other]), avl_height(m, m[n][other]))))
<1>1. PICK c, a, b, d, i, j, k, q :
        /\ c = m[n][side] /\ a = m[c][other] /\ b = m[c][side] /\ d = m[n][other]
        /\ i = avl_height(m, a) /\ j = avl_height(m, b) /\ k = avl_height(m, d)
        /\ q = Rotate(m, n, side, other).mem
  OBVIOUS
<1>e. B => /\ i <= k + 1 /\ k <= i + 1
           /\ j <= Above(i, k) + 1 /\ Above(i, k) <= j + 1
  BY <1>1 DEF EvenOnce
<1>2. ~ Rotate(m, n, side, other).crash /\ Rotate(m, n, side, other).top = c
  BY <1>1, RotateTurns
<1>3. PICK R : Turned(m, S, n, B, side, other, c, q, R)
  BY <1>1, RotateTurns
<1>4. /\ m \in Memory /\ n \in 1 .. Len(m) /\ Sides(side, other) /\ c # Null
      /\ c \in 1 .. Len(m) /\ c \in S[c] /\ n \notin S[c] /\ n # c
      /\ S[n] = {n} \cup S[c] \cup S[d] /\ Len(m) \in Nat
  <2>1. /\ m \in Memory /\ n \in 1 .. Len(m) /\ Sides(side, other) /\ c # Null
        /\ Linked(m, S, n, side, other)
    BY <1>1 DEF Turnable
  <2>2. /\ c \in 0 .. Len(m) /\ c \in S[c] /\ n \notin S[c] /\ n # c
        /\ S[n] = {n} \cup S[c] \cup S[d]
    BY <1>1, <2>1 DEF Linked
  <2>3. Len(m) \in Nat
    BY <2>1 DEF Memory
  <2> QED
    BY <2>1, <2>2, <2>3 DEF Null
<1>5. /\ q \in Memory /\ Len(q) = Len(m)
      /\ q[n][side] = a /\ q[n][other] = d /\ q[c][side] = b /\ q[c][other] = n
      /\ q[n].height = Above(i, k) /\ q[c].height = Above(j, q[n].height)
      /\ avl_height(q, a) = i /\ avl_height(q, b) = j /\ avl_height(q, d) = k
  BY <1>1, <1>3 DEF Turned
<1>6. /\ \A x \in 1 .. Len(m) : q[x].key = m[x].key /\ q[x].value = m[x].value
      /\ \A x \in 1 .. Len(m) : x # n /\ x # c => q[x] = m[x]
      /\ R \in Family /\ R[c] = S[n]
      /\ \A x \in Nat : x # n /\ x # c => R[x] = S[x]
  BY <1>3 DEF Turned
<1>7. /\ Tree(q, R, a, B) /\ Tree(q, R, b, B) /\ Tree(q, R, d, B)
      /\ Linked(q, R, n, side, other) /\ Tall(q, n, side, other)
      /\ Linked(q, R, c, side, other) /\ Tall(q, c, side, other)
  BY <1>1, <1>3 DEF Turned
<1>8. B => Even(q, n, side, other)
  BY <1>e, <1>5 DEF Even
<1>9. Tree(q, R, n, B)
  BY <1>4, <1>5, <1>7, <1>8, JoinTree
<1>10. avl_height(q, n) = Above(i, k) /\ avl_height(q, c) = Above(j, Above(i, k))
  <2>1. avl_height(q, n) = q[n].height /\ avl_height(q, c) = q[c].height
    BY <1>4 DEF avl_height, Null
  <2> QED
    BY <1>5, <2>1
<1>11. B => Even(q, c, side, other)
  BY <1>e, <1>5, <1>10 DEF Even
<1>12. Tree(q, R, c, B)
  BY <1>4, <1>5, <1>7, <1>9, <1>11, JoinTree
<1>13. ASSUME NEW x \in 1 .. Len(m)
       PROVE  /\ q[x].key = m[x].key /\ q[x].value = m[x].value
              /\ x \notin S[n] => q[x] = m[x]
  BY <1>4, <1>6
<1>14. \A x \in Nat : x \notin S[n] => R[x] = S[x]
  BY <1>4, <1>6
<1>15. Reshaped(m, S, n, B, q, R, c)
  BY <1>4, <1>5, <1>6, <1>12, <1>13, <1>14 DEF Reshaped
<1> QED
  BY <1>1, <1>2, <1>10, <1>15 DEF Rearranged

\* A tree is one, balanced or not.
LEMMA TreeAnyway ==
  ASSUME NEW m, NEW S, NEW n, NEW B, Tree(m, S, n, B)
  PROVE  Tree(m, S, n, FALSE)
BY DEF Tree

\* The tree below n's child, after that child was turned to its other side
\* and n linked to what is now above it.
LEMMA InnerTurn ==
  ASSUME NEW m, NEW S, NEW n, NEW B, NEW side, NEW other,
         TwiceTurnable(m, S, n, B, side, other),
         LET c == m[n][side]
             e == m[c][other]
         IN B => /\ avl_height(m, m[e][side]) <= avl_height(m, m[c][side]) + 1
                 /\ avl_height(m, m[c][side]) <= avl_height(m, m[e][side]) + 1
  PROVE  LET c == m[n][side]
             e == m[c][other]
             t == Put(Rotate(m, c, other, side).mem, n, side, e)
         IN /\ ~ Rotate(m, c, other, side).crash /\ Rotate(m, c, other, side).top = e
            /\ \E R : /\ Turnable(t, R, n, B, side, other)
                      /\ InnerTurned(m, S, n, side, other, e, t, R)
<1>e. PICK c, d, e, i, j, k, l, t, q :
        /\ c = m[n][side] /\ d = m[n][other] /\ e = m[c][other]
        /\ j = avl_height(m, m[c][side]) /\ i = avl_height(m, m[e][side])
        /\ k = avl_height(m, m[e][other]) /\ l = avl_height(m, d)
        /\ t = Put(Rotate(m, c, other, side).mem, n, side, e)
        /\ q = Rotate(m, c, other, side).mem
  OBVIOUS
<1>p. /\ m \in Memory /\ S \in Family /\ S[Null] = {} /\ n \in 1 .. Len(m) /\ Sides(side, other)
      /\ c # Null /\ e # Null /\ Linked(m, S, n, side, other)
      /\ Tree(m, S, c, B) /\ Tree(m, S, d, B)
      /\ B => i <= j + 1 /\ j <= i + 1
  BY <1>e DEF TwiceTurnable
<1>0. Len(m) \in Nat /\ Sides(other, side)
  BY <1>p DEF Memory, Sides
<1>1. /\ c \in 1 .. Len(m) /\ Linked(m, S, c, other, side)
      /\ Tree(m, S, e, B) /\ Tree(m, S, m[c][side], B)
  BY <1>e, <1>p, <1>0, PartTree
<1>2. /\ e \in 1 .. Len(m) /\ Linked(m, S, e, other, side)
      /\ Tree(m, S, m[e][other], B) /\ Tree(m, S, m[e][side], B)
  BY <1>e, <1>p, <1>0, <1>1, PartTree
<1>3. Turnable(m, S, c, B, other, side)
  BY <1>e, <1>p, <1>0, <1>1, <1>2 DEF Turnable
<1>4. ~ Rotate(m, c, other, side).crash /\ Rotate(m, c, other, side).top = m[c][other]
  BY ONLY <1>3, RotateTurns
<1>5. ~ Rotate(m, c, other, side).crash /\ Rotate(m, c, other, side).top = e
  BY ONLY <1>e, <1>4
<1>6. PICK R : Turned(m, S, c, B, other, side, e, q, R)
  <2>1. \E R : Turned(m, S, c, B, other, side, m[c][other], Rotate(m, c, other, side).mem, R)
    BY <1>3, RotateTurns
  <2> QED
    BY <1>e, <2>1
<1>7. /\ n \notin S[c] /\ n \notin S[d] /\ S[c] \cap S[d] = {} /\ S[n] = {n} \cup S[c] \cup S[d]
      /\ c \in S[c] /\ d \in 0 .. Len(m) /\ (d = Null \/ d \in S[d])
      /\ \A x \in S[c] : Before(side, m[x].key, m[n].key)
      /\ \A x \in S[d] : Before(other, m[x].key, m[n].key)
  BY <1>e, <1>p DEF Linked
<1>8. /\ e \in S[c] /\ c \notin S[e] /\ e \in S[e]
  BY <1>e, <1>p, <1>1, <1>2 DEF Linked
<1>9. n # c /\ n # e /\ c # e /\ d # c /\ d # e /\ d # n /\ n # Null
  <2>1. n # Null /\ c # Null /\ e # Null
    BY <1>p DEF Null
  <2>2. n # c /\ n # e /\ c # e
    BY <1>p, <1>7, <1>8
  <2>3. d # c /\ d # e /\ d # n
    BY <1>p, <1>7, <1>8, <2>1
  <2> QED
    BY <1>p, <2>1, <2>2, <2>3
<1>10. PICK f, g, b : f = m[e][side] /\ g = m[e][other] /\ b = m[c][side]
  OBVIOUS
<1>11. /\ q \in Memory /\ Len(q) = Len(m)
       /\ q[c][other] = f /\ q[c][side] = b /\ q[e][other] = g /\ q[e][side] = c
       /\ q[c].height = Above(i, j) /\ avl_height(q, g) = k
       /\ avl_height(q, f) = i /\ avl_height(q, b) = j
  BY <1>e, <1>6, <1>10 DEF Turned
<1>12. /\ \A x \in 1 .. Len(m) : q[x].key = m[x].key /\ q[x].value = m[x].value
       /\ \A x \in 1 .. Len(m) : x # c /\ x # e => q[x] = m[x]
       /\ R \in Family /\ R[e] = S[c] /\ R[Null] = {}
       /\ \A x \in Nat : x # c /\ x # e => R[x] = S[x]
  BY <1>e, <1>6 DEF Turned
<1>13. /\ Tree(q, R, f, B) /\ Tree(q, R, g, B) /\ Tree(q, R, b, B)
       /\ Linked(q, R, c, other, side) /\ Tall(q, c, other, side)
       /\ Linked(q, R, e, other, side) /\ Tall(q, e, other, side)
  BY <1>e, <1>6, <1>10 DEF Turned
<1>14. Tree(q, R, c, B)
  <2>1. B => Even(q, c, other, side)
    BY <1>p, <1>11 DEF Even
  <2> QED
    BY <1>p, <1>0, <1>1, <1>11, <1>13, <2>1, JoinTree
<1>15. Tree(q, R, e, FALSE)
  <2>1. Tree(q, R, c, FALSE) /\ Tree(q, R, g, FALSE)
    BY <1>p, <1>13, <1>14, TreeAnyway
  <2> QED
    BY <1>p, <1>0, <1>2, <1>11, <1>13, <2>1, JoinTree
<1>16. Tree(q, R, d, B) /\ R[d] = S[d] /\ avl_height(q, d) = l
  <2>1. \A x \in S[d] : q[x] = m[x] /\ R[x] = S[x]
    <3>1. ASSUME NEW x \in S[d]
          PROVE  q[x] = m[x] /\ R[x] = S[x]
      <4>1. x \in 1 .. Len(m)
        BY <1>p DEF Tree
      <4>2. x # c /\ x # e /\ x \in Nat
        BY <1>p, <1>0, <1>7, <1>8, <4>1
      <4> QED
        BY <1>p, <1>12, <4>1, <4>2
    <3> QED
      BY <1>p, <3>1
  <2> QED
    <3>1. Framed(m, S, d, q, R)
      BY <1>p, <1>0, <1>11, <1>12, <2>1 DEF Framed
    <3> QED
      <4>1. Tree(m, S, d, B)
        BY <1>p
      <4>2. Tree(q, R, d, B) /\ R[d] = S[d] /\ avl_height(q, d) = avl_height(m, d)
        BY <3>1, <4>1, FrameTree
      <4> QED
        BY <1>e, <4>2
<1>17. /\ t \in Memory /\ Len(t) = Len(m) /\ t[n][side] = e /\ t[n][other] = d
       /\ t[n].key = m[n].key /\ t[n].value = m[n].value
       /\ \A x \in 1 .. Len(m) : x # n => t[x] = q[x]
  <2>1. t = Put(q, n, side, e) /\ n \in 1 .. Len(q) /\ e \in Nat
    <3>1. n \in 1 .. Len(q)
      BY <1>p, <1>11
    <3>2. e \in Nat
      BY <1>0, <1>2
    <3> QED
      BY <1>e, <3>1, <3>2
  <2>2. /\ t \in Memory /\ Len(t) = Len(q)
        /\ t[n][side] = e /\ t[n][other] = q[n][other]
        /\ t[n].key = q[n].key /\ t[n].value = q[n].value
        /\ \A x \in 1 .. Len(q) : x # n => t[x] = q[x]
    BY <1>p, <1>11, <2>1, PutLink
  <2>3. q[n] = m[n]
    BY <1>p, <1>9, <1>12
  <2> QED
    <3>1. \A x \in 1 .. Len(m) : x \in 1 .. Len(q)
      BY <1>11
    <3>2. q[n][other] = d
      BY <1>e, <2>3
    <3> QED
      BY <1>11, <2>2, <2>3, <3>1, <3>2
<1>18. ASSUME NEW z, NEW D, Tree(q, R, z, D), n \notin R[z]
       PROVE  Tree(t, R, z, D) /\ avl_height(t, z) = avl_height(q, z)
  <2>1. \A x \in R[z] : t[x] = q[x] /\ R[x] = R[x]
    <3>1. R[z] \subseteq 1 .. Len(q)
      BY <1>p, <1>18 DEF Tree
    <3> QED
      BY <1>p, <1>11, <1>17, <1>18, <3>1
  <2>2. Len(q) <= Len(t)
    BY <1>p, <1>0, <1>11, <1>17
  <2> QED
    <3>1. Framed(q, R, z, t, R)
      BY <1>11, <1>12, <1>17, <2>1, <2>2 DEF Framed
    <3> QED
      BY <3>1, <1>18, FrameTree
<1>19. n \notin R[c] /\ n \notin R[g] /\ n \notin R[d] /\ n \notin R[e]
  <2>1. R[e] = {e} \cup R[g] \cup R[c]
    BY <1>p, <1>11, <1>13 DEF Linked
  <2> QED
    BY <1>p, <1>7, <1>12, <1>16, <2>1
<1>20. /\ Tree(t, R, c, B) /\ Tree(t, R, g, B) /\ Tree(t, R, d, B) /\ Tree(t, R, e, FALSE)
       /\ avl_height(t, c) = avl_height(q, c) /\ avl_height(t, g) = k /\ avl_height(t, d) = l
  BY <1>p, <1>11, <1>13, <1>14, <1>15, <1>16, <1>18, <1>19
<1>21. t[e][side] = c /\ t[e][other] = g
  BY <1>p, <1>2, <1>9, <1>11, <1>17
<1>22. avl_height(t, c) = Above(i, j)
  <2>1. avl_height(q, c) = q[c].height
    BY <1>p DEF avl_height
  <2> QED
    BY <1>p, <1>11, <1>20, <2>1
<1>23. R[n] = S[n]
  BY <1>p, <1>0, <1>9, <1>12
<1>24. Linked(t, R, n, side, other)
  <2>1. \A x \in S[n] : x \in 1 .. Len(m)
    BY <1>p, <1>7 DEF Tree
  <2>2. \A x \in 1 .. Len(m) : t[x].key = m[x].key
    BY <1>p, <1>12, <1>17
  <2>3. /\ \A x \in S[c] : Before(side, t[x].key, t[n].key)
        /\ \A x \in S[d] : Before(other, t[x].key, t[n].key)
    BY <1>p, <1>7, <2>1, <2>2
  <2>4. e \in 0 .. Len(t) /\ d \in 0 .. Len(t) /\ e \in R[e] /\ (d = Null \/ d \in R[d])
    BY <1>p, <1>0, <1>2, <1>7, <1>8, <1>12, <1>16, <1>17
  <2>5. R[e] = S[c] /\ R[d] = S[d] /\ R[n] = S[n]
    BY <1>p, <1>12, <1>16, <1>23
  <2>6. t[n][side] = e /\ t[n][other] = d
    BY <1>p, <1>17
  <2> QED
    BY <1>p, <1>7, <2>3, <2>4, <2>5, <2>6 DEF Linked
<1>25. Linked(t, R, e, side, other)
  <2>1. t \in Memory
    BY <1>p, <1>17
  <2> QED
    BY <1>p, <1>20, <2>1, PartTree
<1>26. Turnable(t, R, n, B, side, other)
  <2>1. n \in 1 .. Len(t)
    BY <1>p, <1>17
  <2> QED
    BY <1>p, <1>12, <1>17, <1>20, <1>21, <1>24, <1>25, <2>1 DEF Turnable
<1>27. ASSUME NEW x \in 1 .. Len(m)
       PROVE  /\ t[x].key = m[x].key /\ t[x].value = m[x].value
              /\ x \notin S[n] => t[x] = m[x]
  <2>1. CASE x = n
    BY <1>p, <2>1, <1>7, <1>17
  <2>2. CASE x # n
    <3>1. t[x] = q[x]
      BY <1>p, <2>2, <1>17
    <3>2. x \notin S[n] => x # c /\ x # e
      BY <1>p, <1>7, <1>8
    <3> QED
      BY <1>p, <3>1, <3>2, <1>12
  <2> QED
    BY <1>p, <2>1, <2>2
<1>28. \A x \in Nat : x \notin S[n] => R[x] = S[x]
  BY <1>p, <1>7, <1>8, <1>12
<1>29. InnerTurned(m, S, n, side, other, e, t, R)
  BY <1>e, <1>17, <1>20, <1>21, <1>22, <1>23, <1>27, <1>28 DEF InnerTurned
<1> QED
  BY <1>e, <1>5, <1>26, <1>29

\* Nodes that were rearranged after a step that kept them.
LEMMA ThenReshaped ==
  ASSUME NEW m, NEW S, NEW n, NEW B, NEW side, NEW other, NEW e, NEW t, NEW R,
         InnerTurned(m, S, n, side, other, e, t, R),
         NEW q, NEW T, NEW top, Reshaped(t, R, n, B, q, T, top)
  PROVE  Reshaped(m, S, n, B, q, T, top)
<1>1. /\ Len(t) = Len(m) /\ R[n] = S[n]
      /\ \A x \in 1 .. Len(m) :
           /\ t[x].key = m[x].key /\ t[x].value = m[x].value
           /\ x \notin S[n] => t[x] = m[x]
      /\ \A x \in Nat : x \notin S[n] => R[x] = S[x]
  BY DEF InnerTurned
<1>2. /\ q \in Memory /\ Len(q) = Len(t)
      /\ \A x \in 1 .. Len(t) :
           /\ q[x].key = t[x].key /\ q[x].value = t[x].value
           /\ x \notin R[n] => q[x] = t[x]
      /\ T \in Family /\ T[top] = R[n]
      /\ \A x \in Nat : x \notin R[n] => T[x] = R[x]
      /\ top # Null /\ Tree(q, T, top, B)
  BY DEF Reshaped
<1>3. /\ \A x \in 1 .. Len(m) :
           /\ q[x].key = m[x].key /\ q[x].value = m[x].value
           /\ x \notin S[n] => q[x] = m[x]
      /\ \A x \in Nat : x \notin S[n] => T[x] = S[x]
  BY <1>1, <1>2
<1> QED
  BY <1>1, <1>2, <1>3 DEF Reshaped

\* A double rotation rearranges the nodes below n, and makes a balanced tree
\* where the heights of the four subtrees are such.
LEMMA TurnTwice ==
  ASSUME NEW m, NEW S, NEW n, NEW B, NEW side, NEW other,
         TwiceTurnable(m, S, n, B, side, other), B => EvenTwice(m, n, side, other)
  PROVE  LET c == m[n][side]
             e == m[c][other]
         IN Rearranged(m, S, n, B, DoubleRotate(Rotate(m, c, other, side), n, side, other), e,
                       Above(Above(avl_height(m, m[e][side]), avl_height(m, m[c][side])),
                             Above(avl_height(m, m[e][other]), avl_height(m, m[n][other]))))
<1>e. PICK c, e, i, j, k, l, r, t :
        /\ c = m[n][side] /\ e = m[c][other]
        /\ i = avl_height(m, m[e][side]) /\ j = avl_height(m, m[c][side])
        /\ k = avl_height(m, m[e][other]) /\ l = avl_height(m, m[n][other])
        /\ r = DoubleRotate(Rotate(m, c, other, side), n, side, other)
        /\ t = Put(Rotate(m, c, other, side).mem, n, side, e)
  OBVIOUS
<1>b. B => /\ i <= j + 1 /\ j <= i + 1 /\ k <= l + 1 /\ l <= k + 1
           /\ Above(i, j) <= Above(k, l) + 1 /\ Above(k, l) <= Above(i, j) + 1
  BY <1>e DEF EvenTwice
<1>2. /\ ~ Rotate(m, c, other, side).crash /\ Rotate(m, c, other, side).top = e
      /\ \E R : Turnable(t, R, n, B, side, other) /\ InnerTurned(m, S, n, side, other, e, t, R)
  <2>1. B => /\ avl_height(m, m[e][side]) <= avl_height(m, m[c][side]) + 1
             /\ avl_height(m, m[c][side]) <= avl_height(m, m[e][side]) + 1
    BY <1>e, <1>b
  <2>2. B => /\ avl_height(m, m[m[m[n][side]][other]][side]) <= avl_height(m, m[m[n][side]][side]) + 1
             /\ avl_height(m, m[m[n][side]][side]) <= avl_height(m, m[m[m[n][side]][other]][side]) + 1
    BY <1>e, <2>1
  <2>3. LET C == m[n][side]
            D == m[C][other]
            T == Put(Rotate(m, C, other, side).mem, n, side, D)
         IN /\ ~ Rotate(m, C, other, side).crash /\ Rotate(m, C, other, side).top = D
            /\ \E R : /\ Turnable(T, R, n, B, side, other)
                      /\ InnerTurned(m, S, n, side, other, D, T, R)
    BY <2>2, InnerTurn
  <2> QED
    BY <1>e, <2>3
<1>3. PICK R : Turnable(t, R, n, B, side, other) /\ InnerTurned(m, S, n, side, other, e, t, R)
  BY <1>2
<1>4. r = Rotate(t, n, side, other)
  BY <1>e, <1>2 DEF DoubleRotate, Put
<1>5. /\ t[n][side] = e /\ avl_height(t, t[e][side]) = Above(i, j)
      /\ avl_height(t, t[e][other]) = k /\ avl_height(t, t[n][other]) = l
  BY <1>e, <1>3 DEF InnerTurned
<1>6. B => EvenOnce(t, n, side, other)
  BY <1>b, <1>5 DEF EvenOnce
<1>7. LET C == t[n][side]
      IN Rearranged(t, R, n, B, Rotate(t, n, side, other), C,
                    Above(avl_height(t, t[C][side]),
                          Above(avl_height(t, t[C][other]), avl_height(t, t[n][other]))))
  BY <1>3, <1>6, TurnOnce
<1>8. /\ ~ r.crash /\ r.top = e
      /\ avl_height(r.mem, e) = Above(Above(i, j), Above(k, l))
      /\ \E T : Reshaped(t, R, n, B, r.mem, T, e)
  BY <1>4, <1>5, <1>7 DEF Rearranged
<1>9. \E T : Reshaped(m, S, n, B, r.mem, T, e)
  BY <1>3, <1>8, ThenReshaped
<1> QED
  BY <1>e, <1>8, <1>9 DEF Rearranged

-----------------------------------------------------------------------------
(* Rebalancing.                                                            *)

\* The four cases of a rebalancing are two, told from either side, and where
\* it does nothing although the tree leans the key is that of the child.
LEMMA RebalanceCases ==
  ASSUME NEW m \in Memory, NEW n \in 1 .. Len(m), NEW key \in Nat,
         m[n].left \in 0 .. Len(m), m[n].right \in 0 .. Len(m)
  PROVE  \/ /\ Rebalance(m, n, key) = Kept(m, n)
            /\ \A side, other :
                 /\ Sides(side, other)
                 /\ avl_height(m, m[n][side]) > avl_height(m, m[n][other]) + 1
                 => key = m[m[n][side]].key
         \/ \E side, other :
              /\ Sides(side, other)
              /\ avl_height(m, m[n][side]) > avl_height(m, m[n][other]) + 1
              /\ \/ /\ Strictly(side, key, m[m[n][side]].key)
                    /\ Rebalance(m, n, key) = Rotate(m, n, side, other)
                 \/ /\ Strictly(other, key, m[m[n][side]].key)
                    /\ Rebalance(m, n, key) =
                         DoubleRotate(Rotate(m, m[n][side], other, side), n, side, other)
<1>1. PICK l, r, a, b, f, g, z :
        /\ l = m[n].left /\ r = m[n].right
        /\ a = avl_height(m, l) /\ b = avl_height(m, r)
        /\ f = m[l].key /\ g = m[r].key /\ z = Rebalance(m, n, key)
  OBVIOUS
<1>2. z = CASE a - b > 1 /\ key < f  -> Rotate(m, n, "left", "right")
            [] a - b < -1 /\ key > g -> Rotate(m, n, "right", "left")
            [] a - b > 1 /\ key > f  ->
                 DoubleRotate(Rotate(m, l, "right", "left"), n, "left", "right")
            [] a - b < -1 /\ key < g ->
                 DoubleRotate(Rotate(m, r, "left", "right"), n, "right", "left")
            [] OTHER -> Kept(m, n)
  BY <1>1 DEF Rebalance, avl_get_balance, avl_right_rotate, avl_left_rotate
<1>3. a \in Nat /\ b \in Nat /\ (l = Null => a = 0) /\ (r = Null => b = 0)
  BY <1>1, HeightType
<1>4. (a > b + 1 => f \in Nat) /\ (b > a + 1 => g \in Nat)
  <2>1. \A x \in 1 .. Len(m) : m[x].key \in Nat
    BY NodeFields
  <2>2. Len(m) \in Nat
    BY DEF Memory
  <2>3. (a > b + 1 => l \in 1 .. Len(m)) /\ (b > a + 1 => r \in 1 .. Len(m))
    BY <1>1, <1>3, <2>2 DEF Null
  <2> QED
    BY <1>1, <2>1, <2>3
<1>5. CASE a > b + 1
  <2>1. CASE key < f
    <3>1. z = Rotate(m, n, "left", "right")
      BY <1>2, <1>3, <1>4, <1>5, <2>1
    <3>2. Strictly("left", key, f) /\ Sides("left", "right")
      BY <2>1 DEF Strictly, Sides
    <3> QED
      BY <1>1, <1>5, <3>1, <3>2
  <2>2. CASE key > f
    <3>1. z = DoubleRotate(Rotate(m, l, "right", "left"), n, "left", "right")
      BY <1>2, <1>3, <1>4, <1>5, <2>2
    <3>2. Strictly("right", key, f) /\ Sides("left", "right")
      BY <2>2 DEF Strictly, Sides
    <3> QED
      BY <1>1, <1>5, <3>1, <3>2
  <2>3. CASE key = f
    <3>1. z = Kept(m, n)
      BY <1>2, <1>3, <1>4, <1>5, <2>3
    <3>2. ASSUME NEW side, NEW other, Sides(side, other),
                 avl_height(m, m[n][side]) > avl_height(m, m[n][other]) + 1
          PROVE  key = m[m[n][side]].key
      <4>1. side = "left"
        BY <1>1, <1>3, <1>5, <3>2 DEF Sides
      <4> QED
        BY <1>1, <2>3, <4>1
    <3> QED
      BY <1>1, <3>1, <3>2
  <2> QED
    BY <1>4, <1>5, <2>1, <2>2, <2>3
<1>6. CASE b > a + 1
  <2>1. CASE key > g
    <3>1. z = Rotate(m, n, "right", "left")
      BY <1>2, <1>3, <1>4, <1>6, <2>1
    <3>2. Strictly("right", key, g) /\ Sides("right", "left")
      BY <2>1 DEF Strictly, Sides
    <3> QED
      BY <1>1, <1>6, <3>1, <3>2
  <2>2. CASE key < g
    <3>1. z = DoubleRotate(Rotate(m, r, "left", "right"), n, "right", "left")
      BY <1>2, <1>3, <1>4, <1>6, <2>2
    <3>2. Strictly("left", key, g) /\ Sides("right", "left")
      BY <2>2 DEF Strictly, Sides
    <3> QED
      BY <1>1, <1>6, <3>1, <3>2
  <2>3. CASE key = g
    <3>1. z = Kept(m, n)
      BY <1>2, <1>3, <1>4, <1>6, <2>3
    <3>2. ASSUME NEW side, NEW other, Sides(side, other),
                 avl_height(m, m[n][side]) > avl_height(m, m[n][other]) + 1
          PROVE  key = m[m[n][side]].key
      <4>1. side = "right"
        BY <1>1, <1>3, <1>6, <3>2 DEF Sides
      <4> QED
        BY <1>1, <2>3, <4>1
    <3> QED
      BY <1>1, <3>1, <3>2
  <2> QED
    BY <1>4, <1>6, <2>1, <2>2, <2>3
<1>7. CASE ~ (a > b + 1) /\ ~ (b > a + 1)
  <2>1. z = Kept(m, n)
    BY <1>2, <1>3, <1>7
  <2>2. ASSUME NEW side, NEW other, Sides(side, other),
               avl_height(m, m[n][side]) > avl_height(m, m[n][other]) + 1
        PROVE  FALSE
    BY <1>1, <1>7, <2>2 DEF Sides
  <2> QED
    BY <1>1, <2>1, <2>2
<1> QED
  BY <1>5, <1>6, <1>7

\* A node over two trees, each on its side and the height right.
Topped(m, S, n, B) ==
  /\ m \in Memory /\ S \in Family /\ S[Null] = {} /\ n \in 1 .. Len(m)
  /\ Linked(m, S, n, "left", "right") /\ Tall(m, n, "left", "right")
  /\ Tree(m, S, m[n].left, B) /\ Tree(m, S, m[n].right, B)

\* What follows of it from either side.
LEMMA ToppedSides ==
  ASSUME NEW m, NEW S, NEW n, NEW B, Topped(m, S, n, B), NEW side, NEW other, Sides(side, other)
  PROVE  /\ m \in Memory /\ S \in Family /\ S[Null] = {} /\ n \in 1 .. Len(m)
         /\ Linked(m, S, n, side, other) /\ Tall(m, n, side, other)
         /\ Tree(m, S, m[n][side], B) /\ Tree(m, S, m[n][other], B)
         /\ avl_height(m, m[n][side]) \in Nat /\ avl_height(m, m[n][other]) \in Nat
         /\ m[n][side] = Null => avl_height(m, m[n][side]) = 0
<1>1. /\ m \in Memory /\ S \in Family /\ S[Null] = {} /\ n \in 1 .. Len(m)
      /\ Linked(m, S, n, "left", "right") /\ Tall(m, n, "left", "right")
      /\ Tree(m, S, m[n].left, B) /\ Tree(m, S, m[n].right, B)
  BY DEF Topped
<1>2. m[n]["left"] \in 0 .. Len(m) /\ m[n]["right"] \in 0 .. Len(m)
  BY <1>1 DEF Linked
<1>3. Linked(m, S, n, side, other) /\ Tall(m, n, side, other)
  BY <1>1, <1>2, EitherOrder
<1>4. Tree(m, S, m[n][side], B) /\ Tree(m, S, m[n][other], B)
  BY <1>1 DEF Sides
<1>5. /\ avl_height(m, m[n][side]) \in Nat /\ avl_height(m, m[n][other]) \in Nat
      /\ m[n][side] = Null => avl_height(m, m[n][side]) = 0
  <2>1. m[n][side] \in 0 .. Len(m) /\ m[n][other] \in 0 .. Len(m)
    BY <1>3 DEF Linked
  <2> QED
    BY <1>1, <2>1, HeightType
<1> QED
  BY <1>1, <1>3, <1>4, <1>5

\* Where it can be turned.
LEMMA ToppedTurns ==
  ASSUME NEW m, NEW S, NEW n, NEW B, Topped(m, S, n, B), NEW side, NEW other, Sides(side, other),
         m[n][side] # Null
  PROVE  /\ Turnable(m, S, n, B, side, other)
         /\ m[m[n][side]][other] # Null => TwiceTurnable(m, S, n, B, side, other)
<1>1. PICK c : c = m[n][side]
  OBVIOUS
<1>2. /\ m \in Memory /\ S \in Family /\ S[Null] = {} /\ n \in 1 .. Len(m)
      /\ Linked(m, S, n, side, other)
      /\ Tree(m, S, c, B) /\ Tree(m, S, m[n][other], B)
  BY <1>1, ToppedSides
<1>3. Linked(m, S, c, side, other) /\ Tree(m, S, m[c][side], B) /\ Tree(m, S, m[c][other], B)
  BY <1>1, <1>2, PartTree
<1> QED
  BY <1>1, <1>2, <1>3 DEF Turnable, TwiceTurnable

\* A rebalancing that does nothing.
LEMMA KeptReshapes ==
  ASSUME NEW m, NEW S, NEW n, NEW B, Topped(m, S, n, B), B => Even(m, n, "left", "right")
  PROVE  Reshaped(m, S, n, B, m, S, n)
<1>1. /\ m \in Memory /\ S \in Family /\ n \in 1 .. Len(m) /\ n # Null
      /\ Linked(m, S, n, "left", "right") /\ Tall(m, n, "left", "right")
      /\ Tree(m, S, m[n]["left"], B) /\ Tree(m, S, m[n]["right"], B)
      /\ Sides("left", "right")
  BY DEF Topped, Sides, Null
<1>2. Tree(m, S, n, B)
  BY <1>1, JoinTree
<1> QED
  BY <1>1, <1>2 DEF Reshaped

\* Whatever keys the tree holds, a rebalancing rearranges the nodes below,
\* unless it ends the program.
LEMMA RebalanceReshapes ==
  ASSUME NEW m, NEW S, NEW n, NEW key \in Nat, Topped(m, S, n, FALSE)
  PROVE  LET r == Rebalance(m, n, key)
         IN r.crash \/ \E R : Reshaped(m, S, n, FALSE, r.mem, R, r.top)
<1>1. PICK r : r = Rebalance(m, n, key)
  OBVIOUS
<1>2. /\ m \in Memory /\ n \in 1 .. Len(m)
      /\ m[n].left \in 0 .. Len(m) /\ m[n].right \in 0 .. Len(m)
  BY DEF Topped, Linked
<1>3. CASE r = Kept(m, n)
  <2>1. Reshaped(m, S, n, FALSE, m, S, n)
    BY KeptReshapes
  <2>2. r.mem = m /\ r.top = n
    BY <1>3 DEF Kept
  <2>3. Reshaped(m, S, n, FALSE, r.mem, S, r.top)
    BY <2>1, <2>2
  <2>4. \E R : Reshaped(m, S, n, FALSE, r.mem, R, r.top)
    BY <2>3
  <2> QED
    BY <1>1, <2>4
<1>4. ASSUME NEW side, NEW other, Sides(side, other),
             avl_height(m, m[n][side]) > avl_height(m, m[n][other]) + 1,
             \/ r = Rotate(m, n, side, other)
             \/ r = DoubleRotate(Rotate(m, m[n][side], other, side), n, side, other)
      PROVE  r.crash \/ \E R : Reshaped(m, S, n, FALSE, r.mem, R, r.top)
  <2>1. PICK c : c = m[n][side]
    OBVIOUS
  <2>2. c # Null
    <3>1. /\ avl_height(m, m[n][side]) \in Nat /\ avl_height(m, m[n][other]) \in Nat
          /\ m[n][side] = Null => avl_height(m, m[n][side]) = 0
      BY <1>4, ToppedSides
    <3> QED
      BY <1>4, <2>1, <3>1
  <2>3. Turnable(m, S, n, FALSE, side, other)
    BY <1>4, <2>1, <2>2, ToppedTurns
  <2>4. CASE r = Rotate(m, n, side, other)
    <3>1. \E h : Rearranged(m, S, n, FALSE, Rotate(m, n, side, other), c, h)
      BY <2>1, <2>3, TurnOnce
    <3> QED
      BY <2>4, <3>1 DEF Rearranged
  <2>5. CASE r = DoubleRotate(Rotate(m, c, other, side), n, side, other)
    <3>1. CASE m[c][other] = Null
      BY <2>5, <3>1 DEF DoubleRotate, Rotate, Kept
    <3>2. CASE m[c][other] # Null
      <4>1. TwiceTurnable(m, S, n, FALSE, side, other)
        BY <1>4, <2>1, <2>2, <3>2, ToppedTurns
      <4> QED
        <5>1. PICK e : e = m[c][other]
          OBVIOUS
        <5>2. \E h : Rearranged(m, S, n, FALSE,
                               DoubleRotate(Rotate(m, c, other, side), n, side, other), e, h)
          BY <2>1, <4>1, <5>1, TurnTwice
        <5> QED
          BY <2>5, <5>2 DEF Rearranged
    <3> QED
      BY <3>1, <3>2
  <2> QED
    BY <1>4, <2>1, <2>4, <2>5
<1>5. \/ r = Kept(m, n)
      \/ \E side, other :
           /\ Sides(side, other)
           /\ avl_height(m, m[n][side]) > avl_height(m, m[n][other]) + 1
           /\ \/ r = Rotate(m, n, side, other)
              \/ r = DoubleRotate(Rotate(m, m[n][side], other, side), n, side, other)
  BY <1>1, <1>2, RebalanceCases
<1> QED
  BY <1>1, <1>3, <1>4, <1>5

\* A balanced tree but for its root, below which the subtree with the new
\* key was of height a, and grew in the way an insertion makes it grow.
Growing(m, S, n, key, side, other, a) ==
  /\ Topped(m, S, n, TRUE) /\ Sides(side, other) /\ Strictly(side, key, m[n].key) /\ a \in Nat
  /\ a <= avl_height(m, m[n][other]) + 1 /\ avl_height(m, m[n][other]) <= a + 1
  /\ \/ avl_height(m, m[n][side]) = a
     \/ /\ avl_height(m, m[n][side]) = a + 1
        /\ a = 0 \/ Leaning(m, m[n][side], key)

\* What became a balanced tree of height h, or of one more on the key's side.
Regrown(m, S, n, key, r, h) ==
  /\ ~ r.crash
  /\ \E R : Reshaped(m, S, n, TRUE, r.mem, R, r.top)
  /\ \/ avl_height(r.mem, r.top) = h
     \/ avl_height(r.mem, r.top) = h + 1 /\ Leaning(r.mem, r.top, key)

\* A rebalancing makes a balanced tree of it, which grew in the same way.
LEMMA RebalanceBalances ==
  ASSUME NEW m, NEW S, NEW n, NEW key \in Nat, NEW side, NEW other, NEW a,
         Growing(m, S, n, key, side, other, a)
  PROVE  Regrown(m, S, n, key, Rebalance(m, n, key), Above(a, avl_height(m, m[n][other])))
<1>g. /\ Topped(m, S, n, TRUE) /\ Sides(side, other) /\ Strictly(side, key, m[n].key) /\ a \in Nat
      /\ a <= avl_height(m, m[n][other]) + 1 /\ avl_height(m, m[n][other]) <= a + 1
      /\ \/ avl_height(m, m[n][side]) = a
         \/ /\ avl_height(m, m[n][side]) = a + 1
            /\ a = 0 \/ Leaning(m, m[n][side], key)
  BY DEF Growing
<1> USE <1>g
<1>1. PICK r, c, d, i, k : /\ r = Rebalance(m, n, key) /\ c = m[n][side] /\ d = m[n][other]
                           /\ i = avl_height(m, c) /\ k = avl_height(m, d)
  OBVIOUS
<1>2. /\ m \in Memory /\ n \in 1 .. Len(m)
      /\ m[n].left \in 0 .. Len(m) /\ m[n].right \in 0 .. Len(m)
  BY DEF Topped, Linked
<1>3. /\ Linked(m, S, n, side, other) /\ Tall(m, n, side, other)
      /\ Tree(m, S, c, TRUE) /\ Tree(m, S, d, TRUE)
      /\ i \in Nat /\ k \in Nat /\ (c = Null => i = 0)
  BY <1>1, ToppedSides
<1>4. /\ a <= k + 1 /\ k <= a + 1
      /\ i = a \/ (i = a + 1 /\ (a = 0 \/ Leaning(m, c, key)))
  BY <1>1
<1>5. i > k + 1 => i = a + 1 /\ k = a - 1 /\ c # Null /\ Leaning(m, c, key)
  BY <1>3, <1>4
<1>6. i > k + 1 => c \in 1 .. Len(m) /\ m[c].key \in Nat
  <2>1. c \in 0 .. Len(m) /\ Len(m) \in Nat
    BY <1>1, <1>2, <1>3 DEF Linked, Memory
  <2>2. c # Null => c \in 1 .. Len(m)
    BY <2>1 DEF Null
  <2> QED
    BY <1>2, <1>5, <2>2, NodeFields
<1>7. \/ r = Kept(m, n) /\ Even(m, n, side, other)
      \/ /\ i > k + 1
         /\ \/ Strictly(side, key, m[c].key) /\ r = Rotate(m, n, side, other)
            \/ /\ Strictly(other, key, m[c].key)
               /\ r = DoubleRotate(Rotate(m, c, other, side), n, side, other)
  <2>1. CASE /\ r = Kept(m, n)
             /\ \A s, o : Sides(s, o) /\ avl_height(m, m[n][s]) > avl_height(m, m[n][o]) + 1
                           => key = m[m[n][s]].key
    <3>1. i > k + 1 => key = m[c].key
      BY <1>1, <2>1
    <3>2. i > k + 1 => key # m[c].key
      <4>1. ASSUME i > k + 1
            PROVE  key # m[c].key
        <5>1. PICK s, o : Strictly(s, key, m[c].key)
          BY <1>5, <4>1 DEF Leaning
        <5> QED
          BY <5>1, <1>6, <4>1 DEF Strictly
      <4> QED
        BY <4>1
    <3>3. Even(m, n, side, other)
      BY <3>1, <3>2, <1>1, <1>3, <1>4 DEF Even
    <3> QED
      BY <2>1, <3>3
  <2>2. CASE \E s, o : /\ Sides(s, o)
                       /\ avl_height(m, m[n][s]) > avl_height(m, m[n][o]) + 1
                       /\ \/ /\ Strictly(s, key, m[m[n][s]].key)
                             /\ r = Rotate(m, n, s, o)
                          \/ /\ Strictly(o, key, m[m[n][s]].key)
                             /\ r = DoubleRotate(Rotate(m, m[n][s], o, s), n, s, o)
    <3>1. PICK s, o : /\ Sides(s, o)
                      /\ avl_height(m, m[n][s]) > avl_height(m, m[n][o]) + 1
                      /\ \/ /\ Strictly(s, key, m[m[n][s]].key)
                            /\ r = Rotate(m, n, s, o)
                         \/ /\ Strictly(o, key, m[m[n][s]].key)
                            /\ r = DoubleRotate(Rotate(m, m[n][s], o, s), n, s, o)
      BY <2>2
    <3>2. s = side /\ o = other
      <4>1. ~ (k > i + 1)
        BY <1>3, <1>4
      <4>2. ~ (s = other /\ o = side)
        BY <1>1, <3>1, <4>1
      <4> QED
        BY <3>1, <4>2 DEF Sides
    <3> QED
      BY <1>1, <3>1, <3>2
  <2>3. \/ /\ r = Kept(m, n)
           /\ \A s, o : Sides(s, o) /\ avl_height(m, m[n][s]) > avl_height(m, m[n][o]) + 1
                           => key = m[m[n][s]].key
        \/ \E s, o : /\ Sides(s, o)
                     /\ avl_height(m, m[n][s]) > avl_height(m, m[n][o]) + 1
                     /\ \/ /\ Strictly(s, key, m[m[n][s]].key)
                           /\ r = Rotate(m, n, s, o)
                        \/ /\ Strictly(o, key, m[m[n][s]].key)
                           /\ r = DoubleRotate(Rotate(m, m[n][s], o, s), n, s, o)
    BY <1>1, <1>2, RebalanceCases
  <2> QED
    BY <2>1, <2>2, <2>3
<1> DEFINE h == Above(a, k)
           Goal == /\ ~ r.crash
                   /\ \E R : Reshaped(m, S, n, TRUE, r.mem, R, r.top)
                   /\ \/ avl_height(r.mem, r.top) = h
                      \/ avl_height(r.mem, r.top) = h + 1 /\ Leaning(r.mem, r.top, key)
<1> SUFFICES Goal
  BY <1>1 DEF Regrown
<1>8. CASE r = Kept(m, n) /\ Even(m, n, side, other)
  <2>1. Even(m, n, "left", "right")
    BY <1>2, <1>8, EitherOrder
  <2>2. Reshaped(m, S, n, TRUE, m, S, n)
    BY <2>1, KeptReshapes
  <2>3. avl_height(m, n) = Above(i, k)
    BY <1>1, <1>2, <1>3 DEF Tall, avl_height, Null
  <2>4. \/ Above(i, k) = h
        \/ Above(i, k) = h + 1 /\ i = k + 1
    BY <1>1, <1>3, <1>4, <1>8 DEF Even, Above
  <2>5. i = k + 1 => Leaning(m, n, key)
    BY <1>1 DEF Leaning
  <2>6. ~ r.crash /\ r.mem = m /\ r.top = n
    BY <1>8 DEF Kept
  <2>7. Reshaped(m, S, n, TRUE, r.mem, S, r.top)
    BY <2>2, <2>6
  <2>8. \/ avl_height(r.mem, r.top) = h
        \/ avl_height(r.mem, r.top) = h + 1 /\ Leaning(r.mem, r.top, key)
    BY <2>3, <2>4, <2>5, <2>6
  <2> QED
    BY <2>6, <2>7, <2>8
<1>9. ASSUME i > k + 1
      PROVE  /\ Turnable(m, S, n, TRUE, side, other)
             /\ \E s, o : /\ Sides(s, o) /\ Strictly(s, key, m[c].key)
                          /\ avl_height(m, m[c][s]) = a /\ avl_height(m, m[c][o]) = a - 1
                          /\ m[c][s] \in 0 .. Len(m)
             /\ h = a + 1
  <2>1. Turnable(m, S, n, TRUE, side, other)
    BY <1>1, <1>5, <1>9, ToppedTurns
  <2>2. PICK s, o : /\ Sides(s, o) /\ Strictly(s, key, m[c].key)
                    /\ avl_height(m, m[c][s]) = avl_height(m, m[c][o]) + 1
    BY <1>5, <1>9 DEF Leaning
  <2>3. Linked(m, S, c, s, o) /\ Tall(m, c, s, o)
    BY <1>2, <1>3, <1>5, <1>9, <2>2, PartTree
  <2>4. m[c][s] \in 0 .. Len(m) /\ m[c][o] \in 0 .. Len(m)
    BY <2>3 DEF Linked
  <2>5. avl_height(m, m[c][s]) \in Nat /\ avl_height(m, m[c][o]) \in Nat
    BY <1>2, <2>4, HeightType
  <2>6. i = Above(avl_height(m, m[c][s]), avl_height(m, m[c][o]))
    BY <1>1, <1>5, <1>9, <2>3 DEF Tall, avl_height
  <2>7. avl_height(m, m[c][s]) = a /\ avl_height(m, m[c][o]) = a - 1
    BY <1>5, <1>9, <2>2, <2>5, <2>6 DEF Above
  <2>8. h = a + 1
    BY <1>5, <1>9, <1>3 DEF Above
  <2> QED
    BY <2>1, <2>2, <2>4, <2>7, <2>8
<1>10. CASE i > k + 1 /\ Strictly(side, key, m[c].key) /\ r = Rotate(m, n, side, other)
  <2>1. PICK s, o : /\ Sides(s, o) /\ Strictly(s, key, m[c].key)
                    /\ avl_height(m, m[c][s]) = a /\ avl_height(m, m[c][o]) = a - 1
    BY <1>9, <1>10
  <2>2. s = side /\ o = other
    BY <1>6, <1>10, <2>1 DEF Strictly, Sides
  <2>3. EvenOnce(m, n, side, other)
    BY <1>1, <1>3, <1>5, <1>10, <2>1, <2>2 DEF EvenOnce, Above
  <2>4. Rearranged(m, S, n, TRUE, r, c, Above(a, Above(a - 1, k)))
    <3>1. LET C == m[n][side]
          IN Rearranged(m, S, n, TRUE, Rotate(m, n, side, other), C,
                        Above(avl_height(m, m[C][side]),
                              Above(avl_height(m, m[C][other]), avl_height(m, m[n][other]))))
      BY <1>9, <1>10, <2>3, TurnOnce
    <3> QED
      BY <1>1, <1>10, <2>1, <2>2, <3>1
  <2>5. Above(a, Above(a - 1, k)) = h
    BY <1>3, <1>5, <1>9, <1>10 DEF Above
  <2> QED
    BY <2>4, <2>5 DEF Rearranged
<1>11. CASE /\ i > k + 1 /\ Strictly(other, key, m[c].key)
            /\ r = DoubleRotate(Rotate(m, c, other, side), n, side, other)
  <2>1. PICK s, o : /\ Sides(s, o) /\ Strictly(s, key, m[c].key)
                    /\ avl_height(m, m[c][s]) = a /\ avl_height(m, m[c][o]) = a - 1
                    /\ m[c][s] \in 0 .. Len(m)
    BY <1>9, <1>11
  <2>2. s = other /\ o = side
    BY <1>6, <1>11, <2>1 DEF Strictly, Sides
  <2>3. PICK e : e = m[c][other]
    OBVIOUS
  <2>4. e # Null
    BY <1>2, <1>3, <1>5, <1>11, <2>1, <2>2, <2>3, HeightType
  <2>5. TwiceTurnable(m, S, n, TRUE, side, other)
    BY <1>1, <1>5, <1>11, <2>3, <2>4, ToppedTurns
  <2>6. Tree(m, S, e, TRUE)
    BY <1>2, <1>3, <1>5, <1>11, <2>3, PartTree
  <2>7. /\ Tall(m, e, side, other) /\ Even(m, e, side, other)
        /\ m[e][side] \in 0 .. Len(m) /\ m[e][other] \in 0 .. Len(m)
    BY <1>2, <2>4, <2>6, PartTree DEF Linked
  <2>8. PICK f, g : f = avl_height(m, m[e][side]) /\ g = avl_height(m, m[e][other])
    OBVIOUS
  <2>9. /\ f \in Nat /\ g \in Nat /\ f <= g + 1 /\ g <= f + 1 /\ a = Above(f, g)
    <3>1. f \in Nat /\ g \in Nat
      BY <1>2, <2>7, <2>8, HeightType
    <3>2. a = Above(f, g)
      BY <2>1, <2>2, <2>3, <2>4, <2>7, <2>8 DEF Tall, avl_height
    <3> QED
      BY <2>7, <2>8, <3>1, <3>2 DEF Even
  <2>10. Above(f, a - 1) = a /\ Above(g, k) = a /\ k = a - 1
    BY <1>5, <1>11, <2>9 DEF Above
  <2>11. EvenTwice(m, n, side, other)
    <3>1. avl_height(m, m[c][side]) = a - 1 /\ avl_height(m, m[n][other]) = k
      BY <1>1, <2>1, <2>2
    <3>2. /\ f <= a - 1 + 1 /\ a - 1 <= f + 1 /\ g <= k + 1 /\ k <= g + 1
          /\ Above(f, a - 1) <= Above(g, k) + 1 /\ Above(g, k) <= Above(f, a - 1) + 1
      BY <2>9, <2>10 DEF Above
    <3> QED
      BY <1>1, <2>3, <2>8, <3>1, <3>2 DEF EvenTwice
  <2>12. Rearranged(m, S, n, TRUE, r, e, Above(Above(f, a - 1), Above(g, k)))
    <3>1. LET C == m[n][side]
              E == m[C][other]
          IN Rearranged(m, S, n, TRUE, DoubleRotate(Rotate(m, C, other, side), n, side, other), E,
                        Above(Above(avl_height(m, m[E][side]), avl_height(m, m[C][side])),
                              Above(avl_height(m, m[E][other]), avl_height(m, m[n][other]))))
      BY <2>5, <2>11, TurnTwice
    <3> QED
      BY <1>1, <1>11, <2>1, <2>2, <2>3, <2>8, <3>1
  <2>13. Above(Above(f, a - 1), Above(g, k)) = h
    <3>1. Above(a, a) = a + 1
      BY DEF Above
    <3> QED
      BY <1>9, <1>11, <2>10, <3>1
  <2> QED
    BY <2>12, <2>13 DEF Rearranged
<1> QED
  BY <1>7, <1>8, <1>10, <1>11

-----------------------------------------------------------------------------
(* Recursion down the tree.                                                *)

\* A set of numbers that is not empty has a least one.
LEMMA NatMinimum ==
  ASSUME NEW U, U \subseteq Nat, U # {}
  PROVE \E n \in U : \A m \in U : n <= m
<1> DEFINE V == {1 .. n : n \in U}
<1>1. IsWellFoundedOn(StrictSubsetOrdering(Nat), FiniteSubsetsOf(Nat))
  BY FS_StrictSubsetOrderingWellFounded
<1>2. \A n \in U : IsFiniteSet(1 .. n) /\ 1 .. n \in SUBSET Nat
  BY FS_Interval
<1>3. V \subseteq FiniteSubsetsOf(Nat) /\ V # {}
  BY <1>2 DEF FiniteSubsetsOf
<1>4. PICK x \in V : \A y \in V : ~ (<<y, x>> \in StrictSubsetOrdering(Nat))
  BY <1>1, <1>3, WFMin
<1>5. PICK n \in U : x = 1 .. n
  OBVIOUS
<1>6. ASSUME NEW m \in U, m < n PROVE FALSE
  <2>1. 1 .. m \in V /\ 1 .. m \subseteq 1 .. n /\ n \in 1 .. n /\ n \notin 1 .. m
    BY <1>6
  <2>2. <<1 .. m, 1 .. n>> \in StrictSubsetOrdering(Nat)
    BY <2>1, <1>2 DEF StrictSubsetOrdering
  <2> QED BY <1>4, <1>5, <2>1, <2>2
<1> QED
  BY <1>6

\* Finitely many numbers have a bound.
LEMMA BoundedHeights ==
  ASSUME NEW n \in Nat, NEW h \in [0 .. n -> Nat]
  PROVE  \E b \in Nat : \A x \in 0 .. n : h[x] <= b
<1> DEFINE Wrong == {i \in 0 .. n : ~ \E b \in Nat : \A x \in 0 .. i : h[x] <= b}
<1>1. CASE Wrong = {}
  <2>1. n \in 0 .. n
    OBVIOUS
  <2> QED
    BY <1>1, <2>1
<1>2. CASE Wrong # {}
  <2>1. Wrong \subseteq Nat
    OBVIOUS
  <2>2. PICK i \in Wrong : \A j \in Wrong : i <= j
    <3> HIDE DEF Wrong
    <3> QED
      BY <1>2, <2>1, NatMinimum
  <2>3. CASE i = 0
    <3>1. \A x \in 0 .. i : h[x] <= h[0]
      BY <2>3
    <3>2. h[0] \in Nat
      OBVIOUS
    <3> QED
      BY <2>2, <3>1, <3>2
  <2>4. CASE i # 0
    <3>1. i - 1 \in 0 .. n /\ i - 1 \notin Wrong
      <4>1. i \in 0 .. n
        BY <2>2
      <4>2. i - 1 \in 0 .. n /\ ~ (i <= i - 1)
        BY <2>4, <4>1
      <4> HIDE DEF Wrong
      <4> QED
        BY <2>2, <4>2
    <3>2. PICK b \in Nat : \A x \in 0 .. i - 1 : h[x] <= b
      BY <3>1
    <3>3. PICK c \in Nat : c = b + h[i]
      <4>1. h[i] \in Nat
        BY <2>2
      <4> QED
        BY <4>1
    <3>4. ASSUME NEW x \in 0 .. i
          PROVE  h[x] <= c
      <4>1. CASE x = i
        BY <4>1, <2>2, <3>3
      <4>2. CASE x # i
        <5>1. x \in 0 .. i - 1
          BY <4>2, <2>2
        <5>2. h[x] <= b /\ h[x] \in Nat /\ h[i] \in Nat
          BY <3>2, <5>1, <2>2
        <5> QED
          BY <3>3, <5>2
      <4> QED
        BY <4>1, <4>2
    <3> QED
      BY <2>2, <3>4
  <2> QED
    BY <2>3, <2>4
<1> QED
  BY <1>1, <1>2

\* The children l and r of nodes 1 to n have lower ranks than they.
Descends(n, h, l, r) ==
  /\ n \in Nat /\ h \in [0 .. n -> Nat]
  /\ l \in [1 .. n -> 0 .. n] /\ r \in [1 .. n -> 0 .. n]
  /\ \A x \in 1 .. n : h[l[x]] < h[x] /\ h[r[x]] < h[x]

\* What f says of a node is what F makes of what it says of the children.
Recurs(n, l, r, V, z, F, f) ==
  /\ f \in [0 .. n -> V] /\ f[0] = z
  /\ \A x \in 1 .. n : f[x] = F[x][f[l[x]]][f[r[x]]]

Combines(n, V, z, F) == z \in V /\ F \in [1 .. n -> [V -> [V -> V]]]

\* What is said of a node from what is said of its two children is said of
\* every node, where the children are lower.
LEMMA TreeRecursion ==
  ASSUME NEW n, NEW h, NEW l, NEW r, Descends(n, h, l, r),
         NEW V, NEW z, NEW F, Combines(n, V, z, F)
  PROVE  \E f : Recurs(n, l, r, V, z, F, f)
<1>0. SUFFICES ASSUME n \in Nat, h \in [0 .. n -> Nat],
                      l \in [1 .. n -> 0 .. n], r \in [1 .. n -> 0 .. n],
                      \A x \in 1 .. n : h[l[x]] < h[x] /\ h[r[x]] < h[x],
                      z \in V, F \in [1 .. n -> [V -> [V -> V]]]
               PROVE  \E f \in [0 .. n -> V] :
                        /\ f[0] = z
                        /\ \A x \in 1 .. n : f[x] = F[x][f[l[x]]][f[r[x]]]
  BY DEF Descends, Combines, Recurs
<1> USE <1>0
<1> DEFINE Good(f, k) == \A x \in 0 .. n : h[x] <= k =>
                           f[x] = IF x = 0 THEN z ELSE F[x][f[l[x]]][f[r[x]]]
           Wrong == {k \in Nat : ~ \E f \in [0 .. n -> V] : Good(f, k)}
<1>1. PICK b \in Nat : \A x \in 0 .. n : h[x] <= b
  BY BoundedHeights
<1>2. CASE b \notin Wrong
  <2>1. PICK f \in [0 .. n -> V] : Good(f, b)
    BY <1>2
  <2>2. f[0] = z
    BY <1>1, <2>1
  <2>3. \A x \in 1 .. n : f[x] = F[x][f[l[x]]][f[r[x]]]
    BY <1>1, <2>1
  <2> QED
    BY <2>2, <2>3
<1>3. CASE b \in Wrong
  <2>1. Wrong \subseteq Nat /\ Wrong # {}
    BY <1>3
  <2>2. PICK k \in Wrong : \A j \in Wrong : k <= j
    <3> HIDE DEF Wrong
    <3> QED
      BY <2>1, NatMinimum
  <2>3. \A x \in 1 .. n : h[x] \in Nat /\ h[x] # 0
    <3>1. ASSUME NEW x \in 1 .. n
          PROVE  h[x] \in Nat /\ h[x] # 0
      <4>1. l[x] \in 0 .. n /\ h[l[x]] < h[x]
        OBVIOUS
      <4>2. h[l[x]] \in Nat /\ h[x] \in Nat
        BY <4>1
      <4> QED
        BY <4>1, <4>2
    <3> QED
      BY <3>1
  <2>4. CASE k = 0
    <3>1. PICK f \in [0 .. n -> V] : f = [x \in 0 .. n |-> z]
      OBVIOUS
    <3>2. Good(f, 0)
      <4>1. ASSUME NEW x \in 0 .. n, h[x] <= 0
            PROVE  x = 0
        BY <4>1, <2>3
      <4> QED
        BY <3>1, <4>1
    <3> QED
      BY <2>2, <2>4, <3>2
  <2>5. CASE k # 0
    <3>1. PICK j \in Nat : j + 1 = k
      <4>1. k - 1 \in Nat /\ (k - 1) + 1 = k
        BY <2>2, <2>5
      <4> QED
        BY <4>1
    <3>2. j \notin Wrong
      <4>1. ~ (k <= j)
        BY <3>1
      <4> HIDE DEF Wrong
      <4> QED
        BY <2>2, <4>1
    <3>3. PICK f \in [0 .. n -> V] : Good(f, j)
      BY <3>2
    <3>4. PICK g : g = [x \in 0 .. n |-> IF x = 0 THEN z ELSE F[x][f[l[x]]][f[r[x]]]]
      OBVIOUS
    <3>5. g \in [0 .. n -> V]
      <4>1. \A x \in 1 .. n : F[x][f[l[x]]][f[r[x]]] \in V
        OBVIOUS
      <4> QED
        BY <3>4, <4>1, SMTT(20)
    <3>6. \A x \in 0 .. n : h[x] <= j => g[x] = f[x]
      BY <3>3, <3>4
    <3>7. Good(g, k)
      <4>1. SUFFICES ASSUME NEW x \in 0 .. n, h[x] <= k
                     PROVE  g[x] = IF x = 0 THEN z ELSE F[x][g[l[x]]][g[r[x]]]
        OBVIOUS
      <4>2. CASE x = 0
        BY <3>4, <4>2
      <4>3. CASE x # 0
        <5>1. x \in 1 .. n
          BY <4>3
        <5>2. /\ l[x] \in 0 .. n /\ r[x] \in 0 .. n
              /\ h[l[x]] < h[x] /\ h[r[x]] < h[x]
          BY <5>1
        <5>3. h[l[x]] \in Nat /\ h[r[x]] \in Nat /\ h[x] \in Nat
          BY <5>2
        <5>4. h[l[x]] <= j /\ h[r[x]] <= j
          <6>1. PICK u, v, w : u = h[l[x]] /\ v = h[r[x]] /\ w = h[x]
            OBVIOUS
          <6>2. u \in Nat /\ v \in Nat /\ w \in Nat /\ u < w /\ v < w /\ w <= j + 1
            BY <3>1, <4>1, <5>2, <5>3, <6>1
          <6>3. u <= j /\ v <= j
            BY <6>2
          <6> QED
            BY <6>1, <6>3
        <5>5. g[l[x]] = f[l[x]] /\ g[r[x]] = f[r[x]]
          BY <3>6, <5>2, <5>4
        <5>6. g[x] = F[x][f[l[x]]][f[r[x]]]
          BY <3>4, <4>3
        <5> QED
          BY <4>3, <5>5, <5>6
      <4> QED
        BY <4>2, <4>3
    <3> QED
      BY <2>2, <3>5, <3>7
  <2> QED
    BY <2>4, <2>5
<1> QED
  BY <1>2, <1>3

\* Every node's children are nodes that are lower than it.
Ranked(m) ==
  \A x \in 1 .. Len(m) :
    /\ m[x].left \in 0 .. Len(m) /\ m[x].right \in 0 .. Len(m)
    /\ avl_height(m, m[x].left) < avl_height(m, x)
    /\ avl_height(m, m[x].right) < avl_height(m, x)

\* The nodes of a tree are.
LEMMA TreeRanked ==
  ASSUME NEW m \in Memory, NEW S, NEW n, NEW B, Tree(m, S, n, B), S[n] = 1 .. Len(m)
  PROVE  Ranked(m)
<1>1. SUFFICES ASSUME NEW x \in 1 .. Len(m)
               PROVE  /\ m[x].left \in 0 .. Len(m) /\ m[x].right \in 0 .. Len(m)
                      /\ avl_height(m, m[x].left) < avl_height(m, x)
                      /\ avl_height(m, m[x].right) < avl_height(m, x)
  BY DEF Ranked
<1>2. Linked(m, S, x, "left", "right") /\ Tall(m, x, "left", "right")
  BY DEF Tree
<1>3. m[x].left \in 0 .. Len(m) /\ m[x].right \in 0 .. Len(m)
  BY <1>2 DEF Linked
<1>4. avl_height(m, m[x].left) \in Nat /\ avl_height(m, m[x].right) \in Nat
  BY <1>3, HeightType
<1>5. avl_height(m, x) = Above(avl_height(m, m[x].left), avl_height(m, m[x].right))
  BY <1>2 DEF Tall, avl_height, Null
<1> QED
  BY <1>3, <1>4, <1>5 DEF Above

-----------------------------------------------------------------------------
(* An insertion.                                                           *)

Side(m, n, key) == IF key < m[n].key THEN "left" ELSE "right"

Across(m, n, key) == IF key < m[n].key THEN "right" ELSE "left"

\* One node was added below n, where top is now, and no other was written.
Grown(m, S, n, q, R, top, key, value) ==
  LET new == Len(m) + 1 IN
  /\ q \in Memory /\ Len(q) = new
  /\ \A x \in 1 .. Len(m) :
       /\ q[x].key = m[x].key /\ q[x].value = m[x].value
       /\ x \notin S[n] => q[x] = m[x]
  /\ q[new].key = key /\ q[new].value = value
  /\ R \in Family /\ R[top] = S[n] \cup {new}
  /\ \A x \in Nat : x \notin S[n] /\ x # new => R[x] = S[x]

\* What avl_insert gives for the tree at n.  A tree that is balanced stays
\* balanced, and it grows by one level at most, on the side of the new key.
Inserted(m, S, n, B, key, value, r) ==
  /\ B => ~ r.crash
  /\ r.crash \/ \E R : Grown(m, S, n, r.mem, R, r.top, key, value) /\ Tree(r.mem, R, r.top, B)
                       /\ r.top # Null
  /\ B => \/ avl_height(r.mem, r.top) = avl_height(m, n)
          \/ /\ avl_height(r.mem, r.top) = avl_height(m, n) + 1
             /\ n = Null \/ Leaning(r.mem, r.top, key)

\* A tree's root after an insertion below it, before it is rebalanced.
Raised(m, S, n, key, t, R, q, top, B) ==
  LET side == Side(m, n, key)
      other == Across(m, n, key)
  IN /\ Topped(t, R, n, B)
     /\ t[n].key = m[n].key
     /\ avl_height(t, t[n][side]) = avl_height(q, top)
     /\ avl_height(t, t[n][other]) = avl_height(m, m[n][other])
     /\ Leaning(q, top, key) => Leaning(t, t[n][side], key)

\* What avl_insert does to n after the insertion below it.
Link(m, n, key, below) ==
  Heighten([below.mem EXCEPT ![n][Side(m, n, key)] = below.top], n)

\* What an insertion below n makes of it is a growing tree again.
LEMMA RaisedByInsertion ==
  ASSUME NEW m \in Memory, NEW S \in Family, NEW n, NEW B, Tree(m, S, n, B), n # Null,
         NEW key \in Nat, NEW value \in Nat, NEW q, NEW R, NEW top, top # Null,
         Grown(m, S, m[n][Side(m, n, key)], q, R, top, key, value), Tree(q, R, top, B),
         NEW t, t = Heighten(Put(q, n, Side(m, n, key), top), n)
  PROVE  \E T : Grown(m, S, n, t, T, n, key, value) /\ Raised(m, S, n, key, t, T, q, top, B)
<1>1. PICK side, other, c, d, new, L :
        /\ side = Side(m, n, key) /\ other = Across(m, n, key)
        /\ c = m[n][side] /\ d = m[n][other] /\ L = Len(m) /\ new = L + 1
  OBVIOUS
<1>2. Sides(side, other) /\ L \in Nat /\ new \in Nat /\ new \notin 0 .. L /\ Sides("left", "right")
  BY <1>1 DEF Side, Across, Sides, Memory
<1>3. /\ n \in 1 .. L /\ Linked(m, S, n, side, other) /\ S[Null] = {}
      /\ Tree(m, S, c, B) /\ Tree(m, S, d, B)
  <2>1. /\ n \in 1 .. Len(m) /\ Linked(m, S, n, side, other)
        /\ Tree(m, S, m[n][side], B) /\ Tree(m, S, m[n][other], B)
    BY <1>2, PartTree
  <2>2. S[Null] = {}
    BY DEF Tree
  <2> QED
    BY <1>1, <2>1, <2>2
<1>4. /\ c \in 0 .. L /\ d \in 0 .. L /\ (d = Null \/ d \in S[d])
      /\ S[n] = {n} \cup S[c] \cup S[d]
      /\ n \notin S[c] /\ n \notin S[d] /\ S[c] \cap S[d] = {}
      /\ \A x \in S[c] : Before(side, m[x].key, m[n].key)
      /\ \A x \in S[d] : Before(other, m[x].key, m[n].key)
  BY <1>1, <1>3 DEF Linked
<1>5. /\ q \in Memory /\ Len(q) = new
      /\ \A x \in 1 .. L :
           /\ q[x].key = m[x].key /\ q[x].value = m[x].value
           /\ x \notin S[c] => q[x] = m[x]
      /\ q[new].key = key /\ q[new].value = value
      /\ R \in Family /\ R[top] = S[c] \cup {new}
      /\ \A x \in Nat : x \notin S[c] /\ x # new => R[x] = S[x]
  BY <1>1 DEF Grown
<1>6. S[c] \subseteq 1 .. L /\ S[d] \subseteq 1 .. L
  BY <1>1, <1>3 DEF Tree
<1>7. /\ top \in 1 .. new /\ top \in R[top] /\ top # n /\ n # new /\ n \in Nat /\ n \in 1 .. new
      /\ n \in 0 .. L /\ Null \in Nat
  <2>1. top \in 0 .. new /\ top \in R[top]
    BY <1>5 DEF Tree
  <2>2. n # new /\ n \in Nat /\ n \in 1 .. new /\ n \in 0 .. L
    BY <1>2, <1>1, <1>3
  <2>3. top # n
    BY <1>4, <1>5, <2>1, <2>2
  <2>4. top \in 1 .. new
    BY <1>2, <2>1 DEF Null
  <2> QED
    BY <2>1, <2>2, <2>3, <2>4 DEF Null
<1>8. PICK u : u = Put(q, n, side, top)
  OBVIOUS
<1>9. /\ u \in Memory /\ Len(u) = new
      /\ u[n][side] = top /\ u[n][other] = d
      /\ u[n].key = m[n].key /\ u[n].value = m[n].value
      /\ \A x \in 1 .. new : x # n => u[x] = q[x]
  <2>1. n \in 1 .. Len(q) /\ top \in Nat
    BY <1>2, <1>5, <1>7
  <2>2. /\ u \in Memory /\ Len(u) = Len(q)
        /\ u[n][side] = top /\ u[n][other] = q[n][other]
        /\ u[n].key = q[n].key /\ u[n].value = q[n].value
        /\ \A x \in 1 .. Len(q) : x # n => u[x] = q[x]
    BY <1>2, <1>5, <1>8, <2>1, PutLink
  <2>3. q[n] = m[n]
    BY <1>3, <1>4, <1>5
  <2> QED
    BY <1>1, <1>5, <2>2, <2>3
<1>10. t = Heighten(u, n)
  BY <1>1, <1>8
<1>11. d \in 0 .. new /\ top \in 0 .. new /\ d # n
  BY <1>2, <1>1, <1>4, <1>7 DEF Null
<1>12. /\ t \in Memory /\ Len(t) = new
       /\ t[n][side] = top /\ t[n][other] = d
       /\ t[n].key = m[n].key /\ t[n].value = m[n].value
       /\ t[n].height = Above(avl_height(u, top), avl_height(u, d))
       /\ \A x \in 1 .. new : x # n => t[x] = q[x]
  <2>1. Heightens(u, n, side, other, t)
    BY <1>2, <1>7, <1>9, <1>10, <1>11 DEF Heightens
  <2>2. Heightened(u, n, side, other, t)
    BY <2>1, HeightenWrites
  <2> QED
    BY <1>9, <2>2 DEF Heightened
<1>13. PICK T \in Family : T[n] = S[n] \cup {new} /\ \A x \in Nat : x # n => T[x] = R[x]
  <2>1. S[n] \cup {new} \in SUBSET Nat
    BY <1>2, <1>7 DEF Family
  <2>2. PICK T : T = [x \in Nat |-> IF x = n THEN S[n] \cup {new} ELSE R[x]]
    OBVIOUS
  <2>3. T \in Family
    BY <1>5, <2>1, <2>2 DEF Family
  <2> QED
    BY <1>7, <2>2, <2>3
<1>14. T[Null] = {}
  <2>1. Null # n /\ Null # new /\ Null \notin S[c]
    BY <1>2, <1>1, <1>3, <1>6 DEF Null
  <2> QED
    BY <1>3, <1>5, <1>7, <1>13, <2>1
<1>15. Tree(t, T, top, B) /\ T[top] = S[c] \cup {new} /\ avl_height(t, top) = avl_height(q, top)
  <2>1. \A x \in R[top] : x \in Nat /\ x \in 1 .. new /\ x # n
    BY <1>2, <1>1, <1>4, <1>5, <1>6, <1>7, SMTT(20)
  <2>2. \A x \in R[top] : t[x] = q[x] /\ T[x] = R[x]
    BY <1>12, <1>13, <2>1
  <2>3. Framed(q, R, top, t, T)
    <3>1. Len(q) <= Len(t)
      BY <1>2, <1>5, <1>12
    <3> QED
      BY <1>5, <1>12, <1>14, <2>2, <3>1 DEF Framed
  <2>4. Tree(t, T, top, B) /\ T[top] = R[top] /\ avl_height(t, top) = avl_height(q, top)
    BY <2>3, FrameTree
  <2> QED
    BY <1>5, <2>4
<1>16. Tree(t, T, d, B) /\ T[d] = S[d] /\ avl_height(t, d) = avl_height(m, d)
  <2>1. ASSUME NEW x \in S[d]
        PROVE  t[x] = m[x] /\ T[x] = S[x]
    <3>1. x \in Nat /\ x \in 1 .. L /\ x \in 1 .. new /\ x # new /\ x # n /\ x \notin S[c]
      BY <1>2, <1>1, <1>4, <1>6
    <3> QED
      BY <1>5, <1>12, <1>13, <3>1
  <2>2. Framed(m, S, d, t, T)
    <3>1. Len(m) <= Len(t)
      BY <1>1, <1>2, <1>12
    <3> QED
      BY <1>12, <1>14, <2>1, <3>1 DEF Framed
  <2> QED
    BY <1>3, <2>2, FrameTree
<1>17. avl_height(u, top) = avl_height(t, top) /\ avl_height(u, d) = avl_height(t, d)
  <2>1. ASSUME NEW x \in 0 .. new, x # n
        PROVE  avl_height(u, x) = avl_height(t, x)
    <3>1. CASE x = Null
      BY <3>1 DEF avl_height
    <3>2. CASE x # Null
      <4>1. x \in 1 .. new
        BY <1>2, <3>2 DEF Null
      <4> QED
        BY <1>9, <1>12, <2>1, <4>1 DEF avl_height
    <3> QED
      BY <3>1, <3>2
  <2> QED
    BY <1>7, <1>11, <2>1
<1>18. Linked(t, T, n, side, other)
  <2>1. \A x \in 1 .. L : t[x].key = m[x].key
    <3>1. ASSUME NEW x \in 1 .. L
          PROVE  t[x].key = m[x].key
      <4>1. x \in 1 .. new
        BY <1>1, <1>2
      <4> QED
        BY <1>5, <1>12, <4>1
    <3> QED
      BY <3>1
  <2>2. t[new].key = key
    BY <1>2, <1>1, <1>5, <1>7, <1>12
  <2>3. Before(side, key, m[n].key)
    <3>1. m[n].key \in Nat
      BY <1>1, <1>3, NodeFields
    <3> QED
      BY <1>1, <3>1 DEF Before, Side
  <2>4. \A x \in T[top] : Before(side, t[x].key, t[n].key)
    BY <1>4, <1>6, <1>12, <1>15, <2>1, <2>2, <2>3
  <2>5. \A x \in T[d] : Before(other, t[x].key, t[n].key)
    BY <1>4, <1>6, <1>12, <1>16, <2>1
  <2>6. T[n] = {n} \cup T[top] \cup T[d]
    BY <1>4, <1>13, <1>15, <1>16
  <2>7. n \notin T[top] /\ n \notin T[d] /\ T[top] \cap T[d] = {}
    <3>1. new \notin S[d]
      BY <1>2, <1>1, <1>6
    <3> QED
      BY <1>4, <1>7, <1>15, <1>16, <3>1
  <2>8. top \in T[top] /\ (d = Null \/ d \in T[d])
    BY <1>4, <1>5, <1>7, <1>15, <1>16
  <2>9. top \in 0 .. Len(t) /\ d \in 0 .. Len(t)
    BY <1>11, <1>12
  <2>10. t[n][side] = top /\ t[n][other] = d
    BY <1>12
  <2> QED
    BY <2>4, <2>5, <2>6, <2>7, <2>8, <2>9, <2>10 DEF Linked
<1>19. Tall(t, n, side, other)
  BY <1>12, <1>17 DEF Tall
<1>20. Topped(t, T, n, B)
  <2>1. n \in 1 .. Len(t)
    BY <1>7, <1>12
  <2>2. Linked(t, T, n, "left", "right")
    BY <1>2, <1>12, <1>18, <2>1, EitherOrder
  <2>3. Tall(t, n, "left", "right")
    <3>1. t[n]["left"] \in 0 .. Len(t) /\ t[n]["right"] \in 0 .. Len(t)
      BY <2>2 DEF Linked
    <3> QED
      BY <1>2, <1>12, <1>19, <2>1, <3>1, EitherOrder
  <2>4. Tree(t, T, t[n].left, B) /\ Tree(t, T, t[n].right, B)
    BY <1>2, <1>12, <1>15, <1>16 DEF Sides
  <2> QED
    BY <1>12, <1>13, <1>14, <2>1, <2>2, <2>3, <2>4 DEF Topped
<1>21. Leaning(q, top, key) => Leaning(t, top, key)
  <2>1. SUFFICES ASSUME Leaning(q, top, key) PROVE Leaning(t, top, key)
    OBVIOUS
  <2>2. PICK s, o : /\ Sides(s, o) /\ Strictly(s, key, q[top].key)
                    /\ avl_height(q, q[top][s]) = avl_height(q, q[top][o]) + 1
    BY <2>1 DEF Leaning
  <2>3. t[top] = q[top]
    BY <1>7, <1>12
  <2>4. Linked(q, R, top, s, o)
    BY <1>5, <2>2, PartTree
  <2>5. ASSUME NEW x, x = q[top][s] \/ x = q[top][o]
        PROVE  avl_height(t, x) = avl_height(q, x)
    <3>1. x \in 0 .. Len(q) /\ (x = Null \/ x \in R[x]) /\ R[x] \subseteq R[top]
      BY <2>4, <2>5 DEF Linked
    <3>2. CASE x = Null
      BY <3>2 DEF avl_height
    <3>3. CASE x # Null
      <4>1. x \in R[top] /\ x \in 1 .. new
        BY <1>2, <1>5, <3>1, <3>3 DEF Null
      <4>2. x # n
        BY <1>4, <1>5, <1>7, <4>1
      <4> QED
        BY <1>12, <3>3, <4>1, <4>2 DEF avl_height
    <3> QED
      BY <3>2, <3>3
  <2> QED
    BY <2>2, <2>3, <2>5 DEF Leaning
<1>22. Raised(m, S, n, key, t, T, q, top, B)
  BY <1>1, <1>12, <1>15, <1>16, <1>20, <1>21 DEF Raised
<1>23. Grown(m, S, n, t, T, n, key, value)
  <2>1. ASSUME NEW x \in 1 .. L
        PROVE  /\ t[x].key = m[x].key /\ t[x].value = m[x].value
               /\ x \notin S[n] => t[x] = m[x]
    <3>1. x \in 1 .. new
      BY <1>1, <1>2
    <3>2. CASE x = n
      BY <3>2, <1>4, <1>12
    <3>3. CASE x # n
      <4>1. t[x] = q[x]
        BY <1>12, <3>1, <3>3
      <4> QED
        BY <1>4, <1>5, <4>1
    <3> QED
      BY <3>2, <3>3
  <2>2. t[new].key = key /\ t[new].value = value
    BY <1>2, <1>1, <1>5, <1>7, <1>12
  <2>3. \A x \in Nat : x \notin S[n] /\ x # new => T[x] = S[x]
    BY <1>4, <1>5, <1>13
  <2> QED
    BY <1>1, <1>12, <1>13, <2>1, <2>2, <2>3 DEF Grown
<1> QED
  BY <1>22, <1>23

\* What was added below n stays so when the nodes below are rearranged.
LEMMA GrownReshaped ==
  ASSUME NEW m \in Memory, NEW S, NEW n, NEW t, NEW T, NEW key, NEW value, NEW B,
         Grown(m, S, n, t, T, n, key, value), NEW q, NEW R, NEW top, Reshaped(t, T, n, B, q, R, top)
  PROVE  Grown(m, S, n, q, R, top, key, value) /\ Tree(q, R, top, B) /\ top # Null
<1>1. PICK L, new : L = Len(m) /\ new = L + 1
  OBVIOUS
<1>2. L \in Nat
  BY <1>1 DEF Memory
<1>3. /\ Len(t) = new
      /\ \A x \in 1 .. L :
           /\ t[x].key = m[x].key /\ t[x].value = m[x].value
           /\ x \notin S[n] => t[x] = m[x]
      /\ t[new].key = key /\ t[new].value = value
      /\ T[n] = S[n] \cup {new}
      /\ \A x \in Nat : x \notin S[n] /\ x # new => T[x] = S[x]
  BY <1>1 DEF Grown
<1>4. /\ q \in Memory /\ Len(q) = new
      /\ \A x \in 1 .. new :
           /\ q[x].key = t[x].key /\ q[x].value = t[x].value
           /\ x \notin T[n] => q[x] = t[x]
      /\ R \in Family /\ R[top] = T[n]
      /\ \A x \in Nat : x \notin T[n] => R[x] = T[x]
      /\ top # Null /\ Tree(q, R, top, B)
  BY <1>3 DEF Reshaped
<1>5. ASSUME NEW x \in 1 .. L
      PROVE  /\ q[x].key = m[x].key /\ q[x].value = m[x].value
             /\ x \notin S[n] => q[x] = m[x]
  <2>1. x \in 1 .. new /\ x # new
    BY <1>1, <1>2
  <2> QED
    BY <1>3, <1>4, <2>1
<1>6. q[new].key = key /\ q[new].value = value
  <2>1. new \in 1 .. new
    BY <1>1, <1>2
  <2> QED
    BY <1>3, <1>4, <2>1
<1>7. \A x \in Nat : x \notin S[n] /\ x # new => R[x] = S[x]
  BY <1>3, <1>4
<1> QED
  BY <1>1, <1>3, <1>4, <1>5, <1>6, <1>7 DEF Grown

\* One level of the recursion: the insertion below n, n's link and height,
\* and its rebalancing.
LEMMA InsertStep ==
  ASSUME NEW m \in Memory, NEW S \in Family, NEW n, NEW B \in BOOLEAN, Tree(m, S, n, B), n # Null,
         NEW key \in Nat, NEW value \in Nat,
         B => \A x \in S[n] : m[x].key # key,
         NEW below, ~ below.crash,
         Inserted(m, S, m[n][Side(m, n, key)], B, key, value, below)
  PROVE  Inserted(m, S, n, B, key, value, Rebalance(Link(m, n, key, below), n, key))
<1>1. PICK side, other, c, d, q, top :
        /\ side = Side(m, n, key) /\ other = Across(m, n, key)
        /\ c = m[n][side] /\ d = m[n][other] /\ q = below.mem /\ top = below.top
  OBVIOUS
<1>2. Sides(side, other)
  BY <1>1 DEF Side, Across, Sides
<1>3. PICK R : /\ Grown(m, S, c, q, R, top, key, value) /\ Tree(q, R, top, B) /\ top # Null
  BY <1>1 DEF Inserted
<1>4. PICK t : t = Heighten(Put(q, n, side, top), n)
  OBVIOUS
<1>5. Link(m, n, key, below) = t
  BY <1>1, <1>4 DEF Link, Put
<1>6. PICK T : Grown(m, S, n, t, T, n, key, value) /\ Raised(m, S, n, key, t, T, q, top, B)
  <2>1. Grown(m, S, m[n][Side(m, n, key)], q, R, top, key, value)
    BY <1>1, <1>3
  <2>2. t = Heighten(Put(q, n, Side(m, n, key), top), n)
    BY <1>1, <1>4
  <2> QED
    BY <1>3, <2>1, <2>2, RaisedByInsertion
<1>7. PICK r : r = Rebalance(t, n, key)
  OBVIOUS
<1>8. CASE B = FALSE
  <2>1. Topped(t, T, n, FALSE)
    BY <1>6, <1>8 DEF Raised
  <2>2. r.crash \/ \E Q : Reshaped(t, T, n, FALSE, r.mem, Q, r.top)
    BY <1>7, <2>1, RebalanceReshapes
  <2>3. CASE r.crash
    BY <1>5, <1>7, <1>8, <2>3 DEF Inserted
  <2>4. ASSUME NEW Q, Reshaped(t, T, n, FALSE, r.mem, Q, r.top)
        PROVE  Inserted(m, S, n, B, key, value, r)
    <3>1. /\ Grown(m, S, n, r.mem, Q, r.top, key, value)
          /\ Tree(r.mem, Q, r.top, FALSE) /\ r.top # Null
      BY <1>6, <2>4, GrownReshaped
    <3> QED
      BY <1>8, <3>1 DEF Inserted
  <2> QED
    BY <1>5, <1>7, <2>2, <2>3, <2>4
<1>9. CASE B = TRUE
  <2>1. /\ Topped(t, T, n, TRUE) /\ t[n].key = m[n].key
        /\ avl_height(t, t[n][side]) = avl_height(q, top)
        /\ avl_height(t, t[n][other]) = avl_height(m, d)
        /\ Leaning(q, top, key) => Leaning(t, t[n][side], key)
    BY <1>1, <1>6, <1>9 DEF Raised
  <2>2. /\ n \in 1 .. Len(m) /\ Linked(m, S, n, side, other) /\ Tall(m, n, side, other)
        /\ Even(m, n, side, other)
    <3>1. Tree(m, S, n, TRUE)
      BY <1>9
    <3> QED
      BY <1>2, <3>1, PartTree
  <2>3. c \in 0 .. Len(m) /\ d \in 0 .. Len(m) /\ n \in S[n]
    BY <1>1, <2>2 DEF Linked
  <2>4. PICK a, k : a = avl_height(m, c) /\ k = avl_height(m, d)
    OBVIOUS
  <2>5. /\ a \in Nat /\ k \in Nat /\ a <= k + 1 /\ k <= a + 1 /\ (c = Null => a = 0)
        /\ m[n].height = Above(a, k) /\ avl_height(m, n) = m[n].height
    <3>1. a \in Nat /\ k \in Nat /\ (c = Null => a = 0)
      BY <2>3, <2>4, HeightType
    <3>2. a <= k + 1 /\ k <= a + 1
      BY <1>1, <2>2, <2>4 DEF Even
    <3>3. m[n].height = Above(a, k)
      BY <1>1, <2>2, <2>4 DEF Tall
    <3> QED
      BY <3>1, <3>2, <3>3 DEF avl_height
  <2>6. Strictly(side, key, t[n].key)
    <3>1. m[n].key \in Nat /\ m[n].key # key
      BY <1>9, <2>2, <2>3, NodeFields
    <3> QED
      BY <1>1, <2>1, <3>1 DEF Strictly, Side
  <2>7. \/ avl_height(t, t[n][side]) = a
        \/ /\ avl_height(t, t[n][side]) = a + 1
           /\ a = 0 \/ Leaning(t, t[n][side], key)
    <3>1. \/ avl_height(q, top) = avl_height(m, c)
          \/ /\ avl_height(q, top) = avl_height(m, c) + 1
             /\ c = Null \/ Leaning(q, top, key)
      BY <1>1, <1>9 DEF Inserted
    <3> QED
      BY <2>1, <2>4, <2>5, <3>1
  <2>8. PICK h : h = Above(a, k)
    OBVIOUS
  <2>9. /\ ~ r.crash
        /\ \E Q : Reshaped(t, T, n, TRUE, r.mem, Q, r.top)
        /\ \/ avl_height(r.mem, r.top) = h
           \/ avl_height(r.mem, r.top) = h + 1 /\ Leaning(r.mem, r.top, key)
    <3>1. a <= avl_height(t, t[n][other]) + 1 /\ avl_height(t, t[n][other]) <= a + 1
      BY <2>1, <2>4, <2>5
    <3>2. Regrown(t, T, n, key, Rebalance(t, n, key), Above(a, avl_height(t, t[n][other])))
      <4>1. Topped(t, T, n, TRUE) /\ a \in Nat
        BY <2>1, <2>5
      <4> QED
        <5>1. Growing(t, T, n, key, side, other, a)
          BY <1>2, <2>6, <2>7, <3>1, <4>1 DEF Growing
        <5> QED
          BY <5>1, RebalanceBalances
    <3>3. Above(a, avl_height(t, t[n][other])) = h
      BY <2>1, <2>4, <2>8
    <3> QED
      BY <1>7, <3>2, <3>3 DEF Regrown
  <2>10. PICK Q : Reshaped(t, T, n, TRUE, r.mem, Q, r.top)
    BY <2>9
  <2>11. /\ Grown(m, S, n, r.mem, Q, r.top, key, value)
         /\ Tree(r.mem, Q, r.top, TRUE) /\ r.top # Null
    BY <1>6, <2>10, GrownReshaped
  <2>12. avl_height(m, n) = h
    BY <2>5, <2>8
  <2>13. Inserted(m, S, n, TRUE, key, value, r)
    BY <2>9, <2>11, <2>12 DEF Inserted
  <2> QED
    BY <1>5, <1>7, <1>9, <2>13
<1> QED
  BY <1>8, <1>9

\* The end of the recursion: the new node.
LEMMA InsertNode ==
  ASSUME NEW m \in Memory, NEW S \in Family, S[Null] = {}, NEW B,
         NEW key \in Nat, NEW value \in Nat
  PROVE  Inserted(m, S, Null, B, key, value, Kept(Append(m, NewNode(key, value)), Len(m) + 1))
<1>1. PICK w, q, L, new : /\ w = NewNode(key, value) /\ q = Append(m, w)
                          /\ L = Len(m) /\ new = L + 1
  OBVIOUS
<1>2. /\ w \in NodeRec /\ w.key = key /\ w.value = value /\ w.left = Null /\ w.right = Null
      /\ w.height = 1
  BY <1>1 DEF NewNode, NodeRec, Null
<1>3. L \in Nat /\ new \in Nat /\ new \notin 1 .. L /\ new # Null /\ Null \in Nat
  BY <1>1 DEF Memory, Null
<1>4. q \in Memory /\ Len(q) = new /\ q[new] = w /\ \A x \in 1 .. L : q[x] = m[x]
  BY <1>1, <1>2 DEF Memory
<1>5. PICK R \in Family : R[new] = {new} /\ \A x \in Nat : x # new => R[x] = S[x]
  <2>1. PICK R : R = [x \in Nat |-> IF x = new THEN {new} ELSE S[x]]
    OBVIOUS
  <2>2. R \in Family
    BY <1>3, <2>1 DEF Family
  <2> QED
    BY <1>3, <2>1, <2>2
<1>6. R[Null] = {}
  BY <1>3, <1>5
<1>7. Grown(m, S, Null, q, R, new, key, value)
  BY <1>1, <1>2, <1>4, <1>5 DEF Grown
<1>8. Tree(q, R, new, B)
  <2>1. q[new]["left"] = Null /\ q[new]["right"] = Null /\ Null \in 0 .. Len(q)
    BY <1>2, <1>3, <1>4 DEF Null
  <2>2. Tree(q, R, Null, B)
    BY <1>6, <2>1 DEF Tree
  <2>3. Linked(q, R, new, "left", "right")
    BY <1>3, <1>5, <1>6, <2>1 DEF Linked
  <2>4. Tall(q, new, "left", "right") /\ Even(q, new, "left", "right")
    BY <1>2, <1>4, <2>1 DEF Tall, Even, Above, avl_height
  <2>5. Sides("left", "right") /\ new \in 1 .. Len(q)
    BY <1>1, <1>3, <1>4 DEF Sides
  <2> QED
    BY <1>4, <2>1, <2>2, <2>3, <2>4, <2>5, JoinTree
<1>9. avl_height(q, new) = 1 /\ avl_height(m, Null) = 0
  BY <1>2, <1>3, <1>4 DEF avl_height
<1>10. PICK r : r = Kept(q, new)
  OBVIOUS
<1>11. ~ r.crash /\ r.mem = q /\ r.top = new
  BY <1>10 DEF Kept
<1>12. Inserted(m, S, Null, B, key, value, r)
  BY <1>3, <1>7, <1>8, <1>9, <1>11 DEF Inserted
<1> QED
  BY <1>1, <1>10, <1>12

\* What is done at n after the insertion below it.
After(m, n, key, below) ==
  IF below.crash THEN below ELSE Rebalance(Link(m, n, key, below), n, key)

\* The new node, alone.
Sprout(m, key, value) == Kept(Append(m, NewNode(key, value)), Len(m) + 1)

\* The recursion of avl_insert has a solution, as it goes down.
LEMMA InsertRecursion ==
  ASSUME NEW m \in Memory, Ranked(m), NEW key, NEW value
  PROVE  \E f : f = [n \in 0 .. Len(m) |->
                       IF n = Null THEN Sprout(m, key, value)
                       ELSE After(m, n, key, f[m[n][Side(m, n, key)]])]
<1>1. PICK L, h, l, z : /\ L = Len(m) /\ z = Sprout(m, key, value)
                        /\ h = [n \in 0 .. L |-> avl_height(m, n)]
                        /\ l = [n \in 1 .. L |-> m[n][Side(m, n, key)]]
  OBVIOUS
<1>2. L \in Nat
  BY <1>1 DEF Memory
<1>3. h \in [0 .. L -> Nat]
  BY <1>1, HeightType
<1>4. \A n \in 1 .. L : l[n] \in 0 .. L /\ h[l[n]] < h[n]
  <2>1. ASSUME NEW n \in 1 .. L
        PROVE  l[n] \in 0 .. L /\ h[l[n]] < h[n]
    <3>1. /\ m[n].left \in 0 .. Len(m) /\ m[n].right \in 0 .. Len(m)
          /\ avl_height(m, m[n].left) < avl_height(m, n)
          /\ avl_height(m, m[n].right) < avl_height(m, n)
      BY <1>1 DEF Ranked
    <3>2. l[n] = m[n].left \/ l[n] = m[n].right
      BY <1>1 DEF Side
    <3>3. l[n] \in 0 .. L /\ n \in 0 .. L
      BY <1>1, <3>1, <3>2
    <3>4. h[l[n]] = avl_height(m, l[n]) /\ h[n] = avl_height(m, n)
      BY <1>1, <3>3
    <3> QED
      BY <3>1, <3>2, <3>3, <3>4
  <2> QED
    BY <2>1
<1> DEFINE Good(f, k) == \A n \in 0 .. L : h[n] <= k =>
                           f[n] = IF n = 0 THEN z ELSE After(m, n, key, f[l[n]])
           Wrong == {k \in Nat : ~ \E f : Good(f, k)}
<1>5. PICK b \in Nat : \A n \in 0 .. L : h[n] <= b
  BY <1>2, <1>3, BoundedHeights
<1>6. b \notin Wrong
  <2>1. SUFFICES ASSUME b \in Wrong PROVE FALSE
    OBVIOUS
  <2>2. PICK k \in Wrong : \A j \in Wrong : k <= j
    <3>1. Wrong \subseteq Nat /\ Wrong # {}
      BY <2>1
    <3> HIDE DEF Wrong
    <3> QED
      BY <3>1, NatMinimum
  <2>3. \A n \in 1 .. L : h[n] \in Nat /\ h[n] # 0
    <3>1. ASSUME NEW n \in 1 .. L
          PROVE  h[n] \in Nat /\ h[n] # 0
      <4>1. l[n] \in 0 .. L /\ h[l[n]] < h[n]
        BY <1>4
      <4>2. h[l[n]] \in Nat /\ h[n] \in Nat
        BY <1>2, <1>3, <4>1
      <4> QED
        BY <4>1, <4>2
    <3> QED
      BY <3>1
  <2>4. CASE k = 0
    <3>1. PICK f : f = [n \in 0 .. L |-> z]
      OBVIOUS
    <3>2. Good(f, 0)
      <4>1. ASSUME NEW n \in 0 .. L, h[n] <= 0
            PROVE  n = 0
        BY <4>1, <1>2, <2>3
      <4> QED
        BY <3>1, <4>1
    <3> QED
      BY <2>2, <2>4, <3>2
  <2>5. CASE k # 0
    <3>1. PICK j \in Nat : j + 1 = k
      <4>1. k - 1 \in Nat /\ (k - 1) + 1 = k
        BY <2>2, <2>5
      <4> QED
        BY <4>1
    <3>2. j \notin Wrong
      <4>1. ~ (k <= j)
        BY <3>1
      <4> HIDE DEF Wrong
      <4> QED
        BY <2>2, <4>1
    <3>3. PICK f : Good(f, j)
      BY <3>2
    <3>4. PICK g : g = [n \in 0 .. L |-> IF n = 0 THEN z ELSE After(m, n, key, f[l[n]])]
      OBVIOUS
    <3>5. \A n \in 0 .. L : h[n] <= j => g[n] = f[n]
      BY <3>3, <3>4
    <3>6. Good(g, k)
      <4>1. SUFFICES ASSUME NEW n \in 0 .. L, h[n] <= k
                     PROVE  g[n] = IF n = 0 THEN z ELSE After(m, n, key, g[l[n]])
        OBVIOUS
      <4>2. CASE n = 0
        BY <3>4, <4>2
      <4>3. CASE n # 0
        <5>1. n \in 1 .. L
          BY <1>2, <4>3
        <5>2. l[n] \in 0 .. L /\ h[l[n]] < h[n]
          BY <1>4, <5>1
        <5>3. h[l[n]] <= j
          <6>1. PICK u, v : u = h[l[n]] /\ v = h[n]
            OBVIOUS
          <6>2. u \in Nat /\ v \in Nat /\ u < v /\ v <= j + 1
            BY <1>2, <1>3, <3>1, <4>1, <5>2, <6>1
          <6>3. u <= j
            BY <6>2
          <6> QED
            BY <6>1, <6>3
        <5>4. g[l[n]] = f[l[n]]
          BY <3>5, <5>2, <5>3
        <5>5. g[n] = After(m, n, key, f[l[n]])
          BY <3>4, <4>3
        <5> QED
          BY <4>3, <5>4, <5>5
      <4> QED
        BY <4>2, <4>3
    <3> QED
      BY <2>2, <3>6
  <2> QED
    BY <2>4, <2>5
<1>7. PICK f : Good(f, b)
  BY <1>6
<1>8. PICK g : g = [n \in 0 .. L |-> f[n]]
  OBVIOUS
<1>9. \A n \in 0 .. L : g[n] = IF n = Null THEN z
                               ELSE After(m, n, key, g[m[n][Side(m, n, key)]])
  <2>1. SUFFICES ASSUME NEW n \in 0 .. L
                 PROVE  g[n] = IF n = Null THEN z
                               ELSE After(m, n, key, g[m[n][Side(m, n, key)]])
    OBVIOUS
  <2>2. f[n] = IF n = 0 THEN z ELSE After(m, n, key, f[l[n]])
    BY <1>5, <1>7
  <2>3. CASE n = 0
    BY <1>8, <2>2, <2>3 DEF Null
  <2>4. CASE n # 0
    <3>1. n \in 1 .. L
      BY <1>2, <2>4
    <3>2. l[n] = m[n][Side(m, n, key)] /\ l[n] \in 0 .. L
      BY <1>1, <1>4, <3>1
    <3> QED
      BY <1>8, <2>2, <2>4, <3>2 DEF Null
  <2> QED
    BY <2>3, <2>4
<1>10. g = [n \in 0 .. L |-> IF n = Null THEN z
                             ELSE After(m, n, key, g[m[n][Side(m, n, key)]])]
  BY <1>8, <1>9
<1> QED
  BY <1>1, <1>10

\* What avl_insert gives for a tree.
LEMMA InsertInserts ==
  ASSUME NEW m \in Memory, Ranked(m), NEW S \in Family, NEW root_ \in 0 .. Len(m),
         NEW B \in BOOLEAN, Tree(m, S, root_, B),
         NEW key \in Nat, NEW value \in Nat, B => \A x \in S[root_] : m[x].key # key
  PROVE  Inserted(m, S, root_, B, key, value, avl_insert(m, root_, key, value))
<1> DEFINE G(f) == [n \in 0 .. Len(m) |->
                      IF n = Null THEN Sprout(m, key, value)
                      ELSE After(m, n, key, f[m[n][Side(m, n, key)]])]
           into == CHOOSE f : f = G(f)
<1>1. into = G(into)
  <2>1. \E f : f = G(f)
    BY InsertRecursion
  <2> HIDE DEF G
  <2> QED
    BY <2>1
<1>2. avl_insert(m, root_, key, value) = into[root_]
  BY DEF avl_insert, Sprout, After, Link, Side
<1> HIDE DEF into
<1>3. /\ into[Null] = Sprout(m, key, value)
      /\ \A n \in 1 .. Len(m) : into[n] = After(m, n, key, into[m[n][Side(m, n, key)]])
  <2>1. Null \in 0 .. Len(m) /\ \A n \in 1 .. Len(m) : n \in 0 .. Len(m) /\ n # Null
    BY DEF Null, Memory
  <2>2. \A n \in 0 .. Len(m) :
          into[n] = IF n = Null THEN Sprout(m, key, value)
                    ELSE After(m, n, key, into[m[n][Side(m, n, key)]])
    BY <1>1
  <2> QED
    BY <2>1, <2>2
<1>4. Len(m) \in Nat
  BY DEF Memory
<1> HIDE DEF G
<1> DEFINE Fit(n) == Tree(m, S, n, B) /\ (B => \A x \in S[n] : m[x].key # key)
           Wrong == {k \in Nat : \E n \in 0 .. Len(m) :
                       /\ avl_height(m, n) = k /\ Fit(n)
                       /\ ~ Inserted(m, S, n, B, key, value, into[n])}
<1>5. Wrong = {}
  <2>1. SUFFICES ASSUME Wrong # {} PROVE FALSE
    OBVIOUS
  <2>2. PICK k \in Wrong : \A j \in Wrong : k <= j
    <3>1. Wrong \subseteq Nat
      OBVIOUS
    <3> HIDE DEF Wrong
    <3> QED
      BY <2>1, <3>1, NatMinimum
  <2>3. PICK n \in 0 .. Len(m) : /\ avl_height(m, n) = k /\ Fit(n)
                                 /\ ~ Inserted(m, S, n, B, key, value, into[n])
    BY <2>2
  <2>4. S[Null] = {}
    BY <2>3 DEF Tree
  <2>5. n # Null
    BY <1>3, <2>3, <2>4, InsertNode DEF Sprout
  <2>6. PICK c : c = m[n][Side(m, n, key)]
    OBVIOUS
  <2>7. Tree(m, S, c, B) /\ S[c] \subseteq S[n] /\ n \in 1 .. Len(m)
    <3>1. Sides(Side(m, n, key), Across(m, n, key))
      BY DEF Side, Across, Sides
    <3>2. /\ Tree(m, S, m[n][Side(m, n, key)], B) /\ n \in 1 .. Len(m)
          /\ Linked(m, S, n, Side(m, n, key), Across(m, n, key))
      BY <2>3, <2>5, <3>1, PartTree
    <3> QED
      BY <2>6, <3>2 DEF Linked
  <2>8. Fit(c)
    BY <2>3, <2>7
  <2>9. c \in 0 .. Len(m) /\ avl_height(m, c) \in Nat /\ avl_height(m, c) < k
    <3>1. c \in 0 .. Len(m) /\ avl_height(m, c) < avl_height(m, n)
      BY <2>6, <2>7 DEF Ranked, Side
    <3> QED
      BY <2>3, <3>1, HeightType
  <2>10. Inserted(m, S, c, B, key, value, into[c])
    <3>1. avl_height(m, c) \notin Wrong
      <4>1. k \in Nat /\ ~ (k <= avl_height(m, c))
        BY <2>2, <2>9
      <4> HIDE DEF Wrong
      <4> QED
        BY <2>2, <4>1
    <3> HIDE DEF Fit
    <3> QED
      BY <2>8, <2>9, <3>1
  <2>11. into[n] = After(m, n, key, into[c])
    BY <1>3, <2>6, <2>7
  <2>12. CASE into[c].crash
    <3>1. into[n] = into[c] /\ ~ B
      BY <2>10, <2>11, <2>12 DEF After, Inserted
    <3> QED
      BY <2>3, <2>12, <3>1 DEF Inserted
  <2>13. CASE ~ into[c].crash
    <3>1. Inserted(m, S, n, B, key, value, Rebalance(Link(m, n, key, into[c]), n, key))
      BY <2>3, <2>5, <2>6, <2>10, <2>13, InsertStep
    <3> QED
      BY <2>3, <2>11, <2>13, <3>1 DEF After
  <2> QED
    BY <2>12, <2>13
<1>6. Inserted(m, S, root_, B, key, value, into[root_])
  <2>1. avl_height(m, root_) \in Nat
    BY HeightType
  <2>2. Fit(root_)
    OBVIOUS
  <2> HIDE DEF Fit
  <2> QED
    BY <1>5, <2>1, <2>2
<1> QED
  BY <1>2, <1>6

-----------------------------------------------------------------------------
(* The tree of every reachable state.                                      *)

Binding == [key : Nat, value : Nat]

\* All nodes are in one tree, balanced if no key has two, and they are what
\* was bound, in the order in which it was.
AvlInv ==
  /\ node \in Memory /\ bound \in Seq(Binding) /\ Len(bound) = Len(node)
  /\ root \in 0 .. Len(node)
  /\ \A i \in 1 .. Len(node) : node[i].key = bound[i].key /\ node[i].value = bound[i].value
  /\ \E S \in Family : Tree(node, S, root, Distinct(node)) /\ S[root] = 1 .. Len(node)

\* Less may be asked of a tree.
LEMMA TreeWeaker ==
  ASSUME NEW m, NEW S, NEW n, NEW B, NEW C, Tree(m, S, n, B), C => B
  PROVE  Tree(m, S, n, C)
BY DEF Tree

\* Where no key has two nodes after an insertion, none had before and the
\* key is new.
LEMMA DistinctBefore ==
  ASSUME NEW m \in Memory, NEW q \in Memory, Len(q) = Len(m) + 1, NEW key,
         \A x \in 1 .. Len(m) : q[x].key = m[x].key, q[Len(m) + 1].key = key, Distinct(q)
  PROVE  Distinct(m) /\ \A x \in 1 .. Len(m) : m[x].key # key
<1>1. Len(m) \in Nat
  BY DEF Memory
<1>2. \A x, y \in 1 .. Len(q) : q[x].key = q[y].key => x = y
  BY DEF Distinct, IsInjective
<1>3. \A x \in 1 .. Len(m) : x \in 1 .. Len(q) /\ x # Len(m) + 1
  BY <1>1
<1>4. Len(m) + 1 \in 1 .. Len(q)
  BY <1>1
<1>5. \A x, y \in 1 .. Len(m) : m[x].key = m[y].key => x = y
  BY <1>2, <1>3
<1> QED
  BY <1>2, <1>3, <1>4, <1>5 DEF Distinct, IsInjective

\* The empty tree.
LEMMA AvlInvInit == Init => AvlInv
<1> SUFFICES ASSUME Init PROVE AvlInv
  OBVIOUS
<1>1. node = <<>> /\ root = Null /\ bound = <<>>
  BY DEF Init
<1>2. PICK S : S = [x \in Nat |-> {}]
  OBVIOUS
<1>3. S \in Family /\ S[Null] = {} /\ Null \in 0 .. 0
  BY <1>2 DEF Family, Null
<1>4. node \in Memory /\ bound \in Seq(Binding) /\ Len(node) = 0 /\ Len(bound) = 0
  BY <1>1 DEF Memory
<1>5. Tree(node, S, root, Distinct(node))
  BY <1>1, <1>3, <1>4 DEF Tree
<1>6. S[root] = 1 .. Len(node)
  BY <1>1, <1>3, <1>4
<1> QED
  BY <1>1, <1>3, <1>4, <1>5, <1>6 DEF AvlInv

\* An insertion that does not end the program, in any such tree.
LEMMA InsertKeeps ==
  ASSUME AvlInv, NEW key \in Nat, NEW done, done = avl_insert(node, root, key, Len(bound) + 1)
  PROVE  /\ Distinct(node) /\ (\A x \in 1 .. Len(node) : node[x].key # key) => ~ done.crash
         /\ node' = done.mem /\ root' = done.top /\ ~ done.crash
            /\ bound' = Append(bound, [key |-> key, value |-> Len(bound) + 1]) => AvlInv'
<1>1. PICK m, t, L, new, value : /\ m = node /\ t = root /\ L = Len(m) /\ new = L + 1
                                 /\ value = Len(bound) + 1
  OBVIOUS
<1>2. /\ m \in Memory /\ bound \in Seq(Binding) /\ Len(bound) = L /\ t \in 0 .. Len(m)
      /\ \A i \in 1 .. L : m[i].key = bound[i].key /\ m[i].value = bound[i].value
  BY <1>1 DEF AvlInv
<1>3. PICK S \in Family : Tree(m, S, t, Distinct(m)) /\ S[t] = 1 .. Len(m)
  BY <1>1 DEF AvlInv
<1>4. L \in Nat /\ new \in Nat /\ value = new
  BY <1>1, <1>2 DEF Memory
<1>5. PICK B \in BOOLEAN : B <=> Distinct(m) /\ \A x \in 1 .. Len(m) : m[x].key # key
  OBVIOUS
<1>6. Tree(m, S, t, B)
  BY <1>3, <1>5, TreeWeaker
<1>7. Ranked(m)
  BY <1>2, <1>3, TreeRanked
<1>8. Inserted(m, S, t, B, key, value, done)
  <2>1. done = avl_insert(m, t, key, value) /\ value \in Nat
    BY <1>1, <1>4
  <2>2. B => \A x \in S[t] : m[x].key # key
    BY <1>3, <1>5
  <2>3. Inserted(m, S, t, B, key, value, avl_insert(m, t, key, value))
    BY <1>2, <1>6, <1>7, <2>1, <2>2, InsertInserts
  <2> QED
    BY <2>1, <2>3
<1>9. B => ~ done.crash
  BY <1>8 DEF Inserted
<1>10. ASSUME node' = done.mem, root' = done.top, ~ done.crash,
              bound' = Append(bound, [key |-> key, value |-> Len(bound) + 1])
       PROVE  AvlInv'
  <2>1. PICK q, T : q = done.mem /\ T = done.top
    OBVIOUS
  <2>2. PICK R : Grown(m, S, t, q, R, T, key, value) /\ Tree(q, R, T, B)
    BY <1>8, <1>10, <2>1 DEF Inserted
  <2>3. /\ q \in Memory /\ Len(q) = new
        /\ \A x \in 1 .. L : q[x].key = m[x].key /\ q[x].value = m[x].value
        /\ q[new].key = key /\ q[new].value = value
        /\ R \in Family /\ R[T] = S[t] \cup {new}
    BY <1>1, <2>2 DEF Grown
  <2>4. Distinct(q) => B
    BY <1>1, <1>2, <1>5, <2>3, DistinctBefore
  <2>5. Tree(q, R, T, Distinct(q))
    BY <2>2, <2>4, TreeWeaker
  <2>6. R[T] = 1 .. Len(q)
    BY <1>1, <1>3, <1>4, <2>3
  <2>7. PICK w : w = [key |-> key, value |-> value]
    OBVIOUS
  <2>8. w \in Binding /\ w.key = key /\ w.value = value
    BY <1>4, <2>7 DEF Binding
  <2>9. PICK b : b = Append(bound, w)
    OBVIOUS
  <2>10. /\ b \in Seq(Binding) /\ Len(b) = new /\ b[new] = w
         /\ \A i \in 1 .. L : b[i] = bound[i]
    BY <1>1, <1>2, <2>8, <2>9
  <2>11. ASSUME NEW i \in 1 .. new
         PROVE  q[i].key = b[i].key /\ q[i].value = b[i].value
    <3>1. CASE i = new
      BY <3>1, <2>3, <2>8, <2>10
    <3>2. CASE i # new
      <4>1. i \in 1 .. L
        BY <3>2, <1>1, <1>4
      <4> QED
        BY <1>2, <2>3, <2>10, <4>1
    <3> QED
      BY <3>1, <3>2
  <2>12. T \in 0 .. Len(q)
    BY <2>2 DEF Tree
  <2>13. node' = q /\ root' = T /\ bound' = b
    BY <1>1, <1>10, <2>1, <2>7, <2>9
  <2>14. /\ Distinct(node)' <=> Distinct(q)
    BY <2>13 DEF Distinct
  <2>15. Tree(q, R, T, Distinct(node'))
    BY <2>5, <2>13
  <2> QED
    BY <2>3, <2>6, <2>10, <2>11, <2>12, <2>13, <2>15 DEF AvlInv
<1> QED
  BY <1>1, <1>5, <1>9, <1>10

\* Every step keeps the tree.
LEMMA AvlInvStep == AvlInv /\ [Next]_vars => AvlInv'
<1> SUFFICES ASSUME AvlInv, [Next]_vars PROVE AvlInv'
  OBVIOUS
<1>1. ASSUME UNCHANGED <<node, root, bound>>
      PROVE  AvlInv'
  BY <1>1 DEF AvlInv, Distinct
<1>2. ASSUME NEW key \in Keys, Insert(key)
      PROVE  AvlInv'
  <2>1. PICK done : done = avl_insert(node, root, key, Len(bound) + 1)
    OBVIOUS
  <2>2. CASE done.crash
    BY <1>1, <1>2, <2>1, <2>2 DEF Insert
  <2>3. CASE ~ done.crash
    <3>1. /\ node' = done.mem /\ root' = done.top
          /\ bound' = Append(bound, [key |-> key, value |-> Len(bound) + 1])
      BY <1>2, <2>1, <2>3 DEF Insert
    <3>2. key \in Nat
      BY AvlAssumption
    <3> QED
      BY <2>1, <2>3, <3>1, <3>2, InsertKeeps
  <2> QED
    BY <2>2, <2>3
<1>3. CASE ToArray
  BY <1>1, <1>3 DEF ToArray
<1>4. CASE Iterate
  BY <1>1, <1>4 DEF Iterate
<1>5. CASE UNCHANGED vars
  BY <1>1, <1>5 DEF vars
<1> QED
  BY <1>2, <1>3, <1>4, <1>5 DEF Next

\* The nodes are always one tree, of what was bound, whatever the keys and
\* the order of the insertions.
THEOREM TreeOfBound == Spec => []AvlInv
BY AvlInvInit, AvlInvStep, PTL DEF Spec

-----------------------------------------------------------------------------
(* What follows for the callers.                                           *)

\* A new key goes in.
LEMMA FreshGoesIn == AvlInv => FreshInsertionCompletes
<1> SUFFICES ASSUME AvlInv, NEW key \in Keys, Distinct(node), ~ IsBound(key)
             PROVE  ~ avl_insert(node, root, key, Len(bound) + 1).crash
  BY DEF FreshInsertionCompletes
<1>1. \A x \in 1 .. Len(node) : node[x].key # key
  BY DEF AvlInv, IsBound
<1>2. key \in Nat
  BY AvlAssumption
<1>3. PICK done : done = avl_insert(node, root, key, Len(bound) + 1)
  OBVIOUS
<1>4. ~ done.crash
  BY <1>1, <1>2, <1>3, InsertKeeps
<1> QED
  BY <1>3, <1>4

\* Where no key was bound twice, no insertion of a new one reads a child
\* that is not there: every rotation finds the nodes it turns.
THEOREM FreshInsertions == Spec => []FreshInsertionCompletes
BY TreeOfBound, FreshGoesIn, PTL

\* The depth that is computed is the height that is recorded.
LEMMA DepthIsHeight ==
  ASSUME node \in Memory, NEW S, NEW B, Tree(node, S, root, B), S[root] = 1 .. Len(node)
  PROVE  \A n \in 0 .. Len(node) : Depth[n] = avl_height(node, n)
<1> DEFINE L == Len(node)
           G(f) == [n \in 0 .. L |-> IF n = Null THEN 0
                                     ELSE 1 + Max({f[node[n].left], f[node[n].right]})]
           of == CHOOSE f : f = G(f)
           found == [n \in 0 .. L |-> avl_height(node, n)]
<1>1. Ranked(node) /\ L \in Nat
  BY TreeRanked DEF Memory
<1>2. ASSUME NEW n \in 1 .. L
      PROVE  /\ node[n].left \in 0 .. L /\ node[n].right \in 0 .. L
             /\ avl_height(node, node[n].left) \in Nat /\ avl_height(node, node[n].right) \in Nat
             /\ avl_height(node, node[n].left) < avl_height(node, n)
             /\ avl_height(node, node[n].right) < avl_height(node, n)
             /\ avl_height(node, n) =
                  1 + Max({avl_height(node, node[n].left), avl_height(node, node[n].right)})
  <2>1. /\ node[n].left \in 0 .. L /\ node[n].right \in 0 .. L
        /\ avl_height(node, node[n].left) < avl_height(node, n)
        /\ avl_height(node, node[n].right) < avl_height(node, n)
    BY <1>1 DEF Ranked
  <2>2. avl_height(node, node[n].left) \in Nat /\ avl_height(node, node[n].right) \in Nat
    BY <2>1, HeightType
  <2>3. Tall(node, n, "left", "right")
    BY DEF Tree
  <2>4. avl_height(node, n) = Above(avl_height(node, node[n].left), avl_height(node, node[n].right))
    BY <2>3 DEF Tall, avl_height, Null
  <2> QED
    BY <2>1, <2>2, <2>4, AboveIsMax
<1>3. found = G(found)
  <2>1. ASSUME NEW n \in 0 .. L
        PROVE  found[n] = IF n = Null THEN 0
                          ELSE 1 + Max({found[node[n].left], found[node[n].right]})
    <3>1. CASE n = Null
      BY <3>1 DEF avl_height
    <3>2. CASE n # Null
      <4>1. n \in 1 .. L
        BY <1>1, <3>2 DEF Null
      <4>2. /\ found[n] = avl_height(node, n)
            /\ found[node[n].left] = avl_height(node, node[n].left)
            /\ found[node[n].right] = avl_height(node, node[n].right)
        BY <1>2, <4>1
      <4> QED
        BY <1>2, <3>2, <4>1, <4>2
    <3> QED
      BY <3>1, <3>2
  <2>2. found = [n \in 0 .. L |-> found[n]]
    OBVIOUS
  <2> HIDE DEF found
  <2> QED
    BY <2>1, <2>2
<1> HIDE DEF found
<1>4. of = G(of)
  <2>1. \E f : f = G(f)
    BY <1>3
  <2> HIDE DEF G
  <2> QED
    BY <2>1
<1>5. Depth = of
  BY DEF Depth
<1> HIDE DEF of
<1>6. \A n \in 0 .. L : of[n] = IF n = Null THEN 0
                                ELSE 1 + Max({of[node[n].left], of[node[n].right]})
  BY <1>4
<1> HIDE DEF G
<1> DEFINE Wrong == {k \in Nat : \E n \in 0 .. L : avl_height(node, n) = k /\ of[n] # k}
<1>7. Wrong = {}
  <2>1. SUFFICES ASSUME Wrong # {} PROVE FALSE
    OBVIOUS
  <2>2. PICK k \in Wrong : \A j \in Wrong : k <= j
    <3>1. Wrong \subseteq Nat
      OBVIOUS
    <3> HIDE DEF Wrong
    <3> QED
      BY <2>1, <3>1, NatMinimum
  <2>3. PICK n \in 0 .. L : avl_height(node, n) = k /\ of[n] # k
    BY <2>2
  <2>4. n # Null
    BY <1>6, <2>3 DEF avl_height
  <2>5. n \in 1 .. L
    BY <1>1, <2>3, <2>4 DEF Null
  <2>6. ASSUME NEW c \in 0 .. L, avl_height(node, c) \in Nat, avl_height(node, c) < k
        PROVE  of[c] = avl_height(node, c)
    <3>1. avl_height(node, c) \notin Wrong
      <4>1. k \in Nat /\ ~ (k <= avl_height(node, c))
        BY <2>2, <2>6
      <4> HIDE DEF Wrong
      <4> QED
        BY <2>2, <4>1
    <3> QED
      BY <2>6, <3>1
  <2>7. /\ of[node[n].left] = avl_height(node, node[n].left)
        /\ of[node[n].right] = avl_height(node, node[n].right)
    BY <1>2, <2>3, <2>5, <2>6
  <2> QED
    BY <1>2, <1>6, <2>3, <2>4, <2>5, <2>7
<1>8. ASSUME NEW n \in 0 .. L
      PROVE  of[n] = avl_height(node, n)
  <2>1. avl_height(node, n) \in Nat
    BY HeightType
  <2> QED
    BY <1>7, <2>1
<1> QED
  BY <1>5, <1>8

\* The recorded heights are right, and the nodes balanced.
LEMMA BalancedHolds == AvlInv => Balanced
<1> SUFFICES ASSUME AvlInv, NEW n \in 1 .. Len(node)
             PROVE  /\ node[n].height = Depth[n]
                    /\ Distinct(node) => avl_get_balance(node, n) \in -1 .. 1
  BY DEF Balanced
<1>1. node \in Memory
  BY DEF AvlInv
<1>2. PICK S \in Family : Tree(node, S, root, Distinct(node)) /\ S[root] = 1 .. Len(node)
  BY DEF AvlInv
<1>3. Len(node) \in Nat /\ n \in 0 .. Len(node) /\ n # Null
  BY <1>1 DEF Memory, Null
<1>4. node[n].height = Depth[n]
  <2>1. Depth[n] = avl_height(node, n)
    BY <1>1, <1>2, <1>3, DepthIsHeight
  <2> QED
    BY <1>3, <2>1 DEF avl_height
<1>5. ASSUME Distinct(node)
      PROVE  avl_get_balance(node, n) \in -1 .. 1
  <2>1. Even(node, n, "left", "right") /\ Linked(node, S, n, "left", "right")
    BY <1>2, <1>5 DEF Tree
  <2>2. node[n].left \in 0 .. Len(node) /\ node[n].right \in 0 .. Len(node)
    BY <2>1 DEF Linked
  <2>3. avl_height(node, node[n].left) \in Nat /\ avl_height(node, node[n].right) \in Nat
    BY <1>1, <2>2, HeightType
  <2> QED
    BY <2>1, <2>3 DEF Even, avl_get_balance
<1> QED
  BY <1>4, <1>5

\* Every node's recorded height is that of its subtree, and no node is out of
\* balance where no key was bound twice: the heights on which avl_insert
\* decides are never stale.
THEOREM TreeBalanced == Spec => []Balanced
BY TreeOfBound, BalancedHolds, PTL

\* So anything can be computed up the tree.
LEMMA MemoryRecursion ==
  ASSUME NEW m \in Memory, Ranked(m), NEW V, NEW z, NEW F, Combines(Len(m), V, z, F)
  PROVE  \E f \in [0 .. Len(m) -> V] :
           /\ f[Null] = z
           /\ \A x \in 1 .. Len(m) : f[x] = F[x][f[m[x].left]][f[m[x].right]]
<1>1. PICK n, h, l, r : /\ n = Len(m) /\ h = [x \in 0 .. n |-> avl_height(m, x)]
                        /\ l = [x \in 1 .. n |-> m[x].left]
                        /\ r = [x \in 1 .. n |-> m[x].right]
  OBVIOUS
<1>2. n \in Nat /\ h \in [0 .. n -> Nat]
  <2>1. n \in Nat
    BY <1>1 DEF Memory
  <2>2. \A x \in 0 .. n : avl_height(m, x) \in Nat
    BY <1>1, HeightType
  <2> QED
    BY <1>1, <2>1, <2>2
<1>3. ASSUME NEW x \in 1 .. n
      PROVE  /\ l[x] \in 0 .. n /\ r[x] \in 0 .. n
             /\ h[l[x]] < h[x] /\ h[r[x]] < h[x]
  <2>1. /\ m[x].left \in 0 .. n /\ m[x].right \in 0 .. n
        /\ avl_height(m, m[x].left) < avl_height(m, x)
        /\ avl_height(m, m[x].right) < avl_height(m, x)
    BY <1>1 DEF Ranked
  <2>2. l[x] = m[x].left /\ r[x] = m[x].right /\ x \in 0 .. n
    BY <1>1, <1>2
  <2>3. /\ h[l[x]] = avl_height(m, m[x].left) /\ h[r[x]] = avl_height(m, m[x].right)
        /\ h[x] = avl_height(m, x)
    BY <1>1, <2>1, <2>2
  <2> QED
    BY <2>1, <2>2, <2>3
<1>4. Descends(n, h, l, r)
  <2>1. l \in [1 .. n -> 0 .. n] /\ r \in [1 .. n -> 0 .. n]
    BY <1>1, <1>3
  <2> QED
    BY <1>2, <1>3, <2>1 DEF Descends
<1>5. Combines(n, V, z, F)
  BY <1>1
<1>6. PICK f : Recurs(n, l, r, V, z, F, f)
  BY <1>4, <1>5, TreeRecursion
<1>7. f \in [0 .. Len(m) -> V] /\ f[Null] = z
  BY <1>1, <1>6 DEF Recurs, Null
<1>8. ASSUME NEW x \in 1 .. Len(m)
      PROVE  f[x] = F[x][f[m[x].left]][f[m[x].right]]
  <2>1. f[x] = F[x][f[l[x]]][f[r[x]]]
    BY <1>1, <1>6 DEF Recurs
  <2>2. l[x] = m[x].left /\ r[x] = m[x].right
    BY <1>1
  <2> QED
    BY <2>1, <2>2
<1> QED
  BY <1>7, <1>8

\* The child that a search goes on to.
Onward(m, n, key) == IF key < m[n].key THEN m[n].left ELSE m[n].right

\* What a search in the tree at n finds.
Finds(m, S, n, key, v) ==
  \/ v = AVL_NOTSET /\ \A x \in S[n] : m[x].key # key
  \/ \E x \in S[n] : m[x].key = key /\ m[x].value = v

\* A search finds a value of its key, if the tree holds one.
LEMMA GetFinds ==
  ASSUME NEW m \in Memory, Ranked(m), NEW S, NEW top \in 0 .. Len(m), Tree(m, S, top, FALSE),
         NEW key \in Nat
  PROVE  Finds(m, S, top, key, avl_get(m, top, key))
<1> DEFINE L == Len(m)
           G(f) == [n \in 0 .. L |-> IF n = Null THEN AVL_NOTSET
                                     ELSE IF key = m[n].key THEN m[n].value
                                     ELSE f[IF key < m[n].key THEN m[n].left ELSE m[n].right]]
           at == CHOOSE f : f = G(f)
<1>1. \E f : f = G(f)
  <2>1. PICK F : F = [x \in 1 .. L |-> [v \in Nat |-> [w \in Nat |->
                       IF key = m[x].key THEN m[x].value ELSE IF key < m[x].key THEN v ELSE w]]]
    OBVIOUS
  <2>2. Combines(L, Nat, 0, F)
    <3>1. \A x \in 1 .. L : m[x].value \in Nat
      BY NodeFields
    <3>2. F \in [1 .. L -> [Nat -> [Nat -> Nat]]]
      BY <2>1, <3>1
    <3> QED
      BY <3>2 DEF Combines
  <2>3. PICK f \in [0 .. L -> Nat] :
          /\ f[Null] = 0
          /\ \A x \in 1 .. L : f[x] = F[x][f[m[x].left]][f[m[x].right]]
    BY <2>2, MemoryRecursion
  <2>4. ASSUME NEW x \in 0 .. L
        PROVE  f[x] = IF x = Null THEN AVL_NOTSET
                      ELSE IF key = m[x].key THEN m[x].value
                      ELSE f[IF key < m[x].key THEN m[x].left ELSE m[x].right]
    <3>1. CASE x = Null
      BY <2>3, <3>1 DEF AVL_NOTSET
    <3>2. CASE x # Null
      <4>1. x \in 1 .. L
        BY <3>2 DEF Null
      <4>2. m[x].left \in 0 .. L /\ m[x].right \in 0 .. L
        BY <4>1 DEF Ranked
      <4>3. PICK v, w : v = f[m[x].left] /\ w = f[m[x].right]
        OBVIOUS
      <4>4. v \in Nat /\ w \in Nat
        BY <2>3, <4>2, <4>3
      <4>5. F[x][v][w] = IF key = m[x].key THEN m[x].value ELSE IF key < m[x].key THEN v ELSE w
        BY <2>1, <4>1, <4>4
      <4>6. f[x] = F[x][v][w]
        BY <2>3, <4>1, <4>3
      <4> QED
        BY <3>2, <4>3, <4>5, <4>6
    <3> QED
      BY <3>1, <3>2
  <2>5. f = [x \in 0 .. L |-> f[x]]
    BY <2>3
  <2>6. f = G(f)
    BY <2>4, <2>5
  <2> QED
    BY <2>6
<1>2. at = G(at)
  <2> HIDE DEF G
  <2> QED
    BY <1>1
<1>3. avl_get(m, top, key) = at[top]
  BY DEF avl_get
<1> HIDE DEF at
<1>4. \A n \in 0 .. L : at[n] = IF n = Null THEN AVL_NOTSET
                                ELSE IF key = m[n].key THEN m[n].value
                                ELSE at[Onward(m, n, key)]
  BY <1>2 DEF Onward
<1> HIDE DEF G
<1> DEFINE Wrong == {k \in Nat : \E n \in 0 .. L :
                       /\ avl_height(m, n) = k /\ Tree(m, S, n, FALSE)
                       /\ ~ Finds(m, S, n, key, at[n])}
<1>5. Wrong = {}
  <2>1. SUFFICES ASSUME Wrong # {} PROVE FALSE
    OBVIOUS
  <2>2. PICK k \in Wrong : \A j \in Wrong : k <= j
    <3>1. Wrong \subseteq Nat
      OBVIOUS
    <3> HIDE DEF Wrong
    <3> QED
      BY <2>1, <3>1, NatMinimum
  <2>3. PICK n \in 0 .. L : /\ avl_height(m, n) = k /\ Tree(m, S, n, FALSE)
                            /\ ~ Finds(m, S, n, key, at[n])
    BY <2>2
  <2>4. n # Null
    <3>1. S[Null] = {}
      BY <2>3 DEF Tree
    <3> QED
      BY <1>4, <2>3, <3>1 DEF Finds
  <2>5. PICK c : c = Onward(m, n, key)
    OBVIOUS
  <2>6. /\ n \in 1 .. L /\ Linked(m, S, n, "left", "right")
        /\ Tree(m, S, m[n].left, FALSE) /\ Tree(m, S, m[n].right, FALSE)
    <3>1. Sides("left", "right")
      BY DEF Sides
    <3>2. /\ n \in 1 .. L /\ Linked(m, S, n, "left", "right")
          /\ Tree(m, S, m[n]["left"], FALSE) /\ Tree(m, S, m[n]["right"], FALSE)
      BY <2>3, <2>4, <3>1, PartTree
    <3> QED
      BY <3>2
  <2>7. /\ S[n] = {n} \cup S[m[n].left] \cup S[m[n].right]
        /\ \A x \in S[m[n].left] : Before("left", m[x].key, m[n].key)
        /\ \A x \in S[m[n].right] : Before("right", m[x].key, m[n].key)
    BY <2>6 DEF Linked
  <2>8. key # m[n].key
    BY <1>4, <2>3, <2>4, <2>7 DEF Finds
  <2>9. at[n] = at[c]
    BY <1>4, <2>4, <2>5, <2>8
  <2>10. Finds(m, S, c, key, at[c])
    <3>1. /\ c \in 0 .. L /\ avl_height(m, c) < k /\ Tree(m, S, c, FALSE)
      BY <2>3, <2>5, <2>6 DEF Ranked, Onward
    <3>2. avl_height(m, c) \in Nat
      BY <3>1, HeightType
    <3>3. avl_height(m, c) \notin Wrong
      <4>1. k \in Nat /\ ~ (k <= avl_height(m, c))
        BY <2>2, <3>1, <3>2
      <4> HIDE DEF Wrong
      <4> QED
        BY <2>2, <4>1
    <3> QED
      BY <3>1, <3>2, <3>3
  <2>11. /\ S[c] \subseteq S[n]
         /\ \A x \in S[n] : m[x].key = key => x \in S[c]
    <3>1. m[n].key \in Nat
      BY <2>6, NodeFields
    <3>2. CASE key < m[n].key
      <4>1. \A x \in S[m[n].right] : m[n].key <= m[x].key
        BY <2>7 DEF Before
      <4>2. \A x \in S[m[n].right] : m[x].key # key
        <5>1. S[m[n].right] \subseteq 1 .. L
          BY <2>6 DEF Tree
        <5>2. \A x \in S[m[n].right] : m[x].key \in Nat
          BY <5>1, NodeFields
        <5> QED
          BY <3>1, <3>2, <4>1, <5>2
      <4> QED
        BY <2>5, <2>7, <2>8, <3>2, <4>2 DEF Onward
    <3>3. CASE ~ (key < m[n].key)
      <4>1. \A x \in S[m[n].left] : m[x].key <= m[n].key
        BY <2>7 DEF Before
      <4>2. \A x \in S[m[n].left] : m[x].key # key
        <5>1. S[m[n].left] \subseteq 1 .. L
          BY <2>6 DEF Tree
        <5>2. \A x \in S[m[n].left] : m[x].key \in Nat
          BY <5>1, NodeFields
        <5> QED
          BY <2>8, <3>1, <3>3, <4>1, <5>2
      <4> QED
        BY <2>5, <2>7, <2>8, <3>3, <4>2 DEF Onward
    <3> QED
      BY <3>2, <3>3
  <2>12. Finds(m, S, n, key, at[n])
    BY <2>9, <2>10, <2>11 DEF Finds
  <2> QED
    BY <2>3, <2>12
<1>6. Finds(m, S, top, key, at[top])
  <2>1. avl_height(m, top) \in Nat
    BY HeightType
  <2> QED
    BY <1>5, <2>1
<1> QED
  BY <1>3, <1>6

\* A lookup answers from what was bound.
LEMMA FoundHolds == AvlInv => Found
<1> SUFFICES ASSUME AvlInv, NEW k \in Keys
             PROVE  LET values == {bound[i].value : i \in {j \in 1 .. Len(bound) : bound[j].key = k}}
                    IN avl_get(node, root, k) \in (IF values = {} THEN {AVL_NOTSET} ELSE values)
  BY DEF Found
<1>1. /\ node \in Memory /\ Len(bound) = Len(node) /\ root \in 0 .. Len(node)
      /\ \A i \in 1 .. Len(node) : node[i].key = bound[i].key /\ node[i].value = bound[i].value
  BY DEF AvlInv
<1>2. PICK S \in Family : Tree(node, S, root, Distinct(node)) /\ S[root] = 1 .. Len(node)
  BY DEF AvlInv
<1>3. Ranked(node) /\ Tree(node, S, root, FALSE)
  BY <1>1, <1>2, TreeRanked, TreeAnyway
<1>4. k \in Nat
  BY AvlAssumption
<1>5. PICK v : v = avl_get(node, root, k)
  OBVIOUS
<1>6. Finds(node, S, root, k, v)
  BY <1>1, <1>3, <1>4, <1>5, GetFinds
<1> DEFINE values == {bound[i].value : i \in {j \in 1 .. Len(bound) : bound[j].key = k}}
<1>7. CASE v = AVL_NOTSET /\ \A x \in S[root] : node[x].key # k
  <2>1. values = {}
    BY <1>1, <1>2, <1>7
  <2> QED
    BY <1>5, <1>7, <2>1
<1>8. CASE \E x \in S[root] : node[x].key = k /\ node[x].value = v
  <2>1. v \in values
    BY <1>1, <1>2, <1>8
  <2> QED
    BY <1>5, <2>1
<1> QED
  BY <1>6, <1>7, <1>8 DEF Finds

\* What was bound is found and nothing else is, whatever rotations there
\* were, also where the same key has several nodes.
THEOREM KeysFound == Spec => []Found
BY TreeOfBound, FoundHolds, PTL

-----------------------------------------------------------------------------
(* Order.                                                                  *)

\* s lists the nodes of U, each once, by ascending keys.
Listed(m, s, U) ==
  /\ s \in Seq(Nat) /\ IsFiniteSet(U) /\ Len(s) = Cardinality(U)
  /\ {s[i] : i \in 1 .. Len(s)} = U
  /\ \A i, j \in 1 .. Len(s) : i <= j => m[s[i]].key <= m[s[j]].key

\* Node n comes between the nodes of U and those of W.
Parts(m, n, U, W) ==
  /\ n \in 1 .. Len(m) /\ U \subseteq 1 .. Len(m) /\ W \subseteq 1 .. Len(m)
  /\ n \notin U /\ n \notin W /\ U \cap W = {}
  /\ \A x \in U : m[x].key <= m[n].key
  /\ \A x \in W : m[n].key <= m[x].key

\* A list with an element and another list appended.
LEMMA JoinedSeq ==
  ASSUME NEW s \in Seq(Nat), NEW n \in Nat, NEW t \in Seq(Nat)
  PROVE  LET q == s \o <<n>> \o t IN
         /\ q \in Seq(Nat) /\ Len(q) = Len(s) + 1 + Len(t)
         /\ \A i \in 1 .. Len(q) : q[i] = IF i <= Len(s) THEN s[i]
                                          ELSE IF i = Len(s) + 1 THEN n ELSE t[i - Len(s) - 1]
<1>1. PICK u : u = s \o <<n>>
  OBVIOUS
<1>2. PICK q : q = u \o t
  OBVIOUS
<1>3. /\ u \in Seq(Nat) /\ Len(u) = Len(s) + 1
      /\ \A i \in 1 .. Len(u) : u[i] = IF i <= Len(s) THEN s[i] ELSE n
  BY <1>1
<1>4. /\ q \in Seq(Nat) /\ Len(q) = Len(u) + Len(t)
      /\ \A i \in 1 .. Len(q) : q[i] = IF i <= Len(u) THEN u[i] ELSE t[i - Len(u)]
  <2>1. u \in Seq(Nat)
    BY <1>3
  <2>2. /\ u \o t \in Seq(Nat) /\ Len(u \o t) = Len(u) + Len(t)
        /\ \A i \in 1 .. Len(u) + Len(t) : (u \o t)[i] = IF i <= Len(u) THEN u[i] ELSE t[i - Len(u)]
    BY <2>1, ConcatProperties
  <2> QED
    BY <1>2, <2>2
<1>5. Len(s) \in Nat /\ Len(t) \in Nat
  OBVIOUS
<1>6. ASSUME NEW i \in 1 .. Len(q)
      PROVE  q[i] = IF i <= Len(s) THEN s[i]
                    ELSE IF i = Len(s) + 1 THEN n ELSE t[i - Len(s) - 1]
  <2>1. q[i] = IF i <= Len(s) + 1 THEN u[i] ELSE t[i - (Len(s) + 1)]
    BY <1>3, <1>4
  <2>2. i \in Nat /\ i >= 1 /\ i - (Len(s) + 1) = i - Len(s) - 1
    BY <1>5
  <2>3. i <= Len(s) + 1 => u[i] = IF i <= Len(s) THEN s[i] ELSE n
    BY <1>3, <1>5, <2>2
  <2>4. i <= Len(s) => i <= Len(s) + 1
    BY <1>5, <2>2
  <2>5. i <= Len(s) + 1 <=> (i <= Len(s) \/ i = Len(s) + 1)
    BY <1>5, <2>2
  <2>6. i = Len(s) + 1 => ~ (i <= Len(s))
    BY <1>5
  <2> QED
    BY <2>1, <2>2, <2>3, <2>4, <2>5, <2>6
<1> QED
  BY <1>1, <1>2, <1>3, <1>4, <1>5, <1>6

\* The lists of the two sides, with the node between them, list the whole.
LEMMA JoinListed ==
  ASSUME NEW m \in Memory, NEW n, NEW s, NEW t, NEW U, NEW W,
         Listed(m, s, U), Listed(m, t, W), Parts(m, n, U, W)
  PROVE  Listed(m, s \o <<n>> \o t, {n} \cup U \cup W)
<1>1. PICK q : q = s \o <<n>> \o t
  OBVIOUS
<1>2. PICK a, b : a = Len(s) /\ b = Len(t)
  OBVIOUS
<1>3. /\ s \in Seq(Nat) /\ t \in Seq(Nat) /\ n \in Nat
      /\ a \in Nat /\ b \in Nat
  BY <1>2 DEF Listed, Parts
<1>4. /\ q \in Seq(Nat) /\ Len(q) = a + 1 + b
      /\ \A i \in 1 .. Len(q) : q[i] = IF i <= a THEN s[i]
                                       ELSE IF i = a + 1 THEN n ELSE t[i - a - 1]
  BY <1>1, <1>2, <1>3, JoinedSeq
<1>5. IsFiniteSet({n} \cup U \cup W) /\ Cardinality({n} \cup U \cup W) = a + 1 + b
  <2>1. IsFiniteSet(U) /\ IsFiniteSet(W) /\ Cardinality(U) = a /\ Cardinality(W) = b
    BY <1>2 DEF Listed
  <2>2. U \cap W = {} /\ n \notin U \cup W
    BY DEF Parts
  <2>3. IsFiniteSet(U \cup W) /\ Cardinality(U \cup W) = a + b
    <3>1. Cardinality(U \cap W) = 0
      BY <2>2, FS_EmptySet
    <3>2. /\ IsFiniteSet(U \cup W)
          /\ Cardinality(U \cup W) = Cardinality(U) + Cardinality(W) - Cardinality(U \cap W)
      BY <2>1, FS_Union
    <3> QED
      BY <1>3, <2>1, <3>1, <3>2
  <2>4. /\ IsFiniteSet((U \cup W) \cup {n})
        /\ Cardinality((U \cup W) \cup {n}) = a + b + 1
    BY <2>2, <2>3, FS_AddElement
  <2>5. (U \cup W) \cup {n} = {n} \cup U \cup W
    OBVIOUS
  <2>6. a + b + 1 = a + 1 + b
    BY <1>3
  <2> QED
    BY <2>4, <2>5, <2>6
<1>6. \A i \in 1 .. a : q[i] = s[i] /\ s[i] \in U
  <2>1. \A i \in 1 .. a : s[i] \in U
    BY <1>2 DEF Listed
  <2>2. \A i \in 1 .. a : q[i] = s[i]
    BY <1>3, <1>4
  <2> QED
    BY <2>1, <2>2
<1>7. \A i \in 1 .. b : q[a + 1 + i] = t[i] /\ t[i] \in W
  <2>1. \A i \in 1 .. b : t[i] \in W
    BY <1>2 DEF Listed
  <2>2. ASSUME NEW i \in 1 .. b
        PROVE  q[a + 1 + i] = t[i]
    <3>1. /\ a + 1 + i \in 1 .. Len(q) /\ ~ (a + 1 + i <= a) /\ a + 1 + i # a + 1
          /\ (a + 1 + i) - a - 1 = i
      BY <1>3, <1>4
    <3> QED
      BY <1>4, <3>1
  <2> QED
    BY <2>1, <2>2
<1>8. q[a + 1] = n
  BY <1>3, <1>4
<1>9. \A i \in 1 .. Len(q) : \/ i \in 1 .. a
                             \/ i = a + 1
                             \/ \E j \in 1 .. b : i = a + 1 + j
  <2>1. ASSUME NEW i \in 1 .. Len(q), i \notin 1 .. a, i # a + 1
        PROVE  i - a - 1 \in 1 .. b /\ i = a + 1 + (i - a - 1)
    BY <1>3, <1>4, <2>1
  <2> QED
    BY <2>1
<1>10. {q[i] : i \in 1 .. Len(q)} = {n} \cup U \cup W
  <2>1. ASSUME NEW i \in 1 .. Len(q)
        PROVE  q[i] \in {n} \cup U \cup W
    BY <1>6, <1>7, <1>8, <1>9
  <2>2. ASSUME NEW x \in {n} \cup U \cup W
        PROVE  \E i \in 1 .. Len(q) : q[i] = x
    <3>1. CASE x = n
      <4>1. a + 1 \in 1 .. Len(q)
        BY <1>3, <1>4
      <4> QED
        BY <1>8, <3>1, <4>1
    <3>2. CASE x \in U
      <4>1. PICK i \in 1 .. a : s[i] = x
        BY <1>2, <3>2 DEF Listed
      <4>2. i \in 1 .. Len(q)
        BY <1>3, <1>4
      <4> QED
        BY <1>6, <4>1, <4>2
    <3>3. CASE x \in W
      <4>1. PICK i \in 1 .. b : t[i] = x
        BY <1>2, <3>3 DEF Listed
      <4>2. a + 1 + i \in 1 .. Len(q)
        BY <1>3, <1>4
      <4> QED
        BY <1>7, <4>1, <4>2
    <3> QED
      BY <2>2, <3>1, <3>2, <3>3
  <2> QED
    BY <2>1, <2>2
<1>11. ASSUME NEW i \in 1 .. Len(q), NEW j \in 1 .. Len(q), i <= j
       PROVE  m[q[i]].key <= m[q[j]].key
  <2>1. /\ m[n].key \in Nat
        /\ \A x \in U : m[x].key \in Nat /\ m[x].key <= m[n].key
        /\ \A x \in W : m[x].key \in Nat /\ m[n].key <= m[x].key
    <3>1. U \subseteq 1 .. Len(m) /\ W \subseteq 1 .. Len(m) /\ n \in 1 .. Len(m)
      BY DEF Parts
    <3>2. \A x \in 1 .. Len(m) : m[x].key \in Nat
      BY NodeFields
    <3> QED
      BY <3>1, <3>2 DEF Parts
  <2>2. CASE i \in 1 .. a
    <3>1. CASE j \in 1 .. a
      <4>1. m[s[i]].key <= m[s[j]].key
        BY <1>2, <1>11, <2>2, <3>1 DEF Listed
      <4> QED
        BY <1>6, <2>2, <3>1, <4>1
    <3>2. CASE j = a + 1
      BY <1>6, <1>8, <2>1, <2>2, <3>2
    <3>3. CASE \E k \in 1 .. b : j = a + 1 + k
      <4>1. q[i] \in U /\ q[j] \in W
        BY <1>6, <1>7, <2>2, <3>3
      <4>2. /\ m[q[i]].key \in Nat /\ m[q[j]].key \in Nat
            /\ m[q[i]].key <= m[n].key /\ m[n].key <= m[q[j]].key
        BY <2>1, <4>1
      <4> QED
        BY <2>1, <4>2
    <3> QED
      BY <1>9, <3>1, <3>2, <3>3
  <2>3. CASE i = a + 1
    <3>1. CASE j \in 1 .. a
      BY <1>3, <1>11, <2>3, <3>1
    <3>2. CASE j = a + 1
      BY <1>8, <2>1, <2>3, <3>2
    <3>3. CASE \E k \in 1 .. b : j = a + 1 + k
      BY <1>7, <1>8, <2>1, <2>3, <3>3
    <3> QED
      BY <1>9, <3>1, <3>2, <3>3
  <2>4. CASE \E k \in 1 .. b : i = a + 1 + k
    <3>1. PICK k \in 1 .. b : i = a + 1 + k
      BY <2>4
    <3>2. PICK l \in 1 .. b : j = a + 1 + l
      BY <1>3, <1>9, <1>11, <3>1
    <3>3. k <= l
      BY <1>3, <1>11, <3>1, <3>2
    <3>4. m[t[k]].key <= m[t[l]].key
      BY <1>2, <3>3 DEF Listed
    <3> QED
      BY <1>7, <3>1, <3>2, <3>4
  <2> QED
    BY <1>9, <2>2, <2>3, <2>4
<1> QED
  BY <1>1, <1>4, <1>5, <1>10, <1>11 DEF Listed

\* There is a list of the nodes of every subtree, as InOrder makes it.
LEMMA OrderRecursion ==
  ASSUME NEW m \in Memory, Ranked(m)
  PROVE  \E f : f = [n \in 0 .. Len(m) |-> IF n = Null THEN <<>>
                                           ELSE f[m[n].left] \o <<n>> \o f[m[n].right]]
<1> DEFINE L == Len(m)
           V == Seq(Nat)
<1>1. PICK F : F = [x \in 1 .. L |-> [v \in V |-> [w \in V |-> v \o <<x>> \o w]]]
  OBVIOUS
<1>2. Combines(L, V, <<>>, F)
  <2>1. ASSUME NEW x \in 1 .. L, NEW v \in V, NEW w \in V
        PROVE  v \o <<x>> \o w \in V
    BY JoinedSeq
  <2>2. <<>> \in V
    OBVIOUS
  <2> HIDE DEF V
  <2>3. F \in [1 .. L -> [V -> [V -> V]]]
    BY <1>1, <2>1
  <2> QED
    BY <2>2, <2>3 DEF Combines
<1> HIDE DEF V
<1>3. PICK f \in [0 .. L -> V] :
        /\ f[Null] = <<>>
        /\ \A x \in 1 .. L : f[x] = F[x][f[m[x].left]][f[m[x].right]]
  BY <1>2, MemoryRecursion
<1>4. ASSUME NEW x \in 0 .. L
      PROVE  f[x] = IF x = Null THEN <<>> ELSE f[m[x].left] \o <<x>> \o f[m[x].right]
  <2>1. CASE x = Null
    BY <1>3, <2>1
  <2>2. CASE x # Null
    <3>1. x \in 1 .. L
      BY <2>2 DEF Null
    <3>2. m[x].left \in 0 .. L /\ m[x].right \in 0 .. L
      BY <3>1 DEF Ranked
    <3>3. PICK v, w : v = f[m[x].left] /\ w = f[m[x].right]
      OBVIOUS
    <3>4. v \in V /\ w \in V
      BY <1>3, <3>2, <3>3
    <3>5. F[x][v][w] = v \o <<x>> \o w
      BY <1>1, <3>1, <3>4
    <3>6. f[x] = F[x][v][w]
      BY <1>3, <3>1, <3>3
    <3> QED
      BY <2>2, <3>3, <3>5, <3>6
  <2> QED
    BY <2>1, <2>2
<1>5. f = [x \in 0 .. L |-> f[x]]
  BY <1>3
<1> QED
  BY <1>4, <1>5

\* The list of a tree has all its nodes, by ascending keys.
LEMMA OrderListed ==
  ASSUME node \in Memory, Ranked(node), NEW S, Tree(node, S, root, FALSE)
  PROVE  Listed(node, InOrder, S[root])
<1> DEFINE L == Len(node)
           G(f) == [n \in 0 .. L |-> IF n = Null THEN <<>>
                                     ELSE f[node[n].left] \o <<n>> \o f[node[n].right]]
           from == CHOOSE f : f = G(f)
<1>1. from = G(from)
  <2>1. \E f : f = G(f)
    BY OrderRecursion
  <2> HIDE DEF G
  <2> QED
    BY <2>1
<1>2. InOrder = from[root]
  BY DEF InOrder
<1> HIDE DEF from
<1>3. \A n \in 0 .. L : from[n] = IF n = Null THEN <<>>
                                  ELSE from[node[n].left] \o <<n>> \o from[node[n].right]
  BY <1>1
<1> HIDE DEF G
<1> DEFINE Wrong == {k \in Nat : \E n \in 0 .. L :
                       /\ avl_height(node, n) = k /\ Tree(node, S, n, FALSE)
                       /\ ~ Listed(node, from[n], S[n])}
<1>4. Wrong = {}
  <2>1. SUFFICES ASSUME Wrong # {} PROVE FALSE
    OBVIOUS
  <2>2. PICK k \in Wrong : \A j \in Wrong : k <= j
    <3>1. Wrong \subseteq Nat
      OBVIOUS
    <3> HIDE DEF Wrong
    <3> QED
      BY <2>1, <3>1, NatMinimum
  <2>3. PICK n \in 0 .. L : /\ avl_height(node, n) = k /\ Tree(node, S, n, FALSE)
                            /\ ~ Listed(node, from[n], S[n])
    BY <2>2
  <2>4. n # Null
    <3>1. SUFFICES ASSUME n = Null PROVE FALSE
      OBVIOUS
    <3>2. S[n] = {} /\ from[n] = <<>>
      BY <1>3, <2>3, <3>1 DEF Tree
    <3>3. Listed(node, <<>>, {})
      <4>1. IsFiniteSet({}) /\ Cardinality({}) = 0
        BY FS_EmptySet
      <4>2. <<>> \in Seq(Nat) /\ Len(<<>>) = 0 /\ 1 .. 0 = {}
        OBVIOUS
      <4> QED
        BY <4>1, <4>2 DEF Listed
    <3> QED
      BY <2>3, <3>2, <3>3
  <2>5. /\ n \in 1 .. L /\ Linked(node, S, n, "left", "right")
        /\ Tree(node, S, node[n].left, FALSE) /\ Tree(node, S, node[n].right, FALSE)
    <3>1. Sides("left", "right")
      BY DEF Sides
    <3>2. /\ n \in 1 .. L /\ Linked(node, S, n, "left", "right")
          /\ Tree(node, S, node[n]["left"], FALSE) /\ Tree(node, S, node[n]["right"], FALSE)
      BY <2>3, <2>4, <3>1, PartTree
    <3> QED
      BY <3>2
  <2>6. ASSUME NEW c \in 0 .. L, avl_height(node, c) < k, Tree(node, S, c, FALSE)
        PROVE  Listed(node, from[c], S[c])
    <3>1. avl_height(node, c) \in Nat
      BY <2>6, HeightType
    <3>2. avl_height(node, c) \notin Wrong
      <4>1. k \in Nat /\ ~ (k <= avl_height(node, c))
        BY <2>2, <2>6, <3>1
      <4> HIDE DEF Wrong
      <4> QED
        BY <2>2, <4>1
    <3> QED
      BY <2>6, <3>1, <3>2
  <2>7. PICK c, d : c = node[n].left /\ d = node[n].right
    OBVIOUS
  <2>8. Listed(node, from[c], S[c]) /\ Listed(node, from[d], S[d])
    <3>1. /\ c \in 0 .. L /\ d \in 0 .. L
          /\ avl_height(node, c) < k /\ avl_height(node, d) < k
      BY <2>3, <2>5, <2>7 DEF Ranked
    <3>2. Tree(node, S, c, FALSE) /\ Tree(node, S, d, FALSE)
      BY <2>5, <2>7
    <3> QED
      BY <2>6, <3>1, <3>2
  <2>9. Parts(node, n, S[c], S[d]) /\ S[n] = {n} \cup S[c] \cup S[d]
    <3>1. /\ S[n] = {n} \cup S[c] \cup S[d]
          /\ n \notin S[c] /\ n \notin S[d] /\ S[c] \cap S[d] = {}
          /\ \A x \in S[c] : Before("left", node[x].key, node[n].key)
          /\ \A x \in S[d] : Before("right", node[x].key, node[n].key)
      BY <2>5, <2>7 DEF Linked
    <3>2. S[n] \subseteq 1 .. L
      BY <2>3 DEF Tree
    <3> QED
      BY <2>5, <3>1, <3>2 DEF Parts, Before
  <2>10. Listed(node, from[c] \o <<n>> \o from[d], {n} \cup S[c] \cup S[d])
    BY <2>8, <2>9, JoinListed
  <2>11. from[n] = from[c] \o <<n>> \o from[d]
    BY <1>3, <2>4, <2>7
  <2> QED
    BY <2>3, <2>9, <2>10, <2>11
<1>5. Listed(node, from[root], S[root])
  <2>1. root \in 0 .. L
    BY DEF Tree
  <2>2. avl_height(node, root) \in Nat
    BY <2>1, HeightType
  <2> QED
    BY <1>4, <2>1, <2>2
<1> QED
  BY <1>2, <1>5

\* The nodes are in order.
LEMMA OrderedHolds == AvlInv => Ordered
<1> SUFFICES ASSUME AvlInv PROVE Ordered
  OBVIOUS
<1>1. node \in Memory /\ Len(bound) = Len(node) /\ Len(node) \in Nat
  BY DEF AvlInv, Memory
<1>2. PICK S \in Family : Tree(node, S, root, Distinct(node)) /\ S[root] = 1 .. Len(node)
  BY DEF AvlInv
<1>3. Ranked(node) /\ Tree(node, S, root, FALSE)
  BY <1>1, <1>2, TreeRanked, TreeAnyway
<1>4. PICK s : s = InOrder
  OBVIOUS
<1>5. Listed(node, s, 1 .. Len(node))
  BY <1>1, <1>2, <1>3, <1>4, OrderListed
<1>6. Len(s) = Len(bound)
  <2>1. Cardinality(1 .. Len(node)) = Len(node)
    <3>1. 1 \in Int /\ Len(node) \in Int
      BY <1>1
    <3>2. Cardinality(1 .. Len(node)) = IF 1 > Len(node) THEN 0 ELSE Len(node) - 1 + 1
      BY <3>1, FS_Interval
    <3> QED
      BY <1>1, <3>2
  <2> QED
    BY <1>1, <1>5, <2>1 DEF Listed
<1>7. ToSet(s) = 1 .. Len(node)
  <2>1. DOMAIN s = 1 .. Len(s)
    BY <1>5 DEF Listed
  <2> QED
    BY <1>5, <2>1 DEF Listed, ToSet
<1>8. ASSUME NEW i \in 1 .. Len(s) - 1
      PROVE  node[s[i]].key <= node[s[i + 1]].key
  <2>1. i \in 1 .. Len(s) /\ i + 1 \in 1 .. Len(s) /\ i <= i + 1
    BY <1>1, <1>6
  <2> QED
    BY <1>5, <2>1 DEF Listed
<1> QED
  BY <1>4, <1>6, <1>7, <1>8 DEF Ordered

\* No rotation loses a node, has one twice or leaves one where a search would
\* not pass, also where the same key has several nodes: in order, the nodes
\* are all there and their keys ascend.
THEOREM TreeOrdered == Spec => []Ordered
BY TreeOfBound, OrderedHolds, PTL
=============================================================================
