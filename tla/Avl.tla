-------------------------------- MODULE Avl --------------------------------
(***************************************************************************)
(* The binary search tree of avl.c that holds the bindings of a symbol     *)
(* table, and its conversion to an array.  Nodes live in the arena in the  *)
(* order they were allocated; an insertion returns by rotating on the way  *)
(* back up, in place.                                                      *)
(***************************************************************************)
EXTENDS Integers, Sequences, SequencesExt, FiniteSetsExt

CONSTANTS
  Keys,      \* the symbols that are bound
  Junk,      \* a key that lay in the array's memory before
  Room,      \* how many nodes the arena has room for
  FewKeys,   \* bound of the model: the keys of a tree where one is bound again
  FewNodes   \* bound of the model: how many nodes such a tree has

ASSUME AvlAssumption ==
  /\ Keys \subseteq Nat \ {0} /\ Junk \in Nat
  /\ Room \in Nat \ {0}
  /\ FewKeys \subseteq Keys /\ FewNodes \in 0 .. Room

VARIABLES
  node,      \* the nodes, by address
  root,      \* the address of the root
  bound,     \* what the client bound, in order
  pc,        \* "idle", "array" in avl_to_array, or "crashed"
  p,         \* the node avl_to_array is at
  path,      \* its stack of nodes
  path_dir,  \* its bits: whether a node's right subtree was visited
  k_i,       \* the array index it is at
  keyvalues  \* the array

walk == <<p, path, path_dir, k_i>>
vars == <<node, root, bound, pc, walk, keyvalues>>

Null == 0

AVL_NOTSET == 0

NewNode(key, value) ==
  [key |-> key, value |-> value, left |-> Null, right |-> Null, height |-> 1]

-----------------------------------------------------------------------------
(* Rotations.  An operator that changes nodes takes them as m and returns  *)
(* them with the root of the subtree.                                      *)

avl_height(m, n) == IF n = Null THEN 0 ELSE m[n].height

\* Fault: the lower subtree decides.
HeightAboveLower(m, n) ==
  1 + Min({avl_height(m, m[n].left), avl_height(m, m[n].right)})

HeightAbove(m, n) ==
  1 + Max({avl_height(m, m[n].left), avl_height(m, m[n].right)})

avl_get_balance(m, n) == avl_height(m, m[n].left) - avl_height(m, m[n].right)

Heighten(m, n) == [m EXCEPT ![n].height = HeightAbove(m, n)]

\* Fault: the height of the new root is set before that of the old one.
UpdateHeightsTopFirst(m, lower, upper) == Heighten(Heighten(m, upper), lower)

UpdateHeights(m, lower, upper) == Heighten(Heighten(m, lower), upper)

\* Fault: the subtree between the two is lost.
TurnLosing(m, n, child, side, other) ==
  [m EXCEPT ![child][other] = n, ![n][side] = Null]

\* The child takes its parent's place, and the parent what was between them.
Turn(m, n, child, side, other) ==
  [m EXCEPT ![child][other] = n, ![n][side] = m[child][other]]

Kept(m, n) == [mem |-> m, top |-> n, crash |-> FALSE]

\* The code reads the child it turns around, also where there is none.
Rotate(m, n, side, other) ==
  LET child == m[n][side] IN
  IF child = Null THEN [Kept(m, n) EXCEPT !.crash = TRUE]
  ELSE Kept(UpdateHeights(Turn(m, n, child, side, other), n, child), child)

avl_right_rotate(m, y) == Rotate(m, y, "left", "right")

\* Fault: copied from the other rotation, and not turned around.
NotTurnedAround(m, x) == Rotate(m, x, "left", "right")

avl_left_rotate(m, x) == Rotate(m, x, "right", "left")

-----------------------------------------------------------------------------
(* avl_insert.                                                             *)

\* A child is rotated first, then its parent to the other side.
DoubleRotate(inner, n, side, other) ==
  IF inner.crash THEN inner
  ELSE Rotate([inner.mem EXCEPT ![n][side] = inner.top], n, side, other)

\* Where the new key went decides between the four cases; a key that equals
\* the child's is in none of them.
Rebalance(m, n, key) ==
  LET balance == avl_get_balance(m, n)
      l == m[n].left
      r == m[n].right
  IN CASE balance > 1 /\ key < m[l].key  -> avl_right_rotate(m, n)
       [] balance < -1 /\ key > m[r].key -> avl_left_rotate(m, n)
       [] balance > 1 /\ key > m[l].key  ->
            DoubleRotate(avl_left_rotate(m, l), n, "left", "right")
       [] balance < -1 /\ key < m[r].key ->
            DoubleRotate(avl_right_rotate(m, r), n, "right", "left")
       [] OTHER -> Kept(m, n)

\* Down to where the key belongs, and back up.
avl_insert(m, top, key, value) ==
  LET new == Len(m) + 1
      into[n \in 0 .. Len(m)] ==
        IF n = Null THEN Kept(Append(m, NewNode(key, value)), new)
        ELSE LET side == IF key < m[n].key THEN "left" ELSE "right"
                 below == into[m[n][side]]
             IN IF below.crash THEN below
                ELSE Rebalance(Heighten([below.mem EXCEPT ![n][side] = below.top], n),
                               n, key)
  IN into[top]

\* Fault: an equal key is looked for on the right, where insertion put it.
GetRightmost(m, top, key) ==
  LET at[n \in 0 .. Len(m)] ==
        IF n = Null THEN AVL_NOTSET
        ELSE IF key < m[n].key THEN at[m[n].left]
        ELSE IF key = m[n].key /\ m[n].right = Null THEN m[n].value
        ELSE at[m[n].right]
  IN at[top]

avl_get(m, top, key) ==
  LET at[n \in 0 .. Len(m)] ==
        IF n = Null THEN AVL_NOTSET
        ELSE IF key = m[n].key THEN m[n].value
        ELSE at[IF key < m[n].key THEN m[n].left ELSE m[n].right]
  IN at[top]

\* No key has two nodes.
Distinct(m) == IsInjective([n \in 1 .. Len(m) |-> m[n].key])

IsBound(key) == \E i \in 1 .. Len(bound) : bound[i].key = key

Limit(key) ==
  IF Distinct(node) /\ ~IsBound(key) THEN Room
  ELSE IF {key} \cup {node[n].key : n \in 1 .. Len(node)} \subseteq FewKeys
    THEN FewNodes ELSE 0

\* Where the arena has no room avl_new_node throws before a pointer is
\* written, and nothing has happened.  A null pointer read ends the program.
Insert(key) ==
  LET value == Len(bound) + 1
      done == avl_insert(node, root, key, value)
  IN /\ pc = "idle"
     /\ Len(node) < Limit(key)
     /\ keyvalues' = <<>>
     /\ IF done.crash
          THEN pc' = "crashed" /\ UNCHANGED <<node, root, bound>>
          ELSE /\ node' = done.mem
               /\ root' = done.top
               /\ bound' = Append(bound, [key |-> key, value |-> value])
               /\ UNCHANGED pc
     /\ UNCHANGED walk

-----------------------------------------------------------------------------
(* avl_to_array.  Its bits and its index are 16 bits wide.                 *)

Word(i) == i % 2 ^ 16

avl_array_size(m, top) == IF top = Null THEN 0 ELSE 2 ^ avl_height(m, top)

Zero == [key |-> 0, value |-> AVL_NOTSET]

\* The entries that are cleared first, meant to be the last row, and one
\* place to the right of it.
Cleared(height) == 2 ^ (height - 1) .. 2 ^ height - 1

\* The array is memory that was used before.
BeforeWalk(top) ==
  [i \in 0 .. avl_array_size(node, top) - 1 |->
     IF i \in Cleared(node[top].height) THEN Zero
     ELSE [key |-> Junk, value |-> AVL_NOTSET]]

ToArray ==
  /\ pc = "idle" /\ root # Null /\ keyvalues = <<>>
  /\ pc' = "array"
  /\ p' = root /\ path' = <<>> /\ path_dir' = 0 /\ k_i' = 0
  /\ keyvalues' = BeforeWalk(root)
  /\ UNCHANGED <<node, root, bound>>

LeftSpine(n) ==
  LET from[x \in 0 .. Len(node)] ==
        IF x = Null THEN <<>> ELSE <<x>> \o from[node[x].left]
  IN from[n]

RightVisited(bits) == bits % 2 = 1

\* Fault: the bit is not set.
ForgetRight(bits) == bits

MarkRight(bits) == bits + 1

\* Fault: the left child's index is taken.
RightIndexLeft(k) == 2 * k + 1

RightIndex(k) == 2 * k + 2

\* One turn of the loop: down the left, one node up, and if that one was
\* not seen before into the array, and over to its right.
Iterate ==
  LET spine == IF RightVisited(path_dir) THEN <<>> ELSE LeftSpine(p)
      down == path \o spine
      bits == Word(path_dir * 2 ^ Len(spine)) \div 2
      k == Word((Word((k_i + 1) * 2 ^ Len(spine) - 1) - 1) \div 2)
      top == Last(down)
      right == node[top].right
  IN /\ pc = "array"
     /\ IF RightVisited(bits)
          THEN /\ p' = top /\ path' = Front(down) /\ path_dir' = bits /\ k_i' = k
               /\ UNCHANGED keyvalues
          ELSE /\ keyvalues' = (k :> [key |-> node[top].key, value |-> node[top].value])
                                 @@ keyvalues
               /\ IF right # Null
                    THEN /\ p' = right /\ path' = down
                         /\ path_dir' = Word(2 * MarkRight(bits))
                         /\ k_i' = Word(RightIndex(k))
                    ELSE /\ p' = top /\ path' = Front(down)
                         /\ path_dir' = MarkRight(bits) /\ k_i' = k
     /\ pc' = IF path' = <<>> THEN "idle" ELSE "array"
     /\ UNCHANGED <<node, root, bound>>

Init ==
  /\ node = <<>> /\ root = Null /\ bound = <<>> /\ pc = "idle"
  /\ p = Null /\ path = <<>> /\ path_dir = 0 /\ k_i = 0 /\ keyvalues = <<>>

Next == (\E key \in Keys : Insert(key)) \/ ToArray \/ Iterate

Spec == Init /\ [][Next]_vars

\* A call that was made runs to its end.
FairSpec == Spec /\ WF_vars(Iterate)

-----------------------------------------------------------------------------
InOrder ==
  LET from[n \in 0 .. Len(node)] ==
        IF n = Null THEN <<>>
        ELSE from[node[n].left] \o <<n>> \o from[node[n].right]
  IN from[root]

\* The real height of a subtree.
Depth ==
  LET of[n \in 0 .. Len(node)] ==
        IF n = Null THEN 0 ELSE 1 + Max({of[node[n].left], of[node[n].right]})
  IN of

\* No rotation loses a node, has one twice or leaves one where a search
\* would not pass: in order, the nodes are all there and their keys ascend.
Ordered ==
  LET order == InOrder IN
  /\ Len(order) = Len(bound)
  /\ ToSet(order) = 1 .. Len(node)
  /\ \A i \in 1 .. Len(order) - 1 : node[order[i]].key <= node[order[i + 1]].key

\* The height a node records is its height, so that imbalance is noticed;
\* and where no key was bound twice every node is balanced ("avl tree is not
\* balanced", avl.c:251).
Balanced ==
  LET depth == Depth IN
  \A n \in 1 .. Len(node) :
    /\ node[n].height = depth[n]
    /\ Distinct(node) => avl_get_balance(node, n) \in -1 .. 1

\* A key that was bound is found, with a value bound to it, and no other is.
Found ==
  \A k \in Keys :
    LET values == {bound[i].value : i \in {j \in 1 .. Len(bound) : bound[j].key = k}} IN
    avl_get(node, root, k) \in (IF values = {} THEN {AVL_NOTSET} ELSE values)

\* The heap index of each node: the root's is 0, and the children of the
\* node at i are at 2i+1 and 2i+2.
IndexOf ==
  LET of[n \in 1 .. Len(node)] ==
        IF n = root THEN 0
        ELSE LET parent == CHOOSE x \in 1 .. Len(node) : n \in {node[x].left, node[x].right}
             IN 2 * of[parent] + (IF n = node[parent].left THEN 1 ELSE 2)
  IN [n \in 1 .. Len(node) |-> of[n]]

\* The array that avl_to_array fills has every node at its heap index, and
\* the walk writes to no other place: each is as it was when the walk began,
\* cleared or not.  No claim is made that those without a node are empty: the
\* first place of the last row keeps what was in memory, though "the last row
\* needs to be zero'd" (avl.c:164), and so do the rows above.
ArrayHoldsTree ==
  pc = "idle" /\ keyvalues # <<>> =>
    LET index == IndexOf
        At(i) == CHOOSE n \in 1 .. Len(node) : index[n] = i
    IN keyvalues = [i \in DOMAIN BeforeWalk(root) |->
                      IF i \in Range(index)
                        THEN [key |-> node[At(i)].key, value |-> node[At(i)].value]
                        ELSE BeforeWalk(root)[i]]

\* The stack of avl_to_array has a place for each node it pushes, and its
\* index stays in the tree: the asserts (avl.c:173, 180 and 187) hold, and
\* the push at avl.c:194, which has none, needs none.
PathFits ==
  pc = "array" =>
    /\ Len(path) + Len(IF RightVisited(path_dir) THEN <<>> ELSE LeftSpine(p))
         \in 1 .. node[root].height
    /\ k_i < 2 ^ node[root].height

\* avl_to_array returns.
ToArrayReturns == pc = "array" ~> pc = "idle"

\* "insert a node in a subtree" (avl.h:36): every insertion does.
InsertionCompletes == pc # "crashed"

\* A rotation reads a child that it takes to be there (avl.c:32 and 50).  It
\* is, where no key was bound twice and one that is not bound goes in.
FreshInsertionCompletes ==
  \A key \in Keys :
    Distinct(node) /\ ~IsBound(key) => ~avl_insert(node, root, key, Len(bound) + 1).crash

=============================================================================
