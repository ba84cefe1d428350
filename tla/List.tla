-------------------------------- MODULE List --------------------------------
(***************************************************************************)
(* The singly linked list of list.c, with an iterator on it that is        *)
(* advanced while the list changes.  Its nodes are allocated in the arena  *)
(* and never freed: one that was taken off the list is still there, and    *)
(* still linked to what came after it.                                     *)
(***************************************************************************)
EXTENDS Integers, Sequences, FiniteSets, SequencesExt

CONSTANTS
  Values,      \* what is put on the list
  NULL,        \* no value
  COUNT_BITS,  \* the width of LIST.count
  Room         \* how many nodes the arena has room for

ASSUME ListAssumption ==
  NULL \notin Values /\ COUNT_BITS \in Nat /\ Room \in Nat

VARIABLES
  node,   \* the nodes, by address
  list,   \* the LIST
  ret,    \* what the last call returned
  iter,   \* the iterator of list_iter: the node it is to return next
  seen,   \* the nodes it returned since it began
  ahead   \* the nodes put in front since it began

iteration == <<iter, seen, ahead>>
vars == <<node, list, ret, iteration>>

Nil == 0

Count(i) == i % 2 ^ COUNT_BITS

Empty == [head |-> Nil, tail |-> Nil, count |-> 0]

\* bistack_alloc gives the next address.  Where there is no room it throws
\* before anything is written.
new == Len(node) + 1
HasRoom == Len(node) < Room

-----------------------------------------------------------------------------
\* Fault: the old tail is not linked to the new node where it is the head.
LinkUnlessHead(val) ==
  LET more == Append(node, [next |-> Nil, val |-> val]) IN
  IF list.head = list.tail THEN more ELSE [more EXCEPT ![list.tail].next = new]

Link(val) ==
  LET more == Append(node, [next |-> Nil, val |-> val]) IN
  IF list.head = Nil THEN more ELSE [more EXCEPT ![list.tail].next = new]

list_append(val) ==
  /\ HasRoom
  /\ node' = Link(val)
  /\ list' = [head  |-> IF list.head = Nil THEN new ELSE list.head,
              tail  |-> new,
              count |-> Count(list.count + 1)]
  /\ ret' = val
  /\ UNCHANGED iteration

list_unshift(val) ==
  /\ HasRoom
  /\ node' = Append(node, [next |-> list.head, val |-> val])
  /\ list' = [head |-> new,
              tail |-> IF list.tail = Nil THEN new ELSE list.tail,
              count |-> Count(list.count + 1)]
  /\ ret' = val
  /\ ahead' = ahead \cup {new}
  /\ UNCHANGED <<iter, seen>>

-----------------------------------------------------------------------------
\* The nodes from n on.
From(n) ==
  LET on[x \in 0 .. Len(node)] == IF x = Nil THEN <<>> ELSE <<x>> \o on[node[x].next]
  IN on[n]

\* The node before the tail.  Past the tail, the walk ends at a null.
SecondLast ==
  LET before == {i \in DOMAIN From(list.head) : node[From(list.head)[i]].next = list.tail} IN
  From(list.head)[CHOOSE i \in before : \A j \in before : i <= j]

\* Fault: the count is not made smaller.
OneLessKept(l) == l.count

OneLess(l) == Count(l.count - 1)

\* The nodes are walked for the one before the tail, and the tail is cut off.
list_pop ==
  /\ IF list.head = Nil
       THEN ret' = NULL /\ UNCHANGED <<node, list>>
     ELSE IF list.head = list.tail
       THEN ret' = node[list.head].val /\ list' = Empty /\ UNCHANGED node
     ELSE /\ ret' = node[list.tail].val
          /\ node' = [node EXCEPT ![SecondLast].next = Nil]
          /\ list' = [list EXCEPT !.tail = SecondLast, !.count = OneLess(list)]
  /\ UNCHANGED iteration

list_shift ==
  /\ IF list.head = Nil
       THEN ret' = NULL /\ UNCHANGED list
     ELSE /\ ret' = node[list.head].val
          /\ list' = IF list.head = list.tail THEN Empty
                     ELSE [list EXCEPT !.head = node[list.head].next,
                                       !.count = OneLess(list)]
  /\ UNCHANGED <<node, iteration>>

-----------------------------------------------------------------------------
\* Fault: the tail is not gone to.
FollowingWithin(n) == IF n = list.tail \/ node[n].next = list.tail THEN Nil ELSE node[n].next

Following(n) == node[n].next

\* A null iterator begins at the head, also where it became null at the end.
list_iter ==
  /\ IF iter = Nil
       THEN /\ list.head # Nil /\ list.tail # Nil
            /\ iter' = Following(list.head)
            /\ seen' = <<list.head>>
            /\ ahead' = {}
       ELSE /\ iter' = Following(iter)
            /\ seen' = Append(seen, iter)
            /\ UNCHANGED ahead
  /\ UNCHANGED <<node, list, ret>>

Init ==
  /\ node = <<>> /\ list = Empty /\ ret = NULL
  /\ iter = Nil /\ seen = <<>> /\ ahead = {}

Next ==
  \/ \E v \in Values : list_append(v) \/ list_unshift(v)
  \/ list_pop \/ list_shift \/ list_iter

Spec == Init /\ [][Next]_vars

-----------------------------------------------------------------------------
\* The values from the head on.
Items == [i \in DOMAIN From(list.head) |-> node[From(list.head)[i]].val]

Abstract == INSTANCE Deque WITH items <- Items

\* A LIST is a sequence with two ends: each operation returns and leaves what
\* it promises, whatever was done at either end before.
DequeSpec == Abstract!Spec

\* The count is the length, in as many bits as it has, and the tail is the
\* last node, also where the count came round to 0 in between.
CountIsLength ==
  /\ list.count = Count(Len(Items))
  /\ list.tail = IF list.head = Nil THEN Nil ELSE Last(From(list.head))

\* An iteration that ends has returned every node that is on the list, once
\* and in order, but for those put in front of the list after it began; it
\* may have returned others, that are no longer on it.  Only an iterator that
\* was cut off from the list, by popping the node it is to return next or by
\* taking the last node of the list, misses what is appended then, and
\* nothing tells it so.
IterationComplete ==
  [][ LET from == From(IF iter = Nil THEN list.head ELSE iter) IN
      iter' = Nil /\ seen' # seen /\ Contains(from, list.tail) =>
        SelectSeq(From(list.head), LAMBDA n : n \notin ahead')
          = SelectSeq(seen', LAMBDA n : Contains(From(list.head), n)) ]_vars

=============================================================================
