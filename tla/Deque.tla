------------------------------- MODULE Deque -------------------------------
(***************************************************************************)
(* What a LIST promises its clients: a sequence of values with two ends,   *)
(* of which an empty one gives NULL.                                       *)
(***************************************************************************)
EXTENDS Sequences, SequencesExt

CONSTANTS Values, NULL

VARIABLES
  items,  \* the values in the list
  ret     \* what the last call returned

Init == items = <<>> /\ ret = NULL

Append1(v) == items' = Append(items, v) /\ ret' = v

Unshift(v) == items' = <<v>> \o items /\ ret' = v

TakeLast ==
  IF items = <<>> THEN ret' = NULL /\ UNCHANGED items
  ELSE ret' = Last(items) /\ items' = Front(items)

TakeFirst ==
  IF items = <<>> THEN ret' = NULL /\ UNCHANGED items
  ELSE ret' = Head(items) /\ items' = Tail(items)

Next ==
  \/ \E v \in Values : Append1(v) \/ Unshift(v)
  \/ TakeLast
  \/ TakeFirst

Spec == Init /\ [][Next]_<<items, ret>>

=============================================================================
