---------------------------- MODULE BistackCalls ----------------------------
(***************************************************************************)
(* What a C function leaves behind when it makes several bistack calls in  *)
(* a row: the calls run in order, the first that does not fit throws       *)
(* BISTACK_OUT_OF_MEMORY, and the ones made before it are not undone.      *)
(***************************************************************************)
EXTENDS BistackOps, SequencesExt

\* The calls, as data.  bistack_mark allocates a pointer.
MarkCall      == [op |-> "bistack_mark",   size |-> PTR]
AllocCall(n)  == [op |-> "bistack_alloc",  size |-> n]
AllocFCall(n) == [op |-> "bistack_allocf", size |-> n]

Perform(bs, call) ==
  CASE call.op = "bistack_mark"   -> bistack_mark(bs)
    [] call.op = "bistack_alloc"  -> bistack_alloc(bs, call.size)
    [] call.op = "bistack_allocf" -> bistack_allocf(bs, call.size)

After(done, call) ==
  IF done.ok /\ CanAlloc(done.bs, call.size)
    THEN [bs |-> Perform(done.bs, call), ok |-> TRUE]
    ELSE [bs |-> done.bs, ok |-> FALSE]

\* The arena after the calls, and whether none of them threw.  (The choice is
\* among one: it makes TLC evaluate what a call finds only once.)
PerformAll(bs, calls) ==
  FoldLeft(LAMBDA done, call :
             CHOOSE next \in {After(found, call) : found \in {done}} : TRUE,
           [bs |-> bs, ok |-> TRUE], calls)

=============================================================================
