--------------------------- MODULE CharacterCount ---------------------------
(***************************************************************************)
(* cellheader_character_count of reader.c: how many characters a list will *)
(* be printed in.  It walks the cells as they lie in memory, with nothing  *)
(* but the lengths in the headers to tell where a list ends, and a stack   *)
(* of bytes that count the elements still to come.                         *)
(***************************************************************************)
EXTENDS Reader

CONSTANTS
  FRAMES,     \* places of frame_stack: 16
  FRAME_BITS  \* width of one of them: 8

\* A frame is an unsigned byte.
Byte(n) == n % 2 ^ FRAME_BITS

\* What a cell adds to the count.
Characters(cell) ==
  CASE cell.type = "AST_LIST"    -> 4
    [] cell.type = "AST_INTEGER" -> 6
    [] cell.type = "AST_SYMBOL"  -> 2 + cell.length

OneDown(frames) == [frames EXCEPT ![Len(frames)] = Byte(@ - 1)]

\* Fault: only the innermost list is found to be complete.
PopOnce(frames) ==
  IF Len(frames) > 1 /\ Last(frames) = 0 THEN OneDown(Front(frames)) ELSE frames

\* The frames of complete lists are popped, and count for the list outside.
PopComplete(frames) ==
  LET pop[f \in Seq(Nat)] ==
        IF Len(f) > 1 /\ Last(f) = 0 THEN pop[OneDown(Front(f))] ELSE f
  IN pop[frames]

TooDeep == [frames |-> <<>>, count |-> -1]    \* beyond frame_stack

Lost == -2    \* the walk went on behind the last cell

\* One turn of the loop, for the cell that the walk has come to.
Step(walk, cell) ==
  IF \/ walk = TooDeep
     \/ cell.type = "AST_LIST" /\ Len(walk.frames) = FRAMES
    THEN TooDeep
    ELSE [frames |-> PopComplete(IF cell.type = "AST_LIST"
                                   THEN Append(walk.frames, Byte(cell.length))
                                   ELSE OneDown(walk.frames)),
          count  |-> walk.count + Characters(cell)]

\* The count for the list whose header is cell i.
cellheader_character_count(i) ==
  LET after[n \in Nat] ==
        Step(IF n = i THEN [frames |-> <<>>, count |-> 0] ELSE after[n - 1],
             cells[n].cell)
      ends == {n \in i .. Len(cells) :
                 after[n].frames = <<>> \/ after[n].frames[1] = 0}
  IN IF ends = {} THEN Lost ELSE after[Min(ends)].count

-----------------------------------------------------------------------------
\* Where the k-th open list's cells end, the ones of the list opened in it
\* and an unfinished atom left out.
LastInside(k) == IF k < Len(open) THEN open[k + 1].cell - 1 ELSE Len(cells)

\* No list in it has more elements than a frame or a header can count.
Countable(k) ==
  LET p == Grammar!Reference(text) IN
  \A i \in open[k].cell .. LastInside(k) :
    p.cells[i].type = "AST_LIST" =>
      p.cells[i].length < Min({2 ^ FRAME_BITS, ListModulus})

\* Wherever reading has stopped, the count of each open list covers exactly
\* the cells that were completed in it, whatever lists they are nested in:
\* the lengths in the headers and the order of the cells in memory agree with
\* the tree.  (Lengths that came round to zero end the walk too early, and a
\* tree deeper than frame_stack leaves it: both are excepted.)
CountsTheTree ==
  pc = "idle" =>
    \A k \in DOMAIN OpenLists :
      LET count == cellheader_character_count(open[k].cell) IN
      count # TooDeep.count /\ Countable(k) =>
        count = MapThenSumSet(LAMBDA i : Characters(cells[i].cell),
                              open[k].cell .. LastInside(k))

=============================================================================
