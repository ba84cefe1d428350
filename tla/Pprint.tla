------------------------------- MODULE Pprint -------------------------------
(***************************************************************************)
(* reader_pprint of reader.c: prints the root cell, through a putc that    *)
(* may refuse a character, in which case it returns FALSE and goes on at   *)
(* the next call from a PPRINT_CONTEXT that it keeps in the arena.  Of its *)
(* frames it makes one, for the root, whose cell is a list without a       *)
(* prefix: what it does with other cells is never come to.                 *)
(*                                                                         *)
(* The host finishes a pprint that it began before it reads on.            *)
(***************************************************************************)
EXTENDS Reader

CONSTANT Stale    \* what a byte of memory that was just allocated may hold

ASSUME StaleAssumption == Stale \subseteq 0 .. 255 /\ Stale # {}

VARIABLES
  at,          \* a pprint: "no", "running", "refused", or "null" once it read
               \* through a null pointer
  printer,     \* the PPRINT_CONTEXT: its mark and is_printing_newline
  frame_stack  \* the prefix_counter of each frame on its list

printing == <<at, printer, frame_stack>>

NotPrinting ==
  /\ at = "no"
  /\ printer = [mark |-> NULL, newline |-> 0]
  /\ frame_stack = <<>>

-----------------------------------------------------------------------------
\* Fault: nothing marks where the pprint began.
PprintCallsUnmarked ==
  <<AllocCall(SizeOf["PPRINT_CONTEXT"]), AllocCall(SizeOf["LIST"]),
    AllocCall(SizeOf["PPRINT_FRAME"]), AllocCall(SizeOf["LIST_NODE"])>>

PprintCalls ==
  <<MarkCall, AllocCall(SizeOf["PPRINT_CONTEXT"]), AllocCall(SizeOf["LIST"]),
    AllocCall(SizeOf["PPRINT_FRAME"]), AllocCall(SizeOf["LIST_NODE"])>>

\* The first call makes the context and the frame.  It initializes neither
\* is_printing_newline nor prefix_counter.
Pprint ==
  /\ pc = "idle" /\ missing.mark = NULL
  /\ UNCHANGED <<open, stream, locals, output, in_comment, result>>
  /\ \/ /\ at = "refused"
        /\ at' = "running"
        /\ UNCHANGED <<bs, cells, pc, thrown, printer, frame_stack>>
     \/ /\ at = "no"
        /\ LET done == PerformAll(bs, PprintCalls) IN
           /\ bs' = done.bs
           /\ Clobber(done.bs)
           /\ IF ~done.ok
                THEN Throw("BISTACK_OUT_OF_MEMORY") /\ UNCHANGED printing
                ELSE /\ at' = "running"
                     /\ \E newline, prefix_counter \in Stale :
                          /\ printer' = [mark |-> StackTop(bs), newline |-> newline]
                          /\ frame_stack' = <<prefix_counter>>
                     /\ UNCHANGED <<pc, thrown>>

\* putc takes a character, or refuses it and leaves all as it was.
Put(context, frames) ==
  \/ at' = "refused" /\ UNCHANGED <<printer, frame_stack>>
  \/ printer' = context /\ frame_stack' = frames /\ UNCHANGED at

\* A new line and an indentation that nobody asked for: as many blanks as the
\* memory of the context happened to say.
Indent ==
  /\ printer.newline # 0
  /\ \E newline \in {0, printer.newline} :
       Put([printer EXCEPT !.newline = newline], frame_stack)

\* The parenthesis and the blank that the counter says are still to be put.
Open ==
  /\ printer.newline = 0 /\ frame_stack # <<>> /\ Head(frame_stack) <= 3
  /\ Put(printer, <<Max({Head(frame_stack), 2}) + 1>>)

\* The frame is taken off the list, before and not after the list's cells.
ShiftFrame ==
  /\ printer.newline = 0 /\ frame_stack # <<>> /\ Head(frame_stack) > 3
  /\ frame_stack' = Tail(frame_stack)
  /\ UNCHANGED <<at, printer>>

\* The list is empty, and its first frame a null pointer that is read.
ReadNull ==
  /\ printer.newline = 0 /\ frame_stack = <<>>
  /\ at' = "null"
  /\ UNCHANGED <<printer, frame_stack>>

Running ==
  /\ at = "running"
  /\ Indent \/ Open \/ ShiftFrame \/ ReadNull
  /\ UNCHANGED vars

-----------------------------------------------------------------------------
PrintInit == Init /\ NotPrinting

PrintNext ==
  \/ at = "no" /\ Next /\ UNCHANGED printing
  \/ Pprint
  \/ Running

PrintSpec == PrintInit /\ [][PrintNext]_<<vars, printing>>

\* As in Reader!FairSpec: the host may stop calling.
FairPrintSpec == PrintSpec /\ WF_vars(Work) /\ WF_vars(Recover)

-----------------------------------------------------------------------------
\* The contexts stay stacked on their marks (ContextsStacked) when a pprint
\* runs out of memory, and while one that was refused waits on top of them.
PrinterStacked ==
  IF at = "no" THEN ContextsStacked
  ELSE printer.mark = Below(Current) /\ bs.bmark = printer.mark - PTR

\* "Verifies reader_pprint can be invoked successfully" (test_reader.c:109).
PprintSucceeds == at # "null"

=============================================================================
