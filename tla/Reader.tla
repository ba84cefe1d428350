------------------------------- MODULE Reader -------------------------------
(***************************************************************************)
(* The incremental reader of reader.c: reader_read pulls characters from a *)
(* getc that may answer "nothing now" (-1) before any of them, returns,    *)
(* and goes on at the next call from what it saved: a chain of             *)
(* READER_CONTEXTs on the backward stack of the arena, the cells built so  *)
(* far on its forward stack, and at most four characters put back.         *)
(* reader_put_missing may be called whenever reader_read has returned, and *)
(* can be stopped by a putc that refuses a character.  An error unwinds to *)
(* the host, which starts over with reader_init.                           *)
(*                                                                         *)
(* One step is one character read, or written, and what the code does with *)
(* it before it asks for the next one.  The host is free to stall at every *)
(* character, to call either function in any order, and to refuse output,  *)
(* except that it finishes a put_missing it began, as READER_MAIN does,    *)
(* and that it sets getc and putc again after reader_init.                 *)
(***************************************************************************)
EXTENDS BistackCalls, ReaderTypes

CONSTANTS
  SizeOf,  \* the size of each C struct that goes in the arena
  Size,    \* bytes of the arena
  Padding, \* what bit 7 of an AST_TYPE may be where its byte is compared
  Scripts  \* bound of the model: the characters the stream may hold, by place

Structs == {"ENVIRONMENT", "READER", "READER_CONTEXT", "READER_LIST_CONTEXT",
            "READER_SYMBOL_CONTEXT", "READER_INTEGER_CONTEXT", "CELLHEADER",
            "PUT_MISSING_CONTEXT", "LIST", "LIST_NODE", "FRAME",
            "PPRINT_CONTEXT", "PPRINT_FRAME"}

ASSUME ReaderAssumption ==
  /\ SizeOf \in [Structs -> Nat]
  /\ Size \in Nat
  /\ Padding \in (SUBSET {0, 1}) \ {{}}
  /\ Scripts \subseteq Seq(SUBSET Chars)

VARIABLES
  bs,          \* the arena
  open,        \* the chain of READER_CONTEXTs, reader->reader_context first
  cells,       \* the cells of the tree, in the order they were allocated
  unget,       \* ungetbuff; the last one put back is the next one read
  in_comment,
  missing,     \* put_missing_context
  pc,          \* where the reader is waiting
  asttype,     \* reader_next_cell's prefix so far
  chars_read,  \* reader_next_cell's chars_read_buffer
  value,       \* reader_integer_context's count
  result,      \* what the last call returned
  thrown,      \* the error that unwound the last call
  text,        \* what the stream delivered since the last reader_init
  pos,         \* how much the stream has delivered
  written      \* what the current put_missing has written

tree   == <<bs, open, cells>>
stream == <<unget, text, pos>>
locals == <<asttype, chars_read, value>>
output == <<missing, written>>
vars   == <<tree, stream, locals, output, in_comment, pc, result, thrown>>

-----------------------------------------------------------------------------
(* Contexts.                                                               *)

ContextCalls == <<MarkCall, AllocCall(SizeOf["READER_CONTEXT"])>>

\* The struct of a type's own state.
OwnSize(type) ==
  SizeOf[CASE type = "AST_LIST"    -> "READER_LIST_CONTEXT"
           [] type = "AST_SYMBOL"  -> "READER_SYMBOL_CONTEXT"
           [] type = "AST_INTEGER" -> "READER_INTEGER_CONTEXT"]

TypeCalls(type) ==
  <<AllocCall(OwnSize(type)), AllocFCall(SizeOf["CELLHEADER"])>>

\* Nothing allocated before an error is given back.
new_reader_context(b, type, prefix) ==
  LET context == PerformAll(b, ContextCalls)
      refused == \/ type = "AST_NONE"
                 \/ type = "AST_SYMBOL" /\ prefix \in WidePrefixes
      all     == PerformAll(context.bs, TypeCalls(type))
  IN IF ~context.ok
       THEN [bs |-> context.bs, err |-> "BISTACK_OUT_OF_MEMORY"]
     ELSE IF refused
       THEN [bs |-> context.bs, err |-> "READER_SYNTAX_ERROR"]
     ELSE [bs  |-> all.bs,
           err |-> IF all.ok THEN "none" ELSE "BISTACK_OUT_OF_MEMORY"]

Context(b, type, prefix, n) ==
  [type |-> type, prefix |-> prefix, mark |-> StackTop(b), cell |-> n,
   is_escaped |-> FALSE]

\* A cell and the address of its header.
CellAt(b, type, prefix) ==
  [cell |-> NewCell(type, prefix), at |-> b.fptr]

Current == Last(open)

Header == cells[Current.cell].cell

\* The function the reader is in for the innermost context.
Resume(contexts) ==
  CASE Last(contexts).type = "AST_LIST"    -> "next_non_ws"
    [] Last(contexts).type = "AST_SYMBOL"  -> "symbol_context"
    [] Last(contexts).type = "AST_INTEGER" -> "integer_context"

-----------------------------------------------------------------------------
(* Control.                                                                *)

Go(next) == pc' = next /\ UNCHANGED <<thrown, result>>

Throw(err) == pc' = "thrown" /\ thrown' = err /\ UNCHANGED result

lassert(ok, err, next) == IF ok THEN Go(next) ELSE Throw(err)

\* Locals hold nothing between calls.
ClearLocals ==
  asttype' = "AST_NOPREFIX" /\ chars_read' = <<>> /\ value' = 0

Return(call, r) ==
  /\ pc' = "idle" /\ result' = <<call, r>> /\ UNCHANGED thrown
  /\ ClearLocals

\* Fault: the end of the input is never told from an unfinished list.
NoCellYet == Return("read", FALSE) /\ UNCHANGED tree

\* reader_next_cell answers AST_NOTYPE, and reader_read recognises it by its
\* byte.  The three fields of an AST_TYPE have 7 bits: the eighth is set by
\* no initializer, and where it differs the answer is taken for a new cell.
NoCell ==
  \E bit \in Padding :
    IF bit = 0
      THEN Return("read", Len(open) = 1) /\ UNCHANGED tree
      ELSE LET new == new_reader_context(bs, "AST_NONE", "AST_NOPREFIX") IN
           bs' = new.bs /\ Throw(new.err) /\ UNCHANGED <<open, cells, locals>>

-----------------------------------------------------------------------------
(* Characters.                                                             *)

\* The script allows what was delivered since the last reader_init.
Follows(script) ==
  /\ pos < Len(script)
  /\ \A i \in DOMAIN text : text[i] \in script[pos - Len(text) + i]

\* What reader_getc may return, the answer -1 apart.
Getc ==
  IF unget # <<>> THEN {Last(unget)}
  ELSE UNION {script[pos + 1] : script \in {s \in Scripts : Follows(s)}}

MayStall == unget = <<>>

UngetLimit == 4     \* sizeof(ungetbuff)

PrefixLimit == 4    \* sizeof(chars_read_buffer)

Rest == IF unget = <<>> THEN <<>> ELSE Front(unget)

\* reader_ungetc asserts that there is room.
Held(chars) == [i \in 1 .. Min({Len(chars), UngetLimit}) |-> chars[i]]

UngetFits(back) == Len(Rest) + Len(back) <= UngetLimit

\* c is read and the characters of back are put back, the last one on top.
Take(c, back) ==
  /\ unget' = Held(Rest \o back)
  /\ text'  = IF unget = <<>> THEN Append(text, c) ELSE text
  /\ pos'   = IF unget = <<>> THEN pos + 1 ELSE pos

-----------------------------------------------------------------------------
(* reader_read, up to its first character.                                 *)

Entry == IF in_comment THEN "comment" ELSE Resume(open)

\* Fault: an integer that was stopped in its middle starts again from zero.
NoSavedValue == 0

SavedValue == Header.value

Read ==
  /\ pc = "idle" /\ missing.mark = NULL
  /\ pc' = Entry
  /\ value' = SavedValue
  /\ result' = <<"none", TRUE>>
  /\ written' = <<>>
  /\ UNCHANGED <<tree, stream, asttype, chars_read, missing, in_comment, thrown>>

\* reader_consume_comment, called by reader_read or by reader_next_cell.
Comment ==
  /\ pc \in {"comment", "cell_comment"}
  /\ \/ /\ MayStall
        /\ IF pc = "comment" THEN Return("read", FALSE) /\ UNCHANGED tree
                             ELSE NoCell
        /\ UNCHANGED <<stream, in_comment>>
     \/ \E c \in Getc :
          /\ Take(c, <<>>)
          /\ in_comment' = (c # "\n")
          /\ Go(IF c = "\n" THEN "next_non_ws" ELSE pc)
          /\ UNCHANGED <<tree, locals>>
  /\ UNCHANGED output

\* next_non_ws, at the start of a cell and after a comment.
NextNonWs ==
  /\ pc = "next_non_ws"
  /\ \/ MayStall /\ NoCell /\ UNCHANGED stream
     \/ \E c \in Getc :
          /\ UNCHANGED <<tree, locals>>
          /\ \/ c \in Whitespace /\ Take(c, <<>>) /\ Go(pc)
             \/ /\ c \notin Whitespace
                /\ Take(c, <<c>>)
                /\ lassert(UngetFits(<<c>>), "READER_STATE_ERROR", "next_cell")
  /\ UNCHANGED <<output, in_comment>>

-----------------------------------------------------------------------------
(* reader_next_cell, from its first character that is not white space.     *)

\* A new context under the innermost list.
Enter(type, prefix) ==
  LET new == new_reader_context(bs, type, prefix) IN
  /\ bs' = new.bs
  /\ IF new.err = "none"
       THEN /\ open'  = Append(open, Context(bs, type, prefix, Len(cells) + 1))
            /\ cells' = Append(cells, CellAt(bs, type, prefix))
            /\ Go(Resume(open'))
            /\ ClearLocals
       ELSE Throw(new.err) /\ UNCHANGED <<open, cells, locals>>

\* Fault: the list counts the cell but its context is never taken down.
LeaveOpen(b) ==
  /\ cells' = [cells EXCEPT ![Last(Front(open)).cell].cell.length =
                              (@ + 1) % ListModulus]
  /\ bs' = b
  /\ Go(Resume(open))
  /\ ClearLocals
  /\ UNCHANGED open

\* The cell of the innermost context is complete: its list counts it, and
\* the context is destroyed.  b is the arena when that happens.
Leave(b) ==
  /\ open'  = Front(open)
  /\ cells' = [cells EXCEPT ![Last(Front(open)).cell].cell.length =
                              (@ + 1) % ListModulus]
  /\ IF CanRewind(b)
       THEN /\ bs' = bistack_rewind(b)
            /\ lassert(StackTop(bs') = Current.mark, "READER_STATE_ERROR",
                       Resume(open'))
       ELSE bs' = b /\ Throw("BISTACK_REWIND_TOO_FAR")
  /\ ClearLocals

\* Fault: a case copied from the one of the backquote.
PrefixAfterCopied(prefix, c) ==
  CASE c = "'" -> IF prefix = "AST_HASH" THEN "AST_HASH_QUOTE" ELSE "AST_SINGLEQUOTE"
    [] c = "@" -> IF prefix = "AST_COMMA" THEN "AST_COMMA_AT" ELSE "AST_AT"
    [] c \in {Backquote, "#"} -> "AST_QUASIQUOTE"
    [] c = "," -> "AST_COMMA"
    [] c = "+" -> "AST_PLUS"
    [] c = "-" -> "AST_MINUS"

PrefixAfter(prefix, c) ==
  CASE c = "'" -> IF prefix = "AST_HASH" THEN "AST_HASH_QUOTE" ELSE "AST_SINGLEQUOTE"
    [] c = "@" -> IF prefix = "AST_COMMA" THEN "AST_COMMA_AT" ELSE "AST_AT"
    [] c = Backquote -> "AST_QUASIQUOTE"
    [] c = "," -> "AST_COMMA"
    [] c = "+" -> "AST_PLUS"
    [] c = "-" -> "AST_MINUS"
    [] c = "#" -> "AST_HASH"

\* The character is put back and a cell of the type begins with it.
EnterWith(c, type) ==
  /\ Take(c, <<c>>)
  /\ IF UngetFits(<<c>>)
       THEN Enter(type, asttype)
       ELSE Throw("READER_STATE_ERROR") /\ UNCHANGED <<tree, locals>>

\* Fault: the characters are put back in the order they were read.
BareInOrder(c) == Append(chars_read, c)

Bare(c) == Reverse(Append(chars_read, c))

\* A space after prefix characters: they are all put back and read again as
\* a symbol.
EnterBare(c) ==
  /\ Take(c, Bare(c))
  /\ IF UngetFits(Bare(c))
       THEN Enter("AST_SYMBOL", "AST_NOPREFIX")
       ELSE Throw("READER_STATE_ERROR") /\ UNCHANGED <<tree, locals>>

NextCellChar(c) ==
  \/ /\ c = "\""
     /\ Take(c, <<>>) /\ Enter("AST_SYMBOL", "AST_DOUBLEQUOTE")
     /\ UNCHANGED in_comment
  \/ /\ c \in PrefixChars
     /\ Take(c, <<>>)
     /\ asttype' = PrefixAfter(asttype, c)
     /\ chars_read' = Append(chars_read, c)
     /\ Go(pc)
     /\ UNCHANGED <<tree, value, in_comment>>
  \/ /\ c = "("
     /\ Take(c, <<>>) /\ Enter("AST_LIST", asttype)
     /\ UNCHANGED in_comment
  \/ /\ c = ";" /\ asttype = "AST_NOPREFIX" /\ 0 \in Padding
     /\ Take(c, <<>>)
     /\ in_comment' = TRUE
     /\ Go("cell_comment")
     /\ UNCHANGED <<tree, locals>>
  \/ /\ c = ")" /\ Len(open) > 1
     /\ Take(c, <<>>) /\ Leave(bs)
     /\ UNCHANGED in_comment
  \/ /\ c = ")" /\ Len(open) = 1
     /\ Take(c, <<>>) /\ Throw("READER_SYNTAX_SPURIOUS_LIST_TERMINATOR")
     /\ UNCHANGED <<tree, locals, in_comment>>
  \/ c \in {" ", "\n"} /\ EnterBare(c) /\ UNCHANGED in_comment
  \/ c \in Digits /\ EnterWith(c, "AST_INTEGER") /\ UNCHANGED in_comment
  \/ /\ c \notin Digits \cup PrefixChars \cup {"\"", "(", ")", ";"}
     /\ StartsSymbol(c)
     /\ EnterWith(c, "AST_SYMBOL")
     /\ UNCHANGED in_comment
  \/ /\ \/ c \in {Bang, "\t"}
        \/ c = ";" /\ (asttype # "AST_NOPREFIX" \/ 1 \in Padding)
     /\ Take(c, <<>>) /\ Throw("READER_SYNTAX_ERROR")
     /\ UNCHANGED <<tree, locals, in_comment>>

NextCell ==
  /\ pc = "next_cell"
  /\ \/ \* the prefix characters wait in ungetbuff for the next call
        /\ MayStall
        /\ unget' = Held(Reverse(chars_read))
        /\ IF Len(chars_read) <= UngetLimit
             THEN NoCell
             ELSE Throw("READER_STATE_ERROR") /\ UNCHANGED <<tree, locals>>
        /\ UNCHANGED <<text, pos, in_comment>>
     \/ /\ Len(chars_read) < PrefixLimit
        /\ \E c \in Getc : NextCellChar(c)
     \/ /\ Len(chars_read) = PrefixLimit
        /\ \E c \in Getc : Take(c, <<>>)
        /\ Throw("READER_STATE_ERROR")
        /\ UNCHANGED <<tree, locals, in_comment>>
  /\ UNCHANGED output

-----------------------------------------------------------------------------
(* reader_symbol_context.  A symbol's characters are written after its     *)
(* header, in memory that is allocated only when the symbol is complete.   *)

SetEscaped(e) == open' = [open EXCEPT ![Len(open)].is_escaped = e]

\* Where the next character of the symbol goes.
NextByte == bs.fptr + Header.length

\* Fault: one character more than the length field can count.
FullTooLate == Header.length > MaxSymbol

Full == Header.length >= MaxSymbol

EscapeUsed == SetEscaped(FALSE)

Keep(c) ==
  IF Full
    THEN UNCHANGED <<tree, locals>> /\ Go(pc)
  ELSE IF NextByte < bs.bptr
    THEN /\ cells' = [cells EXCEPT ![Current.cell].cell.text = Append(@, c),
                                   ![Current.cell].cell.length = @ + 1]
         /\ EscapeUsed
         /\ Go(pc)
         /\ UNCHANGED <<bs, locals>>
  ELSE Throw("overrun") /\ UNCHANGED <<tree, locals>>

\* Fault: the symbol's memory is never allocated.
FinishSymbolUnallocated == Leave(bs)

\* The symbol's memory is allocated, and may turn out not to be there.
FinishSymbol ==
  IF CanAlloc(bs, Header.length)
    THEN Leave(bistack_allocf(bs, Header.length))
    ELSE Throw("BISTACK_OUT_OF_MEMORY") /\ UNCHANGED <<tree, locals>>

DoubleQuoted == Current.prefix = "AST_DOUBLEQUOTE"

SymbolChar(c) ==
  \/ /\ c = "\\" /\ ~Current.is_escaped
     /\ Take(c, <<>>) /\ SetEscaped(TRUE) /\ Go(pc)
     /\ UNCHANGED <<bs, cells, locals>>
  \/ /\ Current.is_escaped
     /\ Take(c, <<>>) /\ Keep(c)
  \/ /\ ~Current.is_escaped /\ ~DoubleQuoted /\ c \in Whitespace \cup {")", ";"}
     /\ Take(c, <<c>>)
     /\ IF UngetFits(<<c>>) THEN FinishSymbol
        ELSE Throw("READER_STATE_ERROR") /\ UNCHANGED <<tree, locals>>
  \/ /\ ~Current.is_escaped /\ DoubleQuoted /\ c = "\""
     /\ Take(c, <<>>)
     /\ IF Header.length > 0 THEN FinishSymbol
                             ELSE Go(pc) /\ UNCHANGED <<tree, locals>>
  \/ /\ ~Current.is_escaped /\ c # "\\"
     /\ IF DoubleQuoted THEN c # "\"" ELSE c \notin Whitespace \cup {")", ";"}
     /\ Take(c, <<>>) /\ Keep(c)

SymbolContext ==
  /\ pc = "symbol_context"
  /\ \/ MayStall /\ Return("read", FALSE) /\ UNCHANGED <<tree, stream>>
     \/ \E c \in Getc : SymbolChar(c)
  /\ UNCHANGED <<output, in_comment>>

-----------------------------------------------------------------------------
(* reader_integer_context.                                                 *)

SetHeader(f, v) == cells' = [cells EXCEPT ![Current.cell].cell[f] = v]

IntegerChar(c) ==
  \/ /\ value = 0 /\ c \in {"-", "+"}
     /\ Take(c, <<>>)
     /\ SetHeader("sign", IF c = "-" THEN 0 ELSE 1)
     /\ Go(pc)
     /\ UNCHANGED <<bs, open, locals>>
  \/ /\ c \in Digits
     /\ Take(c, <<>>)
     /\ value' = (value * 10 + DigitValue[c]) % ValueModulus
     /\ SetHeader("value", value' % IntegerModulus)
     /\ Go(pc)
     /\ UNCHANGED <<bs, open, asttype, chars_read>>
  \/ /\ c \notin Digits /\ ~(value = 0 /\ c \in {"-", "+"})
     /\ Take(c, <<c>>)
     /\ IF UngetFits(<<c>>) THEN Leave(bs)
        ELSE Throw("READER_STATE_ERROR") /\ UNCHANGED <<tree, locals>>

IntegerContext ==
  /\ pc = "integer_context"
  /\ \/ MayStall /\ Return("read", FALSE) /\ UNCHANGED <<tree, stream>>
     \/ \E c \in Getc : IntegerChar(c)
  /\ UNCHANGED <<output, in_comment>>

-----------------------------------------------------------------------------
(* reader_put_missing.                                                     *)

NotWriting == [mark |-> NULL, frames |-> <<>>]

EndChar(context) ==
  CASE context.type = "AST_LIST"    -> ")"
    [] context.type = "AST_INTEGER" -> "#"
    [] context.type = "AST_SYMBOL"  ->
         IF context.prefix = "AST_DOUBLEQUOTE" THEN "\"" ELSE "_"

\* One frame for each context under the root, pushed on a list.
FrameCalls(n) ==
  <<MarkCall, AllocCall(SizeOf["PUT_MISSING_CONTEXT"]), AllocCall(SizeOf["LIST"])>>
    \o [i \in 1 .. 2 * n |->
          AllocCall(SizeOf[IF i % 2 = 1 THEN "FRAME" ELSE "LIST_NODE"])]

\* The characters of an unfinished symbol that lie in what put_missing
\* allocated: they are written after the header, and nothing reserves them.
Clobber(b) ==
  cells' = [cells EXCEPT ![Current.cell].cell.text =
              [i \in DOMAIN @ |-> IF bs.fptr + i > b.bptr THEN Garbage ELSE @[i]]]

PutMissing ==
  /\ pc = "idle"
  /\ \/ Len(open) = 1 /\ Return("put", TRUE) /\ UNCHANGED <<bs, cells, output>>
     \/ /\ Len(open) > 1 /\ missing.mark # NULL
        /\ pc' = "put_missing" /\ result' = <<"none", TRUE>>
        /\ UNCHANGED <<bs, cells, output, locals, thrown>>
     \/ /\ Len(open) > 1 /\ missing.mark = NULL
        /\ LET done == PerformAll(bs, FrameCalls(Len(open) - 1)) IN
           /\ bs' = done.bs
           /\ Clobber(done.bs)
           /\ written' = <<>> /\ result' = <<"none", TRUE>>
           /\ IF ~done.ok
                THEN /\ pc' = "thrown" /\ thrown' = "BISTACK_OUT_OF_MEMORY"
                     /\ UNCHANGED missing
                ELSE /\ missing' =
                          [mark   |-> StackTop(bs),
                           frames |-> Reverse([i \in 1 .. Len(open) - 1 |->
                                                 EndChar(open[i + 1])])]
                     /\ pc' = "put_missing" /\ UNCHANGED thrown
        /\ UNCHANGED locals
  /\ UNCHANGED <<open, stream, in_comment>>

\* Fault: the frame is gone before putc has taken its character.
PutcShiftsFirst ==
  /\ pc = "put_missing" /\ missing.frames # <<>>
  /\ missing' = [missing EXCEPT !.frames = Tail(@)]
  /\ \/ Return("put", FALSE) /\ UNCHANGED written
     \/ /\ written' = Append(written, Head(missing.frames))
        /\ Go(pc)
        /\ UNCHANGED locals
  /\ UNCHANGED <<tree, stream, in_comment>>

Putc ==
  /\ pc = "put_missing" /\ missing.frames # <<>>
  /\ \/ \* putc refuses
        Return("put", FALSE) /\ UNCHANGED output
     \/ /\ written' = Append(written, Head(missing.frames))
        /\ missing' = [missing EXCEPT !.frames = Tail(@)]
        /\ Go(pc)
        /\ UNCHANGED locals
  /\ UNCHANGED <<tree, stream, in_comment>>

PutDone ==
  /\ pc = "put_missing" /\ missing.frames = <<>>
  /\ bs' = IF CanRewind(bs) THEN bistack_rewind(bs) ELSE bs
  /\ IF ~CanRewind(bs) THEN Throw("BISTACK_REWIND_TOO_FAR") /\ UNCHANGED <<missing, locals>>
     ELSE IF StackTop(bs') # missing.mark
       THEN Throw("READER_STATE_ERROR") /\ UNCHANGED <<missing, locals>>
     ELSE Return("put", TRUE) /\ missing' = NotWriting
  /\ UNCHANGED <<open, cells, stream, in_comment, written>>

-----------------------------------------------------------------------------
(* The host catches the error and calls reader_init, which may throw too.  *)

Recover ==
  /\ pc = "thrown" /\ thrown # "overrun"
  /\ LET root == new_reader_context(bs, "AST_LIST", "AST_NOPREFIX") IN
     /\ bs' = root.bs
     /\ in_comment' = FALSE
     /\ missing' = NotWriting
     /\ written' = <<>>
     /\ result' = <<"none", TRUE>>
     /\ ClearLocals
     /\ IF root.err = "none"
          THEN /\ open'  = <<Context(bs, "AST_LIST", "AST_NOPREFIX", 1)>>
               /\ cells' = <<CellAt(bs, "AST_LIST", "AST_NOPREFIX")>>
               /\ unget' = <<>> /\ text' = <<>>
               /\ pc' = "idle" /\ thrown' = "none"
          ELSE thrown' = root.err /\ UNCHANGED <<open, cells, unget, text, pc>>
     /\ UNCHANGED pos

-----------------------------------------------------------------------------
\* The arena when reader_new begins: the host allocates backward, as the
\* tests and READER_MAIN do, and has made its environment.
HostArena ==
  bistack_alloc(
    bistack_alloc(bistack_pushdir(bistack_init(Size), BS_BACKWARD),
                  SizeOf["ENVIRONMENT"]),
    SizeOf["READER"])

\* The host has an arena in which reader_new does not throw.
ASSUME RoomAssumption ==
  new_reader_context(HostArena, "AST_LIST", "AST_NOPREFIX").err = "none"

\* A reader that was made on this arena.
InitOn(host) ==
  /\ bs    = new_reader_context(host, "AST_LIST", "AST_NOPREFIX").bs
  /\ open  = <<Context(host, "AST_LIST", "AST_NOPREFIX", 1)>>
  /\ cells = <<CellAt(host, "AST_LIST", "AST_NOPREFIX")>>
  /\ unget = <<>> /\ text = <<>> /\ pos = 0
  /\ in_comment = FALSE
  /\ missing = NotWriting /\ written = <<>>
  /\ asttype = "AST_NOPREFIX" /\ chars_read = <<>> /\ value = 0
  /\ pc = "idle" /\ result = <<"none", TRUE>> /\ thrown = "none"

Init == InitOn(HostArena)

\* The reader's own steps, between a call and its return.
Work ==
  Comment \/ NextNonWs \/ NextCell \/ SymbolContext \/ IntegerContext
    \/ Putc \/ PutDone

Next == Read \/ PutMissing \/ Work \/ Recover

Spec == Init /\ [][Next]_vars

\* The host may stop calling; a call that was made runs on.
FairSpec == Spec /\ WF_vars(Work) /\ WF_vars(Recover)

-----------------------------------------------------------------------------
Addr == 0 .. Size

\* The variables have their types; the put-back buffer and the prefix buffer
\* stay within their four characters, and a count within its 16 bits.
TypeOK ==
  /\ bs \in [fptr : Addr, fmark : Addr, bptr : Addr, bmark : Addr, mem : {bs.mem},
             dir : [0 .. DirBits - 1 -> {BS_FORWARD, BS_BACKWARD}]]
  /\ open # <<>> /\ cells # <<>>
  /\ open \in Seq([type : Types, prefix : AstPrefixes, mark : Addr,
                   cell : 1 .. Len(cells), is_escaped : BOOLEAN])
  /\ cells \in Seq([cell : Cells, at : Addr])
  /\ unget \in Seq(Chars) /\ Len(unget) <= UngetLimit
  /\ chars_read \in Seq(PrefixChars) /\ Len(chars_read) <= PrefixLimit
  /\ asttype \in AstPrefixes /\ value \in 0 .. ValueModulus - 1
  /\ missing.mark \in Addr /\ missing.frames \in Seq(Chars \cup {"_"})
  /\ written \in Seq(Chars \cup {"_"})
  /\ in_comment \in BOOLEAN
  /\ pc \in {"idle", "comment", "cell_comment", "next_non_ws", "next_cell",
             "symbol_context", "integer_context", "put_missing", "thrown"}
  /\ result \in {"none", "read", "put"} \X BOOLEAN
  /\ thrown \in {"none", "overrun", "BISTACK_OUT_OF_MEMORY", "READER_SYNTAX_ERROR",
                 "READER_STATE_ERROR", "READER_SYNTAX_SPURIOUS_LIST_TERMINATOR"}
  /\ text \in Seq(Chars) /\ pos \in 0 .. Max({Len(s) : s \in Scripts})

-----------------------------------------------------------------------------
(* What was read is what the text says.                                    *)

Grammar == INSTANCE ReaderGrammar

\* A list's length is kept modulo the width of its field.
Stored(cell) ==
  IF cell.type = "AST_LIST" THEN [cell EXCEPT !.length = @ % ListModulus] ELSE cell

InAtom == Current.type # "AST_LIST"

OpenLists ==
  LET lists == IF InAtom THEN Front(open) ELSE open
  IN [i \in DOMAIN lists |-> lists[i].cell]

\* Wherever the stream stalled, and however often, the cells, the open
\* lists, the unfinished token, the characters put back and the answer are
\* those that the text delivered so far determines by itself (the test
\* test_reader_start_stop, for one text and one way to cut it).
ReadsAsOneChunk ==
  pc = "idle" =>
    LET p == Grammar!Reference(text) IN
    /\ p.err = "none"
    /\ [i \in DOMAIN cells |-> cells[i].cell] =
         [i \in DOMAIN p.cells |-> Stored(p.cells[i])]
    /\ OpenLists = p.open
    /\ InAtom <=> p.mode \in {"symbol", "string", "integer"}
    /\ InAtom => Current.cell = Len(cells) /\ Current.is_escaped = p.escaped
    /\ in_comment <=> p.mode = "comment"
    /\ Reverse(unget) = p.seen
    /\ result = <<"read", TRUE>> => Len(p.open) = 1 /\ ~InAtom

\* The reader gives up exactly on the texts that are wrong, with the error
\* that the text calls for: no internal assertion (a full put-back buffer, a
\* rewind that does not match its mark) ever fails.  This takes a build that
\* keeps the padding bit of an AST_TYPE clear.
ErrorsAreTheTexts ==
  thrown \notin {"none", "BISTACK_OUT_OF_MEMORY", "overrun"} =>
    thrown = Grammar!Reference(text).err

\* The characters put back and the ones reader_next_cell holds are the last
\* ones of the stream, in its order: the next ones to be read are neither
\* lost, nor doubled, nor swapped.
PushbackInOrder ==
  pc # "thrown" =>
    LET held == chars_read \o Reverse(unget) IN
    /\ Len(held) <= Len(text)
    /\ held = SubSeq(text, Len(text) - Len(held) + 1, Len(text))

-----------------------------------------------------------------------------
(* Where it lies in the arena.                                             *)

\* The address below a context and the mark under it.
Below(context) ==
  context.mark - PTR - SizeOf["READER_CONTEXT"] - OwnSize(context.type)

\* The contexts lie one directly under the other on the backward stack, each
\* on the mark that its destruction will rewind, and so does an unfinished
\* put_missing, whatever was destroyed and stalled in between; when
\* put_missing returns TRUE the stack is as it was.
ContextsStacked ==
  pc # "thrown" =>
    /\ \A i \in 1 .. Len(open) - 1 :
         open[i].type = "AST_LIST" /\ open[i + 1].mark = Below(open[i])
    /\ IF missing.mark = NULL
         THEN bs.bptr = Below(Current) /\ bs.bmark = Current.mark - PTR
         ELSE missing.mark = Below(Current) /\ bs.bmark = missing.mark - PTR

\* The tree is one block of forward memory, each header directly after the
\* cell before it, a symbol's characters directly after its header: what
\* cellheader_character_count and reader_pprint step through.
CellsContiguous ==
  LET after(i) == cells[i].at + SizeOf["CELLHEADER"] +
        IF cells[i].cell.type = "AST_SYMBOL" /\ ~(InAtom /\ i = Len(cells))
          THEN cells[i].cell.length ELSE 0
  IN /\ \A i \in 1 .. Len(cells) - 1 : cells[i + 1].at = after(i)
     /\ bs.fptr = after(Len(cells))

FrameBytes ==
  PTR + SizeOf["PUT_MISSING_CONTEXT"] + SizeOf["LIST"]
      + (Len(open) - 1) * (SizeOf["FRAME"] + SizeOf["LIST_NODE"])

PrinterBytes ==
  PTR + SizeOf["PPRINT_CONTEXT"] + SizeOf["LIST"]
      + SizeOf["PPRINT_FRAME"] + SizeOf["LIST_NODE"]

\* An unfinished symbol lies in memory that nothing reserves.  Its characters
\* run into the context above them, or are overwritten by put_missing or
\* pprint, only when the gap between the stacks is smaller than the longest
\* symbol and what either of them needs.
HeadroomSuffices ==
  LET gap == Below(Current) - bs.fptr IN
  /\ thrown = "overrun" => gap < MaxSymbol
  /\ Garbage \in Range(Header.text) /\ InAtom => gap < MaxSymbol + Max({FrameBytes, PrinterBytes})

-----------------------------------------------------------------------------
(* reader_put_missing.                                                     *)

Closers == Reverse([i \in 1 .. Len(open) - 1 |-> EndChar(open[i + 1])])

\* However often putc refuses and put_missing is called again, each open
\* token and list is closed once, innermost first, and TRUE is returned only
\* when all of them are.
MissingWrittenOnce ==
  /\ missing.mark # NULL => written \o missing.frames = Closers
  /\ result = <<"put", TRUE>> => written = Closers

-----------------------------------------------------------------------------
(* Progress.                                                               *)

\* An error leaves what the reader had allocated in the arena, and reader_init
\* allocates anew.  Once there is no room left it throws, and the host calls
\* it again, for ever.  (An overrun is where the model ends.)
Exhausted ==
  /\ pc = "thrown"
  /\ \/ thrown = "overrun"
     \/ new_reader_context(bs, "AST_LIST", "AST_NOPREFIX").err # "none"

\* Every call returns once the stream has nothing more to deliver, and every
\* error is recovered from while there is memory: no loop of the reader puts
\* back what it reads for ever.
CallsReturn == pc # "idle" ~> pc = "idle" \/ Exhausted

=============================================================================
