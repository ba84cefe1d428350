--------------------------- MODULE ReaderGrammar ---------------------------
(***************************************************************************)
(* What a text means, whoever delivers it and in whatever pieces: the      *)
(* cells, open lists and pending token after each character, by a parser   *)
(* that is pushed one character at a time and never looks ahead, never     *)
(* puts a character back and never has to resume.  The reader of reader.c  *)
(* pulls its characters, puts some back and can be stopped between any     *)
(* two; Reader.tla compares the two.                                       *)
(*                                                                         *)
(* A parse is a record: cells in preorder, the indices of the lists still  *)
(* open, the mode, the prefix characters seen before a cell, whether the   *)
(* last character was an escape, the integer read so far, and the error    *)
(* that ends it.  Lengths of lists are exact, and so are integers.         *)
(***************************************************************************)
EXTENDS ReaderTypes, SequencesExt

Blank ==
  [cells |-> <<NewCell("AST_LIST", "AST_NOPREFIX")>>, open |-> <<1>>,
   mode |-> "between", seen |-> <<>>, escaped |-> FALSE, number |-> 0,
   err |-> "none"]

Fail(p, err) == [p EXCEPT !.err = err]

\* The prefix a run of prefix characters amounts to: the last one counts,
\* with the one before it in the two combinations.
PrefixOf(seen) ==
  LET c == Last(seen)
      before(d) == Len(seen) > 1 /\ seen[Len(seen) - 1] = d
  IN CASE seen = <<>> -> "AST_NOPREFIX"
       [] c = "'" -> IF before("#") THEN "AST_HASH_QUOTE" ELSE "AST_SINGLEQUOTE"
       [] c = "@" -> IF before(",") THEN "AST_COMMA_AT" ELSE "AST_AT"
       [] c = "," -> "AST_COMMA"
       [] c = "#" -> "AST_HASH"
       [] c = Backquote -> "AST_QUASIQUOTE"
       [] c = "+" -> "AST_PLUS"
       [] c = "-" -> "AST_MINUS"

Begin(p, cell, mode) ==
  [p EXCEPT !.cells = Append(p.cells, cell), !.mode = mode, !.seen = <<>>,
            !.escaped = FALSE, !.number = 0]

\* The innermost list has one more member.
Count(p) ==
  [p EXCEPT !.cells[Last(p.open)].length = @ + 1, !.mode = "between", !.seen = <<>>]

CloseList(p) ==
  IF Len(p.open) = 1 THEN Fail(p, "READER_SYNTAX_SPURIOUS_LIST_TERMINATOR")
                     ELSE Count([p EXCEPT !.open = Front(p.open)])

OpenList(p) ==
  [Begin(p, NewCell("AST_LIST", PrefixOf(p.seen)), "between")
     EXCEPT !.open = Append(p.open, Len(p.cells) + 1)]

\* A symbol keeps the characters that its length field can count; an escape
\* lasts until a character is kept.
Keep(p, c) ==
  LET n == Len(p.cells) IN
  IF p.cells[n].length < MaxSymbol
    THEN [p EXCEPT !.cells[n].text = Append(@, c), !.cells[n].length = @ + 1,
                   !.escaped = FALSE]
    ELSE p

InSymbol(p, c) ==
  IF c = "\\" /\ ~p.escaped THEN [p EXCEPT !.escaped = TRUE] ELSE Keep(p, c)

\* A double quote ends a string that has characters, and is passed over in
\* one that has none.
InString(p, c) ==
  IF c = "\"" /\ ~p.escaped
    THEN IF Last(p.cells).length > 0 THEN Count(p) ELSE p
    ELSE InSymbol(p, c)

\* Prefix characters with nothing after them are a symbol of themselves.
Bare(p) ==
  LET kept == SubSeq(p.seen, 1, IF Len(p.seen) < MaxSymbol THEN Len(p.seen)
                                                           ELSE MaxSymbol)
  IN Count(Begin(p, [NewCell("AST_SYMBOL", "AST_NOPREFIX")
                       EXCEPT !.text = kept, !.length = Len(kept)], "symbol"))

BeginSymbol(p, c) ==
  IF PrefixOf(p.seen) \in WidePrefixes
    THEN Fail(p, "READER_SYNTAX_ERROR")
    ELSE InSymbol(Begin(p, NewCell("AST_SYMBOL", PrefixOf(p.seen)), "symbol"),
                  c)

InInteger(p, c) ==
  LET n == Len(p.cells) IN
  IF c \in Digits
    THEN LET k == p.number * 10 + DigitValue[c] IN
         [p EXCEPT !.number = k, !.cells[n].value = k % IntegerModulus]
    ELSE [p EXCEPT !.cells[n].sign = IF c = "-" THEN 0 ELSE 1]

\* A sign may stand inside an integer as long as its count is zero.
IntegerGoesOn(p, c) ==
  c \in Digits \/ (c \in {"-", "+"} /\ p.number % ValueModulus = 0)

InCell(p, c) ==
  CASE Len(p.seen) = 4 -> Fail(p, "READER_STATE_ERROR")
    [] c \in PrefixChars -> [p EXCEPT !.mode = "prefix", !.seen = Append(@, c)]
    [] c = "\"" -> Begin(p, NewCell("AST_SYMBOL", "AST_DOUBLEQUOTE"), "string")
    [] c = "(" -> OpenList(p)
    [] c = ")" -> CloseList(p)
    [] c = ";" -> IF p.seen = <<>> THEN [p EXCEPT !.mode = "comment"]
                                   ELSE Fail(p, "READER_SYNTAX_ERROR")
    [] c \in {" ", "\n"} -> Bare(p)
    [] c \in Digits ->
         InInteger(Begin(p, NewCell("AST_INTEGER", "AST_NOPREFIX"), "integer"), c)
    [] c \in {Bang, "\t"} -> Fail(p, "READER_SYNTAX_ERROR")
    [] OTHER -> BeginSymbol(p, c)

Between(p, c) == IF c \in Whitespace THEN p ELSE InCell(p, c)

EndsSymbol(c) == c \in Whitespace \cup {")", ";"}

Feed(p, c) ==
  CASE p.err # "none" -> p
    [] p.mode = "between" -> Between(p, c)
    [] p.mode = "comment" -> IF c = "\n" THEN [p EXCEPT !.mode = "between"] ELSE p
    [] p.mode = "prefix"  -> InCell(p, c)
    [] p.mode = "string"  -> InString(p, c)
    [] p.mode = "symbol"  ->
         IF EndsSymbol(c) /\ ~p.escaped THEN Between(Count(p), c)
                                        ELSE InSymbol(p, c)
    [] p.mode = "integer" ->
         IF IntegerGoesOn(p, c) THEN InInteger(p, c) ELSE Between(Count(p), c)

Reference(text) == FoldLeft(Feed, Blank, text)

=============================================================================
