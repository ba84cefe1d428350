---------------------------- MODULE ReaderTypes ----------------------------
(***************************************************************************)
(* The vocabulary of the reader: the classes of characters it tells apart, *)
(* the types and prefixes of cells (defines.h), and the cells themselves.  *)
(*                                                                         *)
(* A cell is a CELLHEADER with the data that follows it.  The header is a  *)
(* 16-bit union; the record has the fields of all three of its variants    *)
(* and leaves at rest the ones that the cell's type does not have.         *)
(***************************************************************************)
EXTENDS Integers, Sequences

CONSTANTS
  CELL_SYMBOL_LENGTH_BITS,  \* width of CELLHEADER.Symbol.length: 6
  CELL_LIST_LENGTH_BITS     \* width of CELLHEADER.List.length: 10

ASSUME WidthsAssumption ==
  CELL_SYMBOL_LENGTH_BITS \in Nat \ {0} /\ CELL_LIST_LENGTH_BITS \in Nat \ {0}

MaxSymbol == 2 ^ CELL_SYMBOL_LENGTH_BITS - 1

ListModulus == 2 ^ CELL_LIST_LENGTH_BITS

IntegerModulus == 2 ^ 13    \* CELLHEADER.Integer.value has 13 bits

ValueModulus == 2 ^ 16      \* the reader's own count is a uint16_t

-----------------------------------------------------------------------------
Whitespace == {" ", "\n", "\t"}

Digits == {"0", "1", "2", "3", "4", "5", "6", "7", "8", "9"}

DigitValue ==
  [c \in Digits |->
     CASE c = "0" -> 0 [] c = "1" -> 1 [] c = "2" -> 2 [] c = "3" -> 3
       [] c = "4" -> 4 [] c = "5" -> 5 [] c = "6" -> 6 [] c = "7" -> 7
       [] c = "8" -> 8 [] c = "9" -> 9]

\* A TLA+ string cannot hold the character itself.
Backquote == "backquote"

PrefixChars == {"'", Backquote, ",", "@", "+", "-", "#"}

\* The one visible character below the double quote, where the test for the
\* first character of a symbol begins.
Bang == "!"

\* One letter stands for all the characters the reader never singles out.
Chars ==
  Whitespace \cup Digits \cup PrefixChars
    \cup {"(", ")", "\"", ";", "\\", Bang, "a"}

\* What a byte of a symbol is once something else was written over it.
Garbage == "garbage"

StartsSymbol(c) == c \notin Whitespace \cup {Bang}

-----------------------------------------------------------------------------
Types == {"AST_SYMBOL", "AST_INTEGER", "AST_LIST"}

AstPrefixes ==
  {"AST_NOPREFIX", "AST_COMMA", "AST_AT", "AST_COMMA_AT", "AST_HASH_QUOTE",
   "AST_HASH", "AST_SINGLEQUOTE", "AST_DOUBLEQUOTE", "AST_QUASIQUOTE",
   "AST_PLUS", "AST_MINUS"}

\* The prefixes that do not fit in the 3 bits of CELLHEADER.Symbol.prefix.
WidePrefixes == {"AST_QUASIQUOTE", "AST_PLUS", "AST_MINUS"}

\* A cell just begun.  An integer's header has no prefix.
NewCell(type, prefix) ==
  [type |-> type,
   prefix |-> IF type = "AST_INTEGER" THEN "AST_NOPREFIX" ELSE prefix,
   length |-> 0, text |-> <<>>, sign |-> 1, value |-> 0]

Cells ==
  [type : Types, prefix : AstPrefixes, length : Nat, text : Seq(Chars \cup {Garbage}),
   sign : {0, 1}, value : 0 .. IntegerModulus - 1]

=============================================================================
