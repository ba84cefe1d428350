------------------------------ MODULE MCReader ------------------------------
(* Values of the reader's constants for TLC.                               *)
EXTENDS CharacterCount

\* The structs as an LP64 build lays them out.
LP64 ==
  [s \in Structs |->
     CASE s = "ENVIRONMENT"            -> 16
       [] s = "READER"                 -> 72
       [] s = "READER_CONTEXT"         -> 32
       [] s = "READER_LIST_CONTEXT"    -> 8
       [] s = "READER_SYMBOL_CONTEXT"  -> 1
       [] s = "READER_INTEGER_CONTEXT" -> 0
       [] s = "CELLHEADER"             -> 2
       [] s = "PUT_MISSING_CONTEXT"    -> 16
       [] s = "LIST"                   -> 24
       [] s = "LIST_NODE"              -> 16
       [] s = "FRAME"                  -> 8
       [] s = "PPRINT_CONTEXT"         -> 24
       [] s = "PPRINT_FRAME"           -> 16]

\* Every class of character, for as long as that can be afforded, then those
\* that end or go on with what was begun.
EachClass == Chars \ {"0", "2", "3", "4", "5", "6", "7", "8", "9", "+"}

AnyText == <<EachClass, EachClass, EachClass, {" ", ")", "\"", "a", "-"}>>

\* Prefix characters up to and beyond the four that fit.
PrefixText ==
  << {"'", "#", ",", "a"}, {"'", "@", ","}, {"'", "@", "#"}, {"'", " ", "("},
     {"'", " ", "1", "a"}, {" ", ")", "'"}, {" ", "a"} >>

\* Lists, strings, escapes and comments.
NestedText ==
  << {"(", "\""}, {"(", "a", ";"}, {"(", ")", "a", "\\"}, {")", "a", "\"", "\n"},
     {")", "a", "1", "\\"}, {" ", ")", "\""}, {")", "a", "("} >>

\* The same, a character shorter.
ProgressText == SubSeq(NestedText, 1, 6)

\* Digits and signs.
NumberText ==
  [i \in 1 .. 6 |-> {"0", "9", "-", "+", " "}]

\* An integer that overflows its 13 bits to zero, and a sign.
OverflowText == << {"8"}, {"1"}, {"9"}, {"2"}, {"-"}, {" "} >>

\* One byte for each struct, so that memory runs out between any two
\* allocations.
Bytes == [s \in Structs |-> 1]

ScarceText ==
  << {"(", "a", "\""}, {"a", "(", ")"}, {"a", "\"", "("}, {")", "a", " "},
     {"(", "a"}, {"a", " "}, {"a", ")"} >>

-----------------------------------------------------------------------------
AllTexts   == {AnyText, PrefixText, NestedText, NumberText}
ScarceAndNested == {ScarceText, ProgressText}
Overflow   == {OverflowText}

=============================================================================
