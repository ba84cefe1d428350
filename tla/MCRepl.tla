------------------------------- MODULE MCRepl -------------------------------
(* Values of the constants of the read-eval-print loop for TLC.            *)
EXTENDS Repl, MCReader

\* Lines, with an error in every place.
LineText ==
  << {"(", "a", "\"", ";", "'", "1"}, {"(", "a", "\n", "\t"}, {"\n", "\t", ")", " "},
     {"\n", "a", ")"}, {"\n", "(", "\t"}, {"\n", "a"}, {"\n"} >>

LinesOnly == {LineText}

=============================================================================
