------------------------------ MODULE MCPprint ------------------------------
(* The reader's values, for the runs that call reader_pprint.              *)
EXTENDS Pprint, MCReader

\* A symbol at the root.
PrintedText == {<< {"a"}, {" "} >>}

=============================================================================
