--------------------------- MODULE MCSymbolTables ---------------------------
(* The two halves of a symbol table for TLC: the tree of its bindings, and *)
(* the scope of the arena its nodes lie in.  A behaviour is about one of   *)
(* them, and the other rests.                                              *)
EXTENDS MCAvl, Environment

VARIABLE half

TablesInit ==
  /\ half \in {"tree", "scopes"}
  /\ Init /\ EnvInit
  /\ half = "tree" => dir = BS_FORWARD

TablesNext ==
  /\ UNCHANGED half
  /\ \/ half = "tree" /\ Next /\ UNCHANGED envvars
     \/ half = "scopes" /\ EnvNext /\ UNCHANGED vars

\* The fairness of FairSpec of Avl.
TablesSpec ==
  /\ TablesInit /\ [][TablesNext]_<<half, vars, envvars>>
  /\ WF_vars(Iterate)
=============================================================================
