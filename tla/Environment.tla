---------------------------- MODULE Environment ----------------------------
(***************************************************************************)
(* The scopes of environment.c: each is a mark in the arena, a SYMBOLTABLE *)
(* above it, and the nodes of the table's tree, which are allocated as     *)
(* symbols are bound.  Every function pushes the environment's direction   *)
(* on the arena's register and pops it at its end, and a throw between the *)
(* two leaves it pushed, for lerror unwinds without undoing anything.  The *)
(* host allocates from the same arena, in the direction it finds.          *)
(*                                                                         *)
(* The tree itself is that of Avl.  avl_insert allocates its one node      *)
(* before it changes anything, so that here a tree is the set of its nodes.*)
(***************************************************************************)
EXTENDS BistackCalls, FiniteSets

CONSTANTS
  Size,      \* bytes of the arena
  TABLE,     \* sizeof(SYMBOLTABLE)
  NODE,      \* sizeof(AVL_NODE)
  HostBlock  \* the size of a block of the host's

ASSUME EnvironmentAssumption ==
  /\ {Size, TABLE, NODE, HostBlock} \subseteq Nat \ {0}
  /\ HDR + 2 * PTR <= Size

VARIABLES
  bs,         \* the arena
  dir,        \* ENVIRONMENT.dir
  innerbindings, globalbindings,
  tables,     \* the SYMBOLTABLEs of the chain, by address
  hosts,      \* the host's blocks
  scopes,     \* the scopes not popped, and the state each was pushed in
  abandoned,  \* how many calls have thrown
  aborted     \* did an assert fail?

environment == <<innerbindings, globalbindings, tables, scopes>>
envvars == <<bs, dir, environment, hosts, abandoned, aborted>>

Host == BS_BACKWARD

\* bistack_pushdir by the host, for its own blocks.
EnvInit ==
  /\ bs = bistack_pushdir(bistack_init(Size), Host)
  /\ dir \in {BS_FORWARD, BS_BACKWARD}
  /\ innerbindings = NULL /\ globalbindings = NULL
  /\ tables = [t \in {} |-> NULL] /\ hosts = {} /\ scopes = <<>>
  /\ abandoned = 0 /\ aborted = FALSE

-----------------------------------------------------------------------------
Entered == bistack_pushdir(bs, dir)

\* Fault: the direction is not popped.
LeftPushed(b) == b

Left(b) == bistack_popdir(b)

\* What the calls leave behind where one of them throws.
Abandon(b) ==
  /\ bs' = b
  /\ abandoned' = abandoned + 1
  /\ UNCHANGED environment

\* The asserts of bistack_pushdir, and of the function itself.
Asserts(ok) ==
  IF CanPushDir(bs) /\ ok THEN UNCHANGED aborted
  ELSE aborted' = TRUE /\ UNCHANGED <<bs, environment, abandoned>>

Runs(ok) == CanPushDir(bs) /\ ok

\* The address of what is allocated next in a direction.
NextAt(b, n) == IF Forward(b) THEN b.fptr ELSE b.bptr - n

\* A scope remembers what it is to give back, for the properties.
Ends(b) ==
  IF dir = BS_FORWARD THEN <<b.fptr, b.fmark, b.dir>> ELSE <<b.bptr, b.bmark, b.dir>>

Pushed == [before |-> Ends(bs), abandoned |-> abandoned, first |-> globalbindings = NULL]

\* Fault: the table is allocated before the mark that should undo it.
PushCallsUnmarked == <<AllocCall(TABLE), MarkCall>>

PushCalls == <<MarkCall, AllocCall(TABLE)>>

env_pushsymtable ==
  LET made == PerformAll(Entered, PushCalls)
      st   == NextAt(bistack_mark(Entered), TABLE)
  IN /\ Asserts(TRUE)
     /\ Runs(TRUE) =>
          IF ~made.ok THEN Abandon(made.bs)
          ELSE /\ bs' = Left(made.bs)
               /\ tables' = [t \in DOMAIN tables \cup {st} |->
                               IF t = st THEN [outer |-> innerbindings, nodes |-> {}]
                               ELSE tables[t]]
               /\ innerbindings' = st
               /\ globalbindings' = IF globalbindings = NULL THEN st ELSE globalbindings
               /\ scopes' = Append(scopes, Pushed)
               /\ UNCHANGED abandoned
     /\ UNCHANGED <<dir, hosts>>

\* The outermost scope can be popped, and globalbindings stays what it was.
env_popsymtable ==
  LET inside == innerbindings # NULL IN
  /\ Asserts(inside)
  /\ Runs(inside) =>
       IF ~CanRewind(Entered) THEN Abandon(Entered)
       ELSE /\ bs' = Left(bistack_rewind(Entered))
            /\ innerbindings' = tables[innerbindings].outer
            /\ tables' = [t \in DOMAIN tables \ {innerbindings} |-> tables[t]]
            /\ scopes' = Front(scopes)
            /\ UNCHANGED <<globalbindings, abandoned>>
  /\ UNCHANGED <<dir, hosts>>

env_bind_symbol ==
  LET inside == innerbindings # NULL
      made   == PerformAll(Entered, <<AllocCall(NODE)>>)
  IN /\ Asserts(inside)
     /\ Runs(inside) =>
          IF ~made.ok THEN Abandon(made.bs)
          ELSE /\ bs' = Left(made.bs)
               /\ tables' = [tables EXCEPT ![innerbindings].nodes =
                               @ \cup {NextAt(Entered, NODE)}]
               /\ UNCHANGED <<innerbindings, globalbindings, scopes, abandoned>>
     /\ UNCHANGED <<dir, hosts>>

HostAllocates ==
  /\ CanAlloc(bs, HostBlock)
  /\ bs' = bistack_alloc(bs, HostBlock)
  /\ hosts' = hosts \cup {NextAt(bs, HostBlock)}
  /\ UNCHANGED <<dir, environment, abandoned, aborted>>

EnvNext ==
  /\ ~aborted
  /\ env_pushsymtable \/ env_popsymtable \/ env_bind_symbol \/ HostAllocates

EnvSpec == EnvInit /\ [][EnvNext]_envvars

-----------------------------------------------------------------------------
\* The tables from the innermost on.
Chain ==
  LET from[t \in DOMAIN tables \cup {NULL}] == IF t = NULL THEN <<>> ELSE <<t>> \o from[tables[t].outer]
  IN from[innerbindings]

\* What the environment reaches: addresses and sizes.
Reached ==
  LET chain == Range(Chain) IN
  {<<t, TABLE>> : t \in chain} \cup
    UNION {{<<n, NODE>> : n \in tables[t].nodes} : t \in chain}

Hosted == {<<h, HostBlock>> : h \in hosts}

Allocated(block) ==
  block[1] + block[2] <= bs.fptr \/ bs.bptr <= block[1]

Apart(blocks) ==
  \A x, y \in blocks : x = y \/ x[1] + x[2] <= y[1] \/ y[1] + y[2] <= x[1]

\* What the environment reaches lies in memory that is allocated, each table
\* and node by itself: whatever memory ran out, and whatever marks and
\* directions that left behind, no table outlives its scope in the chain, and
\* no node its table.  globalbindings is the last of the chain for as long as
\* the scope it was set in stands.  The host's blocks are safe as well where
\* it allocates at the other end and no call was abandoned: one that was has
\* turned the host's direction around.
EnvironmentLive ==
  /\ \A block \in Reached : Allocated(block)
  /\ Apart(Reached)
  /\ Len(Chain) = Len(scopes)
  /\ scopes # <<>> /\ scopes[1].first => globalbindings = Last(Chain)
  /\ abandoned = 0 /\ dir # Host =>
       Apart(Reached \cup Hosted) /\ \A block \in Hosted : Allocated(block)

\* A scope that is popped gives back all that was allocated in it and no
\* more, its own mark and table included, and leaves the host's direction, if
\* no call was abandoned in it.
ScopeGivenBack ==
  [][ scopes # <<>> /\ scopes' = Front(scopes) /\ Last(scopes).abandoned = abandoned =>
        Ends(bs') = Last(scopes).before ]_envvars

=============================================================================
