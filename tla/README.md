# thinlisp, specified

TLA+ modules for thinlisp, a Lisp reader and its run-time for small machines.
The code is C without threads. What makes it hard is memory that is handed out
from both ends of one buffer and given back in scopes, calls that are abandoned
half-way by `longjmp`, a reader that can stop at any character and must go on
later as if it had not, and a block store that must survive a power failure.

Contents: [inventory](#inventory), [modules](#modules), [runs](#runs),
[findings](#findings), [proofs](#proofs), [limits](#limits), [plan](#plan).

## Inventory

Paths are under `src/thinlisp/`.

| component | state | operations | what is hard | what makes it correct |
|---|---|---|---|---|
| bistack (`bistack.c`, `.h`) | two pointers into one buffer, a chain of marks at each end kept in the buffer itself, an 8-bit stack of directions | alloc, mark, rewind, dropmark (each forward, backward, or by direction), pushdir, popdir, zero | marks are pointers in the memory they delimit; the ends meet; a throw leaves everything where it is | live blocks never overlap; a rewind returns to its mark exactly; the direction in force is the one pushed last |
| reader (`reader.c`, `reader.h`, `defines.h`) | a chain of contexts on the backward stack, the cells read on the forward one, four characters of pushback, a comment flag | reader_read, reader_put_missing, reader_pprint, reader_init | every character may be the last for now; pushback; bit-fields; throws half-way through building a context | a text cut anywhere reads as the text; cells lie contiguously; contexts are stacked on their marks |
| read-eval-print loop (`reader.c:721-808`) | the end of the input, the last character, the pause after a line | prompt, read lines, recover from a throw, show what an unfinished list lacks | a pause that must come once for each line; the state left behind by a throw; the end of the input anywhere | each line is answered, and the prompt comes before the next is waited for |
| errors (`runtime.c`) | the jump buffer | lerror, lassert | unwinding undoes nothing | - |
| nvmem (`nvmem.c`, `.h`) | a file of bytes: a magic word, then blocks, each a header and data | init, saveblock, freeblock, blocksize, loadblock, the iterator | several writes per operation, and power may fail between them; sizes read from the store steer the walk | the chain leads from the first block to the last; data is kept; a save takes the smallest block that fits |
| avl (`avl.c`, `.h`) | nodes in the arena, a root | insert, get, to_array | rotation in place on the way back from recursion; equal keys; array bounds | ordered, balanced, complete |
| list (`list.c`, `.h`) | nodes in the arena, head, tail, an 8-bit count | append, unshift, pop, shift, iter, reset | iterators on a list that changes; two pointers that must agree | a sequence with two ends |
| multistring (`list.c`) | a list of buffers, a position in the last | writechar, iterchar, assemble, hash, strncmp | page turns; reading while writing | the text written is the text read |
| vlist (`vlist.c`) | a chain of sublists, each of twice the size of the next, an offset into the first | unshift, shift, element, size | empty and one-element cases; an index led through the chain bit by bit | used at its front it is the sequence a list is |
| environment (`environment.c`, `.h`) | a chain of symbol tables, each an avl in a scope of the arena | pushsymtable, popsymtable, bind | a throw between push and pop of a direction | what is reached is allocated; a popped scope gives back what it took |
| heap (`heap.c`, `.h`) | a pointer, a chain of marks in the memory they mark | alloc, mark, rewind | marks in memory, as in the bistack | an arena of which one end is used |
| eeprom, utils, eval, builtins, main, t, try2 | - | - | unfinished or unused ancestors and experiments; see [limits](#limits) | - |

Interaction is by calls. The reader, list, avl, vlist and environment allocate
from a bistack; the reader uses lists as the frame stack of put_missing and
pprint; an environment binds in an avl tree; every component reports failure by
`lerror`, which jumps to the `setjmp` of the main loop. The reader pulls
characters through a `getc` callback and writes through `putc`; either may
decline (-1), which is how one thread stays responsive.

## Modules

`BistackOps` has the operations of `bistack.c` as functions of the BISTACK
record; they are composed by two users. `Bistack` drives them by an arbitrary
client, and `Reader` by the reader's own sequences of calls, through
`BistackCalls`, which stops a sequence at the first call that does not fit and
undoes nothing, as `lerror` does.

| module | models | state and actions |
|---|---|---|
| `BistackOps` | `bistack.c`, `bistack.h` | `bs`: `forwardptr`.. as `fptr`, `fmark`, `bptr`, `bmark`, the words of memory that hold marks as `mem`, `direction_stack` as `dir` |
| `Bistack` | a client of it | one action per call; `fmarks`, `bmarks`, `live`, `dirs` are what the client was given; `thrown` is what the last call threw |
| `ScopedArena` | what an arena promises | two stacks of scopes over one budget of bytes, without addresses |
| `BistackProofs` | theorems about `Bistack`, and that it and `Heap` implement `ScopedArena` | |
| `ReaderTypes` | `defines.h`, character classes | |
| `Reader` | `reader_read` and its context functions, `reader_put_missing`, the recovery of the main loop | one step is one character read or written, with everything the code does before it asks for the next |
| `ReaderGrammar` | what a text means | a parser that is pushed one character at a time and never stops, looks ahead or puts back; the reference for `Reader` |
| `CharacterCount` | `cellheader_character_count` | an operator over the cells that `Reader` has read, step by step as the code's loop |
| `Pprint` | `reader_pprint` over `Reader` | `Pprint` is the call; then one step per turn of its loop, in which `putc` takes a character or refuses it |
| `Repl` | `READER_MAIN` over `Reader` | the reader's own steps, constrained by what `mygetc` and `myputc` answer; `Prompt`, `ReadOn`, `ShowMissing` and `Restart` are the places of `main` |
| `Nvmem` | `nvmem.c` on the POSIX file | memory as bytes; one action per write or header read of `nvmem_saveblock`; `Crash` between any two; `torn` and `overlaid` remember the two ways in which the chain is lost |
| `Avl` | `avl.c` | `avl_insert` is one step (nothing can come between), `avl_to_array` one step per turn of its loop |
| `List`, `Deque` | `list.c`, and what it promises | one action per call, an iterator advanced between them |
| `Multistring` | the strings of `list.c` | writing and `ms_iterchar` as actions; the functions that only read as operators |
| `Vlist` | `vlist.c` | one action per call; also implements `Deque`, but for a shift of an empty one |
| `Heap` | `heap.c` | one action per call; implements `ScopedArena` |
| `Environment` | `environment.c` over `BistackOps` | one action per function, and one for a host that allocates in between |
| `MCSymbolTables` | `Avl` and `Environment` for one run | the tree of a table in some behaviours, its scope in the others |
| `ReaderProofs` | theorems about what `Reader` reads and writes | |
| `ReaderArenaProofs` | theorems about where `Reader` and `Pprint` keep it in the arena | |
| `ListProofs` | theorems about `List` and `Multistring` | |
| `AvlProofs`, `EnvironmentProofs`, `NvmemProofs`, `ReplProofs` | theorems about the modules they are named after | |

The `MC*` modules give constants their values. `MCContainers` runs `List`,
`Multistring`, `Vlist` and `Heap` side by side, one of them in each behaviour.
An operator introduced by the comment `Fault:` is a wrong version of the
definition after it, kept to show that the checked properties notice; it is
used by no specification.

Choices that a reader of the code should know:

- Bytes. `Bistack` places every block and mark at its address. Only the words
  that hold marks have contents, since nothing else in the arena is read by
  the bistack. `Nvmem` has all bytes.
- Characters of the reader. All that the code never singles out are one
  letter, `a`. The five hash bits of a symbol are left out.
- The bytes of an unfinished symbol are written beyond the arena's pointer
  before they are allocated. `Reader` knows when put_missing writes over them
  (`Garbage`), and ends a behaviour (`thrown = "overrun"`) where they would run
  into the other stack: what such a build does next is undefined.
- Bit 7 of an `AST_TYPE` is never assigned. `Padding` is the set of its
  possible values where the byte is compared: `{0}` for a build that keeps it
  clear, `{0, 1}` for one that does not (the Xcode project builds with
  `GCC_OPTIMIZATION_LEVEL = 0`).
- The host of the reader finishes a put_missing it began and sets the streams
  again after `reader_init`, as the main loop does.
- `nvmem_set` is one step; a write torn in the middle is left out.
- `reader_pprint` makes a frame for the root list and for nothing else, since
  it shifts that frame off its list before it looks at the root's cells
  (`reader.c:700`). It prints a parenthesis and a blank, then reads the next
  frame through a null pointer (`at = "null"`). Its branches for symbols,
  integers and nested lists are unreachable, and are left out for that reason.
  The two fields that it tests and never sets have any value of `Stale`.
- `free` on memory of the arena (`vlist.c:87`) is undefined: the library
  aborts (`FreeAborts`) or does nothing. A `free` that hands the block out
  again later is left out.
- A symbol table is the set of its tree's nodes. `avl_insert` allocates one
  node, before it changes the tree, or throws; the shape of the tree is
  `Avl`'s business.
- `environment.c` includes a `main.h` whose types are declared nowhere. The
  functions are modelled as written. `environment.h` declares another
  environment, of which the reader uses the arena only.
- `Heap` is the build with asserts, in which a failing one ends the program.
- The tree's `key_t`, `value_t` and `KEYVALUE` are declared nowhere in the
  repository. Keys are positive numbers, since `avl_to_array` uses 0 for none.

## Runs

All passing runs are exhaustive within their bounds.

| run | question | bounds, and why they are enough |
|---|---|---|
| bistack | do marks, blocks, rewinds and directions stay in order, and is it a scoped arena? | 11 bytes, a header of 1, pointers of 2: up to three marks more than the first two, in every mixture of the ends, and every way of running out; blocks of the sizes in `SmallRequests`. A direction register of 2 bits and up to 3 pushes, so that it is pushed to its limit and beyond (`DirBits` is a constant; the code's is 8, and the theorem is for any) |
| reader_text | does a text cut anywhere read as the text, are errors those of the text, is pushback in order, is the arena left as it should be, is a put_missing written once? | four scripts: four characters, the first three from every class; seven prefix characters, where the prefix buffer holds four; seven characters of lists, strings, escapes and comments, up to three lists deep; six digits and signs. Symbols of 3 characters and lists modulo 4, so that both limits are met |
| reader_scarce | memory that runs out between any two allocations | structs of 1 byte in an arena of 26, so that each allocation is the failing one in some behaviour, those of put_missing and of pprint included; padding and stale bytes of either value; seven characters, nested up to four deep. Does each call return or throw? |
| repl | is each line answered, and before the next is asked for? does the end of the input end the program? | seven characters of lines, with an error in each place and up to four ends of lines; the input may end at each character. Structs of 1 byte in an arena of 34, so that memory runs out, also in `reader_init` after a throw |
| nvmem_store | are the chain and the data kept, and is the best block taken, over saves, frees and failures? does the walk end as long as the chain is not lost? | 80 bytes, four saves, one failure of power, two contents. The lengths 4 and 32 make splits, exact fits, joins with a free neighbour, and a store that is full; 1 is the length with which a split overlays its own header; 0 throws `NVMEM_WRITE_ERROR`, for `fwrite` of no bytes returns 0. In 80 bytes the 255 with which the search begins is larger than any block, so that something is saved at all; in the program it is not, see the findings |
| symbol_tables | order, balance, the array and its end; is what an environment reaches allocated, and does a popped scope give back what it took? | seven keys in every order: the fewest nodes of a tree with four levels, in which every rotation has subtrees to carry and the array has holes above its last row; up to five nodes of four keys where one is bound again, as many as the insertion of `avl_insertion` takes; and a key (`Junk`) in the memory of the array before. For the scopes 10 bytes, tables and nodes of 1: up to three scopes, every way of running out; a direction register of 4 bits, filled by the directions that abandoned calls leave; both directions, with a host that allocates in the backward one |
| containers | is a list a sequence with two ends, with an iterator; a vlist the same at its front; a string what was written; a heap a scoped arena? | four nodes of a list, a count of two bits that comes round to 0 at the fourth; six characters in buffers of two, so that a page turns twice; vlists of up to three sublists (18 words), a `size_t` of four bits, so that an index wraps around; a heap of 7 bytes with marks of 2, where the fourth mark is refused |

The other runs (reader_resumed_integer, nvmem_load, nvmem_power, avl_insertion,
reader_pprint) are those of the [findings](#findings).

Fairness. `Reader!FairSpec`, `Pprint!FairPrintSpec` and `Nvmem!FairSpec`
ask that a call which was made runs on (weak fairness of its steps): there is
one thread and no lock. They ask nothing of the host, which may stop calling,
nor of the stream, which may hold no more. `Avl!FairSpec` asks the same of
`avl_to_array`, and so does `TablesSpec`. The counterexample of nvmem_power is a
save that is given its steps for ever, and they change nothing.
`Repl!FairReplSpec` asks that the program runs on wherever it is not waiting in
`getchar`: nobody has to type, nor to end the input.

Deadlock is checked in reader_text, whose host can always go on. In
reader_scarce and repl an overrun ends a behaviour, as a pprint that reads
through a null pointer does, and the end of the input. In the others, clients
stop at the bounds of the model (`MaxSaves`, `Room`, `MaxLen`).

What the properties say, and where they could have gone wrong:

- `MarkChain`, `LiveDisjoint`, `RewindReturnsMark`, `ArenaSpec`: the memory.
  The mark of one end and the blocks of the other meet in the middle; a dropped
  mark merges two scopes.
- `ReadsAsOneChunk` is the reader's contract. It compares the cells, open
  lists, unfinished token, pushback and answer with the grammar's at every
  return. `ErrorsAreTheTexts` does so for errors, and shows that no internal
  assertion fails. `PushbackInOrder` relates pushback and prefix buffer to the
  stream at every step.
- `PrinterStacked`, `CellsContiguous`, `HeadroomSuffices` relate the reader's
  pointers to the arena, and hold while it stalls, throws and recovers.
  `PrinterStacked` says that each context lies on its own mark, whatever a
  throw, a put_missing or a pprint left above or below it.
- `CallsReturn`: each read and put_missing returns or throws. The exception is
  `Exhausted`: once the memory that throws have left behind is all of it,
  `reader_init` itself throws, into the `setjmp` that calls it again.
- `CountsTheTree`: the count of characters finds the end of each list by the
  lengths in the headers, which must agree with the tree at every moment when
  reading has stopped. Excepted are lengths that came round to zero, and trees
  deeper than the count's sixteen frames, which it does not refuse.
- `PromptFirst`, `LineAnswered`, `EndsWithInput`: the main loop. The first is
  about order: the reader asks for one character more than the line has, and
  `mygetc` must decline exactly then. The second is what a user sees: a line
  that ended is answered without another key, unless memory is `Exhausted`. The
  third claims the end of the program where the input ends at the root; see the
  findings for the other case.
- `MissingWrittenOnce`: a put_missing that is refused output any number of
  times closes every list once, innermost first.
- `ChainIntact`, `DataKept`, `BestFitTaken`, `CallsReturn`: the store. The
  chain is lost in two ways, and all of them except the store in which it is
  (`Sound` is false): where power failed between the two writes of a split or of
  a format (`torn`), and where a block of one byte was split, the header of
  the rest being laid over the upper byte of its size (`overlaid`). `ChainIntact`
  also excepts the moments between these writes. `DataKept` excepts the last
  bytes of a block, as many as a header has; see the findings. `BestFitTaken`
  allows a save to fail where each block that fits is as large as the size with
  which the search begins. `CallsReturn` excepts a save that comes to a header of
  size zero in a store whose chain is lost, and no other: such a save runs for
  ever, as nvmem_power shows.
- `Ordered`, `Balanced`, `Found`, `FreshInsertionCompletes`, `ArrayHoldsTree`,
  `PathFits`: the tree. A rotation reads a child, or a grandchild, without a
  test; `FreshInsertionCompletes` says that it is there where no key was bound
  twice (avl_insertion shows that it may not be where one was).
  `Balanced` requires that no key is bound twice for the balance, not for the
  recorded heights. `ArrayHoldsTree` gives the content of each entry: that of its
  node, or else what the entry was when the walk began, which is zero only in
  the row that the code clears, one place late; see the findings. The `PathFits` of the conversion are the code's asserts.
- `TextAsOnePiece`: a string put together, hashed buffer by buffer, or compared
  up to a length within its last buffer, gives what the text itself would give.
- `VlistSpec`, `VlistIndexed`: `Vlist` implements `Deque`, and each index leads
  to its number although the sublists are filled from their ends. Nothing is
  claimed of what a shift of an empty one returns, which should throw and does not,
  nor that a shift returns: its `free` may end the program. See the findings.
- `HeapSpec`: `Heap` implements `ScopedArena`, as the bistack does.
- `EnvironmentLive`, `ScopeGivenBack`: no table outlives its scope, whatever
  calls were abandoned, and a scope gives back what was allocated in it. What a
  call that threw has left is excepted: the direction that it left pushed is
  the one that the host goes on in.
- `DequeSpec`: `List` implements `Deque`. `IterationComplete` says which items
  an iteration on a changing list returns, and when an iterator was cut off.

## Findings

Each is a run that TLC must find violated; the configuration is small and the
trace short. All were confirmed by compiling the code, where needed with a
smaller `NVMEM_END_ADDRESS`.

| run | the code | what is said |
|---|---|---|
| reader_resumed_integer | a value of 0 is taken for "no digit yet" when a read goes on (`reader.c:179`), so `8192` cut before its end accepts a sign | `tests/test_reader.c:135-137` |
| nvmem_load | a split block's size leaves out its header (`nvmem.c:110`), and the next header overwrites its last bytes | `nvmem.h:20`, `nvmem.h:36` |
| nvmem_power | the magic word is written before the first header (`nvmem.c:68`); if power fails between the two, the next `nvmem_init` takes the store for formatted, and a save stays at a header of size 0 for ever (`nvmem.c:93-99`) | `nvmem.h:96`: it "creates the fs in nvmem if it is not currently there" |
| avl_insertion | equal keys are in none of the four cases (`avl.c:110-130`); five insertions, `2 2 2 2 1`, read through NULL | `avl.h:36`, `avl.c:108` |
| reader_pprint | the only frame is shifted off the list before its cells are printed (`reader.c:700`), and the next is read through NULL: a call returns only if a character is refused | `tests/test_reader.c:109` |

Smaller disagreements, met while modelling and confirmed by compiling (those of
`environment.c`, which does not compile, by reading), for which no run is kept. The models do as the code does in each:

- The search for a block begins with a best size of 255 (`nvmem.c:91`), and the
  first block of the real store has 24760 bytes: the first save throws, and so does
  every other, where the tests at `nvmem.c:204` and `:239` expect an address. The
  theorem `NothingSaved` proves it of every store whose first block is as large
  as the size the search begins with.
- A split sets the size of its block to the length of the data alone
  (`nvmem.c:110`). Where that is one byte the header of the rest begins at the
  second byte of the block's own, over the upper byte of its size, and every
  walk from then on goes astray: the chain is lost with the power on. `nvmem.h:59`
  says "Creates a new Iterator over all the blocks". The comment at
  `nvmem.c:104-105` cares for an interruption while the data is written; of one
  between the headers of a split nothing is said, though writing the rest's
  first would keep the chain.
- A save of no bytes throws `NVMEM_WRITE_ERROR` (`nvmem.h:110-111`).
- At the end of the input with a list, a string or a comment open, the main
  loop reads on without end (`reader.c:796-803`): the character -1 is not a
  line's end, so that neither the prompt nor `is_done` is come to.
- After enough errors `reader_init` (`reader.c:787`) throws for want of memory,
  into the `setjmp` before it, for ever: a throw gives nothing back.
- The guard of `vlist_shift` (`vlist.c:77`) is never true: an empty list has one
  place and offset 0. A shift of it returns what its memory holds, where
  `vlist.c:78` says "vlist_shift called on empty array" and a call that is
  commented out in the test at `vlist.c:106` has "boom" beside it.
- `free` (`vlist.c:87`) gets memory of the arena (`vlist.c:16`), so that the test
  that takes its ten numbers off again (`vlist.c:104`) may end in an abort.
- `globalbindings` is set once (`environment.c:29-31`) and dangles after the
  outermost scope was popped. A call of the environment that runs out of
  memory leaves its direction pushed, which turns the host's.
- `!` begins no symbol (`reader.c:158`); the comment after it says "all
  non-control characters are treated like a symbol".
- `""` does not end at its second quote (`reader.c:230`); the comment before it
  says "indicates end iff symbol is double quoted".
- A read that stalls in a comment at the root returns FALSE (`reader.c:421`);
  `reader.c:450-451` says TRUE.
- Bit 7 of an `AST_TYPE` is assigned nowhere and compared (`reader.c:449`,
  `:123`): where it is set, `a ` is a syntax error.
- Binding a key again does not change what `avl_get` returns (`avl.c:97`);
  `environment.c:51` says "Binds a symbol in the environment."
- The row that `avl_to_array` clears begins one place late (`avl.c:165`), so
  that the first place of the last row keeps what was in memory if it has no
  node, and the rows above are not cleared at all. `avl.c:164` says "the last row
  needs to be zero'd", and the sum of the test (`avl.c:274-280`) counts all
  entries: it is right only because the memory it is given is zero.
- `list_reset` clears the tail and keeps the head (`list.c:118`), and the next
  `list_append` writes through NULL; `list.h:16` says "A reusable list." Nothing
  calls it, and `List` leaves it out.

## Proofs

Eight modules hold theorems. Each holds for every value of the constants that
satisfies the assumptions named after the table.

| module | theorem | states |
|---|---|---|
| `BistackProofs` | `Invariance` | `Spec => []IInv` |
| | `TypeCorrect`, `MarkChainIntact`, `BlocksDisjoint`, `DirectionsFaithful`, `RewindExact` | `TypeOK`, `MarkChain`, `LiveDisjoint`, `DirectionFaithful`, `RewindReturnsMark` |
| | `ImplementsScopes` | `Spec => ArenaSpec`: a bistack implements `ScopedArena` |
| | `HeapImplementsScopes` | `H!Spec => H!HeapSpec`: a `HEAP` implements `ScopedArena` with one end |
| `ReaderProofs` | `StreamInOrder` | `Spec => []PushbackInOrder` |
| | `EachClosedOnce` | `Spec => []MissingWrittenOnce` |
| `ReaderArenaProofs` | `CellsInOneBlock` | `Spec => []CellsContiguous` |
| | `PrinterOnStack` | `PrintSpec => []PrinterStacked` |
| | `HeadroomBound` | `PrintSpec => []HeadroomSuffices` |
| | `ReaderTyped` | `PrintSpec => []TypeOK` |
| `ReplProofs` | `PromptedFirst` | `ReplSpec => PromptFirst` |
| `NvmemProofs` | `StoreInvariant` | `Spec => []StoreInv` |
| | `SavedIsKept`, `ChainKept`, `BestFitFound` | `DataKept`, `ChainIntact`, `BestFitTaken` |
| | `WalkGoesOn` | `Spec => [](Sound => ~Stuck)`: no walk comes to a size of zero |
| | `NothingSaved` | `BestSize0 <= FirstSize` implies `Spec => [](saved = {})` |
| `ListProofs` | `ListIsCounted` | `Spec => []CountIsLength` |
| | `ListImplementsDeque` | `Spec => DequeSpec`: a list implements `Deque` |
| | `ReadAsWritten` | `MsSpec => []ReadsInOrder` |
| | `TextInOnePiece` | `MsSpec => []TextAsOnePiece` |
| `AvlProofs` | `TreeOfBound` | `Spec => []AvlInv` |
| | `TreeOrdered`, `TreeBalanced`, `KeysFound` | `Ordered`, `Balanced`, `Found` |
| | `FreshInsertions` | `FreshInsertionCompletes` |
| `EnvironmentProofs` | `TablesLive` | `EnvSpec => []EnvironmentLive` |
| | `ScopesGiveBack` | `EnvSpec => ScopeGivenBack` |

Assumptions on constants:

- `ArenaAssumption` and `SizesAssumption`: the buffer holds the header and two
  marks; header, pointer and register have a size. `EnvironmentAssumption` says
  the same of its arena, and that tables, nodes and the host's blocks have sizes.
- `ReaderAssumption`, `StaleAssumption`, `AvlAssumption` and `ListAssumption`,
  which the modules `Reader`, `Pprint`, `Avl` and `List` state of their
  constants.
- `RoomAssumption`: the arena has room for the reader that `reader_new` makes
  in it. Where it has none `reader_new` throws, and there is no reader.
- For `ReaderTyped` alone: there is a script, and a bound on their lengths,
  without which the largest position in the stream would not be defined.
- `BUFSIZE` is not zero (`MULTISTRING_BUFSIZE`).
- `HeapSizes`, a hypothesis of `HeapImplementsScopes`: memory and requests have
  sizes, and a mark (`sizeof(MARK)`) is not empty.
- `StoreFits`, for the store: the magic word is as long as a header, as on a
  machine where both are words, and the first block's size fits the 15 bits
  that a header has for it. The code checks neither; the real file has 24760
  bytes, which fit.
  Data has any length, and the search begins with any size (`SIZE_T`).
- The hypothesis of `NothingSaved`: the size that the search begins with is at
  most that of the first block, as in the program (255 and 24760). It says that
  in the program no save returns an address. The other theorems about the
  store hold there too, and hold of more than an empty store once `nvmem.c:91` is mended.

### The arguments

`Bistack`. None of the properties is inductive by itself. That a chain of marks
is intact depends on no write reaching a mark: writes go to the gap, so each
mark must lie outside it, and below (above, at the other end) every later one.
`IInv` therefore says, besides the types and that the pointers are in order:
marks ascend from the header to the forward pointer with a pointer's room each
(`FMarksOK`), and descend from the end of the buffer likewise (`BMarksOK`);
each live block lies in a gap between two neighbouring marks of its own end
(`FBlocksOK`, `BBlocksOK`); blocks are apart; and each mark holds the address
of the one before (`FChainOK`, `BChainOK`). The lemmas treat the two ends and a
stack of marks (push, pop, and merging two scopes) once; each action's step is
then one of them per conjunct. The steps that undo a mark read the address of
the one before from memory, which is where the chain is used. `RewindExact`
is an action property and follows from `IInv` and the definitions of the
actions. `DirectionsFaithful` is independent of the memory and has an
inductive argument of its own.

`ScopedArena`, in the second part of `BistackProofs`. Under `IInv` the marks in
memory are the client's, so that the scopes of the refinement mapping are
differences between neighbouring marks and the pointer. What a call does to marks and pointers is then arithmetic on these
differences. The backward stack is the forward one of the negated addresses,
and the same lemmas serve both.

`Heap`, in the last part. A rewind leaves the mark in memory, where it stays
until an allocation or a later mark lies over it, so that memory holds marks
that no scope has any more. `HeapInv` says two things. Every mark in memory, stale or not, leads
to a lower address (`LeadsDown`): without it the chain would not be known to
end, and the function that follows it not to exist. And there is a list of
addresses below the pointer, in order and a mark's size apart, which are the
marks in use: each holds its own address and that of the one before (`InUse`).
The list is what the chain from `lastmark` visits, the scopes are the
differences of it and the pointer, and the lemmas on those of the bistack apply,
with one mark more below the memory for the scope that has none.

`Reader`. `StreamInv` says that what was put back, and what a function keeps in
locals where it pauses, are the end of the text read so far; a function that
pauses has nothing put back that it has not taken. `CloseInv` has two parts.
`NestInv`: the contexts are a chain of nested ones that begins with a list.
`MissingInv`: while a put_missing is not done, what it has written followed by
what its frames have still to write is the closers of that chain. Neither needs
to know where in the arena a context lies, which is why they hold for every
arena, also where memory runs out in the middle.

`Reader`, in the arena. The operations of the reader are sequences of calls of
the arena that stop at the first that does not fit, so that it is first shown,
for sequences of any length, what they do call by call (`CallByCall`): an
allocation lowers a pointer, a mark writes a word below it, and no word above
is touched. `ArenaInv` then has three parts. `StackInv`: each context but the
last is a list, and each lies below the one before on a mark whose word leads
to that one's (`Chain`); on top of the last there is nothing (`OnTop`), or the
mark of an unfinished put_missing (`Topped`). After a throw only the arena's own
order remains, for what the failed call took lies on top of it. `TreeInv`: each
context has a cell of its type, an atom's is the last, and every cell ends where
the next begins, the last at the forward pointer but for the characters of an
unfinished symbol. `PlaceInv`: cells begin and comments are skipped in lists
only. The end of a cell rewinds one mark; `Chain` says where to, which is why
the assert at `reader.c:333` never fails. `PrintInv` adds the mark of a
pprint. `HeadroomSuffices` follows from `GapInv`, and that from a bound on what
any sequence of allocations takes (`Weighs`): a character is overwritten only in
the step that builds frames over it, and what these weigh is then known.

`Repl`. `PromptInv` lists what may keep the loop from the next character while
the end of a line is not answered: the end of the input, a throw, a pause of
`mygetc`, the prompt itself, or a put_missing that shows what is missing. Each
step of the reader either asks for no character or finds one of these false.

`Nvmem`. `StoreInv` says that there is a set of addresses of which each but the
end leads to the next one by the size in its header; that each saved block is
one of them, in use, and its data kept but for the bytes of a header; and, for
each place in the middle of a save, what the save knows: the block chosen and its
size, and that a block being split ends where the data does, at an address where
no block begins yet. Every action writes inside one block, so that one lemma per
shape of write (in the data; in a header; a new block inside a free one; two
blocks joined) carries the rest of the set over. A failure of power keeps the
memory and forgets the save, which the invariant allows at each place but two:
between the writes of a split and between those of `nvmem_init`. There the store is
`torn`. Where the data of a split block has one byte, the header of the rest
overlaps that of the block, and the lemma on writes inside one block does not
apply: the store is `overlaid`. `StoreInv` claims nothing of either, as the runs
do not. While the walk goes on, the best block so far is the smallest of those
passed that fit and are below the size it began with (`NoneBetter`). `NothingSaved` has
an invariant of its own (`NewStore`): nothing but the first header, of a size that
the search never takes, is ever met.

`List`. A node that was popped stays in the arena, linked to what came after
it; the links of the nodes on the list say nothing of the others. `ListInv`
says that the links of all nodes make no circle (they can be laid out in a row
along which each link leads on), and that the nodes on the list are a path from
head to tail. Without the first part the recursive function `From` might not be
defined. The refinement then is one lemma per operation: what it does to the
path is what `Deque` does to its sequence.

`Multistring`. `MsInv`: all buffers but the last are full (`Layout`), character
`i` is in buffer `i \div BUFSIZE` (`Holds`), and the reader stands in the
buffer of the character it was given last, or at the end of the one before
(`Beside`). The last is what fails if a page is turned one character early or
late. That the functions which walk all buffers see the text (`TextAsOnePiece`)
is shown from the last buffer backwards: what assemble, hash and strncmp make
of the buffers from the `k`-th on is what they make of the text from character
`k * BUFSIZE` on.

`Avl`. `AvlInv` says that there is a family of sets, for each node the nodes
below it, such that every node of the arena is in the root's set once, left and
right sets are apart, and keys lie on the side they should (`Tree`); that each
link leads to a node of smaller height (`Linked`), each recorded height is one
more than the larger of the children's (`Tall`), and, where no key was bound
twice, the children's heights differ by one at most (`Even`). All of it is
said node by node. A rotation then changes two nodes, or three, and carries
the sets of their subtrees over as they are. `avl_insert` is a recursive
function over recorded heights; that the tree it returns satisfies the
invariant is shown for the least height at which it would not. `Ordered`,
`Balanced` and `Found` compare with recursive definitions (the sequence in order,
the depth, the search), and follow by the same argument. Where a key is bound
again `Even` is given up, and with it only the balance and
`FreshInsertionCompletes`.

`Environment`. A push that throws between its mark and its table leaves a mark
that no table belongs to, and the pop of the next outer scope then rewinds that
mark and not its own. Marks and tables are therefore not one for one, and an
invariant that pairs them is not inductive. `EnvInv` says instead that above a
table, and above each of its nodes, there are at least as many marks as there
are tables further in (`Placed`), so that the pops that these still take leave
it where it is. A scope in which nothing was abandoned does have its mark as far
from the newest as its table is from the innermost (`Scoped`), which is what
`ScopeGivenBack` needs. The host's blocks are said to be safe while the host
allocates at the other end, which a call that threw may have changed
(`HostApart`). Both directions are carried by one order on addresses (`Under`),
and it follows that a pop never lacks a mark to rewind. The chain of tables
is a recursive function; it is shown to be the list of the invariant, the
innermost table first (`ChainIsNested`).

### Recursion and induction

The library's induction theorems cannot be used here, since they take an
operator as a parameter. Where an argument needs induction over numbers
(`BistackProofs`, `NvmemProofs`, `ListProofs`, `EnvironmentProofs`, `AvlProofs`,
`ReaderArenaProofs`), it takes the least element of a set of
counterexamples (`NatMinimum`). A recursive function `f[x \in S]` is a choice of a
function that satisfies its equation; that there is one is proved, by position in the row
for `From` of `List` and for the chain of `Environment`, by the next address
for the chain of `Nvmem`, by height for those of `Avl`, by buffer for those of
`Multistring`, and mark by mark, the lowest first, for the chain of `Heap`. A fold of the community modules over a sequence of calls is such
a function of the calls that are left. That a power of two is positive is known
from the subsets of a set, for the prover has no rule for exponents.

### Only model-checked

- Liveness (`CallsReturn`, `LineAnswered`, `EndsWithInput`, `ToArrayReturns`):
  the prover has no rule for `ENABLED`.
- `IterationComplete`: its action compares with a subsequence that is
  selected by a recursion of the library.
- `ReadsAsOneChunk`, `ErrorsAreTheTexts`, `CountsTheTree`: they compare with a
  parser and a count that are recursive over whole texts and trees.
- `ArrayHoldsTree` and `PathFits` of `Avl`; `VlistSpec` and
  `VlistIndexed`: not proved, see the [plan](#plan).
- What happens once the store is `torn` or `overlaid`. The runs go on from there,
  and of what they show only `SaveReturns` is about it.

## Limits

- Not modelled: the branches of `reader_pprint` that are never reached
  (`reader.c:605-672`), `list_reset`, which nothing calls, the wording of
  `thrown_error_to_string`.
- Out of scope: `eeprom.h`, whose `eeprom_open` calls itself without end;
  `utils.c`, arithmetic with nothing claimed of it; `eval.c`, `builtins.h`,
  `main.c`, `t.c`, `try2.c`, which have no behaviour or do not compile; the
  wording of errors; layout of output.
- `environment.h` and `avl.h` do not compile as they stand (types are
  missing). `Avl` and `Environment` model the code as written.
- A character of value 255, which `mygetc` hands on as the -1 of an end that it
  is not, is typed in no run.
- A list that still uses nodes of a scope that was rewound, and a tree
  likewise, are errors of the client that `List` and `Avl` leave out: their
  nodes are never freed.
- In `Avl`, the array's old memory has the same key everywhere.
- `Multistring!ms_strncmp` models how a comparison that ends before the last
  buffer goes on; no property is stated of it, since no text says what it
  should do.

## Plan

Modelled: every component with behaviour of its own. Proved: what the table
above lists. What is left are proofs, in this order.

1. `Avl`: the stack of `avl_to_array` is the path to the node it stands at, and
   so no longer than the root is high (`PathFits`).
2. `Vlist`: the sublists fit the size and the offset.
3. Type correctness of each of them.
