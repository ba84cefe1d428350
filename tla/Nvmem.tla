------------------------------- MODULE Nvmem -------------------------------
(***************************************************************************)
(* The block store of nvmem.c: a chain of blocks in non-volatile memory,   *)
(* each a header (a free bit and a size) followed by its data, with no     *)
(* other record of what is where.  Everything a call knows is read back    *)
(* from the chain, and power may fail between any two writes.              *)
(*                                                                         *)
(* Memory is bytes, since the chain's fields and the client's data lie in  *)
(* the same ones.  A write of nvmem_set is one step: the model leaves out  *)
(* a failure in the middle of a write.                                     *)
(***************************************************************************)
EXTENDS Integers, Sequences, FiniteSetsExt

CONSTANTS
  START,    \* NVMEM_START_ADDRESS
  END,      \* NVMEM_END_ADDRESS
  MAGIC,    \* sizeof(MAGIC_WORD), which is a pointer's
  HEADER,   \* sizeof(NVMEM_BLOCK)
  SIZE_T,   \* sizeof(size_t)
  Lens,     \* the lengths clients save
  Fills,    \* the bytes their data is made of
  MaxSaves,   \* bound of the model: the saves of a behaviour
  MaxCrashes  \* bound of the model: how often power fails

ASSUME NvmemAssumption ==
  /\ {START, END, MAGIC, HEADER, SIZE_T, MaxSaves, MaxCrashes} \subseteq Nat
  /\ HEADER >= 2 /\ MAGIC >= 1 /\ START + MAGIC + 4 * HEADER < END
  /\ Lens \subseteq Nat
  /\ Fills \subseteq 0 .. 255

VARIABLES
  mem,     \* the bytes of code.mem from START on
  pc,      \* where the call is
  block,   \* the NVMEM_BLOCK the call read last, as bytes
  cur,     \* cur_addr
  best,    \* best_addr and best_size
  req,     \* the data nvmem_saveblock was given
  saved,   \* the blocks the client was given and has not freed
  thrown,  \* the error the last call threw
  saves,   \* how many saves were begun
  crashes, \* how often power failed
  torn,    \* power failed between two writes that belong together
  overlaid \* the header of a rest was written over the size of the block before

call == <<block, cur, best, req>>
vars == <<mem, pc, call, saved, thrown, saves, crashes, torn, overlaid>>

-----------------------------------------------------------------------------
(* Headers in memory: two bytes of bit-fields, low byte first, and padding. *)

IsFree(b) == b[1] % 2 = 1

SizeOf(b) == b[1] \div 2 + 128 * b[2]

Header(b, free, size) ==
  [b EXCEPT ![1] = free + 2 * (size % 128), ![2] = (size \div 128) % 256]

Blank == [i \in 1 .. HEADER |-> 0]

FileEnd == START + Cardinality(DOMAIN mem)

CanFetch(a, n) == a + n <= FileEnd

Fetch(a, n) == [i \in 1 .. n |-> mem[a + i - 1]]

\* Writing past the end extends the file.
nvmem_set(a, bytes) ==
  LET end == FileEnd IN
  mem' = [x \in START .. Max({end, a + Len(bytes)}) - 1 |->
            IF x \in a .. a + Len(bytes) - 1 THEN bytes[x - a + 1]
            ELSE IF x < end THEN mem[x] ELSE 0]

-----------------------------------------------------------------------------
Magic == [i \in 1 .. MAGIC |-> 115]

First == START + MAGIC

\* Reckoned with the size of a header where that of the magic word is meant;
\* the two are the same where both are a pointer's.
FirstSize == END - HEADER - START

\* nvmem_init formats a store that does not begin with the magic word.
Boot ==
  /\ pc = "boot"
  /\ IF Fetch(START, MAGIC) = Magic
       THEN pc' = "idle" /\ UNCHANGED mem
       ELSE nvmem_set(START, Magic) /\ pc' = "format"
  /\ UNCHANGED <<call, saved, thrown, saves, crashes, torn, overlaid>>

Format ==
  /\ pc = "format"
  /\ nvmem_set(First, Header(Blank, 1, FirstSize))
  /\ pc' = "idle"
  /\ UNCHANGED <<call, saved, thrown, saves, crashes, torn, overlaid>>

-----------------------------------------------------------------------------
(* nvmem_saveblock.                                                        *)

Alignment == 4    \* 1 << BLOCK_ALIGNMENT

\* The header is counted, and the sum rounded up.
AllocSize(len) == ((len + Alignment - 1 + HEADER) \div Alignment) * Alignment

BestSize0 == 2 ^ SIZE_T - 1    \* (1<<sizeof(size_t))-1

NoBest == [addr |-> 0, size |-> BestSize0]

\* The locals of a call are gone when it returns, or throws.
Leave ==
  pc' = "idle" /\ block' = Blank /\ cur' = 0 /\ best' = NoBest

Save(data) ==
  /\ pc = "idle" /\ saves < MaxSaves
  /\ saves' = saves + 1
  /\ req' = data
  /\ cur' = First
  /\ best' = NoBest
  /\ pc' = "walk"
  /\ thrown' = "none"
  /\ UNCHANGED <<mem, block, saved, crashes, torn, overlaid>>

Fits(b, n) == IsFree(b) /\ SizeOf(b) >= n

\* Fault: the last block that fits is taken.
LastIsBetter(b) == TRUE

Better(b) == best.size > SizeOf(b)

\* Fault: the walk stays at the first block in use.
StopAtUsed(b) == IF IsFree(b) THEN SizeOf(b) ELSE 0

Stride(b) == SizeOf(b)

\* One block of the search for the smallest that fits.
Walk ==
  /\ pc = "walk" /\ cur < END
  /\ IF CanFetch(cur, HEADER)
       THEN LET b == Fetch(cur, HEADER) IN
            /\ block' = b
            /\ best' = IF Fits(b, AllocSize(Len(req))) /\ Better(b)
                         THEN [addr |-> cur, size |-> SizeOf(b)] ELSE best
            /\ cur' = cur + Stride(b)
            /\ UNCHANGED <<pc, thrown>>
       ELSE Leave /\ thrown' = "NVMEM_READ_ERROR"
  /\ UNCHANGED <<mem, req, saved, saves, crashes, torn, overlaid>>

\* The data is written first, into a block that is still free.  fwrite of no
\* bytes returns 0, and that is taken for an error.
WriteData ==
  /\ pc = "walk" /\ cur >= END
  /\ IF best.addr = 0
       THEN Leave /\ thrown' = "NVMEM_OUT_OF_MEMORY" /\ UNCHANGED mem
     ELSE IF req = <<>>
       THEN Leave /\ thrown' = "NVMEM_WRITE_ERROR" /\ UNCHANGED mem
       ELSE /\ nvmem_set(best.addr + HEADER, req)
            /\ pc' = "commit"
            /\ UNCHANGED <<block, cur, best, thrown>>
  /\ UNCHANGED <<req, saved, saves, crashes, torn, overlaid>>

Splits == best.size - AllocSize(Len(req)) > 2 * HEADER

\* The client's record of a save that returned.
Saved == saved \cup {[addr |-> best.addr, data |-> req]}

\* The block is taken.  When it is split its size is that of the data, and
\* what is left of it has no header yet.
Commit ==
  /\ pc = "commit"
  /\ LET taken == Header(block, 0, IF Splits THEN Len(req) ELSE best.size) IN
     /\ nvmem_set(best.addr, taken)
     /\ IF Splits
          THEN /\ block' = taken
               /\ cur' = best.addr + Len(req)
               /\ pc' = "split"
               /\ UNCHANGED <<best, saved>>
          ELSE saved' = Saved /\ Leave
  /\ UNCHANGED <<req, thrown, saves, crashes, torn, overlaid>>

NextBlock == best.addr + best.size

\* Fault: the rest is reckoned from the rounded size, and laid after the other.
RestOfAllocSize(next) ==
  best.size - AllocSize(Len(req)) + IF IsFree(next) THEN SizeOf(next) ELSE 0

\* Fault: a neighbour is joined whether it is free or not.
RestAlwaysJoined(next) == NextBlock - cur + SizeOf(next)

\* What is left of a split block, joined with the next one if that is free.
Rest(next) == NextBlock - cur + IF IsFree(next) THEN SizeOf(next) ELSE 0

\* The block after the split one is read, unless the chain ends there.
Split ==
  /\ pc = "split"
  /\ LET next == IF NextBlock < END THEN Fetch(NextBlock, HEADER) ELSE block IN
     IF NextBlock < END /\ ~CanFetch(NextBlock, HEADER)
       THEN thrown' = "NVMEM_READ_ERROR" /\ UNCHANGED <<mem, saved, overlaid>>
       ELSE /\ nvmem_set(cur, Header(next, 1, Rest(next)))
            /\ saved' = Saved
            /\ overlaid' = (overlaid \/ Len(req) < 2)
            /\ UNCHANGED thrown
  /\ Leave
  /\ UNCHANGED <<req, saves, crashes, torn>>

-----------------------------------------------------------------------------
\* nvmem_freeblock reads the header back and sets its free bit.
Free(s) ==
  /\ pc = "idle"
  /\ nvmem_set(s.addr, [Fetch(s.addr, HEADER) EXCEPT ![1] = (@ \div 2) * 2 + 1])
  /\ saved' = saved \ {s}
  /\ thrown' = "none"
  /\ UNCHANGED <<pc, call, saves, crashes, torn, overlaid>>

\* Power fails: a call in progress is forgotten.
Crash ==
  /\ crashes < MaxCrashes
  /\ crashes' = crashes + 1
  /\ torn' = (torn \/ pc \in {"format", "split"})
  /\ pc' = "boot"
  /\ block' = Blank /\ cur' = 0 /\ best' = NoBest /\ req' = <<>>
  /\ thrown' = "none"
  /\ UNCHANGED <<mem, saved, saves, overlaid>>

Init ==
  /\ mem = [a \in START .. END - 1 |-> 0]
  /\ pc = "boot"
  /\ block = Blank /\ cur = 0 /\ best = NoBest /\ req = <<>>
  /\ saved = {} /\ thrown = "none" /\ saves = 0 /\ crashes = 0
  /\ torn = FALSE /\ overlaid = FALSE

Work == Boot \/ Format \/ Walk \/ WriteData \/ Commit \/ Split

Next ==
  \/ Work
  \/ \E n \in Lens, x \in Fills : Save([i \in 1 .. n |-> x])
  \/ \E s \in saved : Free(s)
  \/ Crash

Spec == Init /\ [][Next]_vars

\* A call that was made runs on, as long as there is power.
FairSpec == Spec /\ WF_vars(Work)

-----------------------------------------------------------------------------
\* Where the chain leads from a, or 0 where it does not lead on.
ChainNext(a) ==
  IF a \in First .. END - 1 /\ CanFetch(a, HEADER) /\ SizeOf(Fetch(a, HEADER)) > 0
    THEN a + SizeOf(Fetch(a, HEADER)) ELSE 0

\* The addresses of the blocks, by following the chain.
Chain ==
  LET from[a \in Nat] ==
        {a} \cup IF ChainNext(a) = 0 THEN {} ELSE from[ChainNext(a)]
  IN from[First]

\* The two ways in which the chain is lost.
Sound == ~torn /\ ~overlaid

\* The chain leads from the first block to the end of the last, whatever was
\* saved, split, joined and freed and wherever power failed, except between
\* the two writes of a split and the two of nvmem_init, and as long as no
\* block of one byte was split; and on it are the blocks of the client, in
\* use, each with its data inside, and the walk of a save.
ChainIntact ==
  pc \notin {"boot", "format", "split"} /\ Sound =>
    /\ First + FirstSize \in Chain
    /\ Max(Chain) = First + FirstSize
    /\ \A s \in saved :
         /\ s.addr \in Chain
         /\ ~IsFree(Fetch(s.addr, HEADER))
         /\ SizeOf(Fetch(s.addr, HEADER)) >= Len(s.data)
    /\ pc = "walk" => cur \in Chain

\* Of what a client saved, only the last bytes are ever lost, as many as a
\* header has: no later save, split, join or free, and no failure of power
\* during one, writes to the others.
DataKept ==
  Sound => \A s \in saved : \A i \in 1 .. Len(s.data) - HEADER :
             mem[s.addr + HEADER + i - 1] = s.data[i]

\* The sizes of the free blocks that are large enough.
Fitting ==
  {SizeOf(Fetch(a, HEADER)) : a \in {x \in Chain : x < END /\ IsFree(Fetch(x, HEADER))}}
    \ 0 .. AllocSize(Len(req)) - 1

\* The walk finds what its variables are named for, the best block: a save
\* writes to a free block of the chain, and no smaller one is large enough;
\* and it fails only when each that is large enough is as large as the size
\* the search begins with.
BestFitTaken ==
  /\ pc = "commit" /\ Sound =>
       /\ best.addr \in Chain /\ IsFree(Fetch(best.addr, HEADER))
       /\ best.size = SizeOf(Fetch(best.addr, HEADER)) /\ best.size \in Fitting
       /\ \A z \in Fitting : best.size <= z
  /\ thrown = "NVMEM_OUT_OF_MEMORY" /\ Sound => \A z \in Fitting : z >= BestSize0

\* A header of size zero, from which the walk does not get any further.
Stuck ==
  /\ pc = "walk" /\ cur < END
  /\ CanFetch(cur, HEADER) /\ SizeOf(Fetch(cur, HEADER)) = 0

\* Every call returns, the walk along the chain ends, with one exception: in
\* a store whose chain is lost a save may meet a header of size zero, and
\* then it runs for ever.  SaveReturns is about that case.
CallsReturn == pc # "idle" ~> pc = "idle" \/ (Stuck /\ ~Sound)

\* A save returns "the code address of the stored block" (nvmem.h:39), or
\* throws, whenever power failed before: nvmem_init "creates the fs in nvmem
\* if it is not currently there" (nvmem.h:96).
SaveReturns == pc = "walk" ~> pc = "idle"

\* "Stores data in nvmem" (nvmem.h:36): what is loaded from a block is what
\* was saved in it.
LoadReturnsSaved ==
  pc = "idle" /\ Sound =>
    \A s \in saved : Fetch(s.addr + HEADER, Len(s.data)) = s.data

=============================================================================
