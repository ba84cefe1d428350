---------------------------- MODULE NvmemProofs ----------------------------
(***************************************************************************)
(* The block store, proved for stores of every size, any number of saves,  *)
(* data of any length, and power that fails.                               *)
(*                                                                         *)
(* The invariant, StoreInv, says where the blocks are: there is a set of   *)
(* addresses, of which each but the end leads, by the size in its header,  *)
(* to the next one.  While a block is being split its header already ends  *)
(* where the data does, at an address where no block begins yet, and the   *)
(* set is that of before.  Every action writes inside one block, so that   *)
(* the rest of the set, and what is saved there, is what it was.  It says  *)
(* nothing of a store that is not Sound: one of which power failed between *)
(* two writes that belong together, or in which a block of one byte was    *)
(* split.                                                                  *)
(***************************************************************************)
EXTENDS Nvmem, FiniteSetTheorems, WellFoundedInduction, SequenceTheorems, TLAPS

\* The magic word is as long as a header, as on a machine where both have the
\* size of a pointer, and the first block's size has room in its 15 bits.
StoreFits == MAGIC = HEADER /\ FirstSize < 32768

Byte == 0 .. 255

Memory == [START .. END - 1 -> Byte]

Headers == [1 .. HEADER -> Byte]

Bit == {0, 1}

Sizes == {z \in Nat : z < 32768}

Datas == UNION {[1 .. n -> Byte] : n \in Lens}

-----------------------------------------------------------------------------
(* Numbers.                                                                *)

\* What the assumptions on the constants come to.
LEMMA Constants ==
  /\ START \in Nat /\ END \in Nat /\ MAGIC \in Nat /\ HEADER \in Nat /\ HEADER >= 2
  /\ First = START + MAGIC /\ First \in Nat /\ START < First /\ First < END
  /\ FirstSize = END - HEADER - START /\ First + HEADER < END
<1>1. /\ START \in Nat /\ END \in Nat /\ MAGIC \in Nat /\ HEADER \in Nat
      /\ HEADER >= 2 /\ MAGIC >= 1 /\ START + MAGIC + 4 * HEADER < END
  BY NvmemAssumption
<1> QED
  BY <1>1 DEF First, FirstSize

\* The larger of two numbers.
LEMMA MaxOfTwo ==
  ASSUME NEW a \in Int, NEW b \in Int, a >= b
  PROVE  Max({a, b}) = a
<1>1. \E x \in {a, b} : \A y \in {a, b} : x >= y
  OBVIOUS
<1>2. Max({a, b}) \in {a, b} /\ \A y \in {a, b} : Max({a, b}) >= y
  BY <1>1 DEF Max
<1> QED
  BY <1>2

\* A save takes what its data and a header need.
LEMMA AllocHolds ==
  ASSUME NEW len \in Nat
  PROVE  AllocSize(len) \in Nat /\ AllocSize(len) >= len + HEADER
<1>1. PICK h \in Nat : h = HEADER
  BY Constants
<1>2. ((len + 4 - 1 + h) \div 4) * 4 \in Nat /\ ((len + 4 - 1 + h) \div 4) * 4 >= len + h
  OBVIOUS
<1> QED
  BY <1>1, <1>2 DEF AllocSize, Alignment

\* A header says what it was made to say: 15 bits of size, one of freedom.
LEMMA HeaderSays ==
  ASSUME NEW b \in Headers, NEW free \in Bit, NEW size \in Sizes
  PROVE  /\ Header(b, free, size) \in Headers
         /\ Header(b, free, size)[1] % 2 = free
         /\ (Header(b, free, size)[1] \div 2) + 128 * Header(b, free, size)[2] = size
<1>1. PICK x : x = free + 2 * (size % 128)
  OBVIOUS
<1>2. PICK y : y = (size \div 128) % 256
  OBVIOUS
<1>3. x \in Byte /\ y \in Byte /\ x % 2 = free /\ (x \div 2) + 128 * y = size
  <2>1. /\ size % 128 \in 0 .. 127 /\ size \div 128 \in 0 .. 255
        /\ size = (size % 128) + 128 * (size \div 128)
    BY DEF Sizes
  <2>2. PICK q \in 0 .. 127 : q = size % 128
    BY <2>1
  <2>3. PICK p \in 0 .. 255 : p = size \div 128
    BY <2>1
  <2>4. (free + 2 * q) % 2 = free /\ (free + 2 * q) \div 2 = q /\ free + 2 * q \in 0 .. 255
    BY DEF Bit
  <2>5. p % 256 = p
    OBVIOUS
  <2>6. x = free + 2 * q /\ y = p /\ size = q + 128 * p
    BY <1>1, <1>2, <2>1, <2>2, <2>3, <2>5
  <2> QED
    BY <2>4, <2>6 DEF Byte
<1>4. 1 \in 1 .. HEADER /\ 2 \in 1 .. HEADER
  BY Constants
<1>5. Header(b, free, size) = [b EXCEPT ![1] = x, ![2] = y]
  BY <1>1, <1>2 DEF Header
<1>6. /\ Header(b, free, size) \in Headers
      /\ Header(b, free, size)[1] = x /\ Header(b, free, size)[2] = y
  BY <1>3, <1>4, <1>5 DEF Headers
<1> QED
  BY <1>3, <1>6

-----------------------------------------------------------------------------
(* Reading and writing.                                                    *)

\* The header at an address, where it is read back.
SizeAt(a) == (mem[a] \div 2) + 128 * mem[a + 1]

FreeAt(a) == mem[a] % 2 = 1

\* The file is as long as the store.
LEMMA FileEndIsEnd ==
  ASSUME mem \in Memory
  PROVE  FileEnd = END
<1>1. DOMAIN mem = START .. END - 1
  BY DEF Memory
<1>2. START \in Int /\ END - 1 \in Int /\ START <= END - 1 /\ START \in Nat /\ END \in Nat
  BY Constants
<1>3. Cardinality(START .. END - 1) = (END - 1) - START + 1
  BY <1>2, FS_Interval
<1> QED
  BY <1>1, <1>2, <1>3 DEF FileEnd

\* A header inside the store can be read, and has a size of 15 bits and a free bit.
LEMMA ReadBack ==
  ASSUME mem \in Memory, NEW a \in Nat, START <= a, a + HEADER <= END
  PROVE  /\ Fetch(a, HEADER) \in Headers /\ CanFetch(a, HEADER)
         /\ SizeOf(Fetch(a, HEADER)) = SizeAt(a) /\ SizeAt(a) \in Nat
         /\ IsFree(Fetch(a, HEADER)) <=> FreeAt(a)
         /\ a \in START .. END - 1 /\ a + 1 \in START .. END - 1
         /\ \A i \in 1 .. HEADER : Fetch(a, HEADER)[i] = mem[a + i - 1]
<1>1. /\ \A i \in 1 .. HEADER : a + i - 1 \in START .. END - 1
      /\ 1 \in 1 .. HEADER /\ 2 \in 1 .. HEADER /\ a + 1 - 1 = a /\ a + 2 - 1 = a + 1
      /\ a \in START .. END - 1 /\ a + 1 \in START .. END - 1
  BY Constants
<1>2. Fetch(a, HEADER) \in Headers
  BY <1>1 DEF Fetch, Headers, Memory
<1>3. Fetch(a, HEADER)[1] = mem[a] /\ Fetch(a, HEADER)[2] = mem[a + 1]
  BY <1>1 DEF Fetch
<1>4. mem[a] \in Byte /\ mem[a + 1] \in Byte
  BY <1>1 DEF Memory
<1>5. SizeAt(a) \in Nat
  <2>1. \A x, y \in 0 .. 255 : (x \div 2) + 128 * y \in Nat
    OBVIOUS
  <2> QED
    BY <1>4, <2>1 DEF SizeAt, Byte
<1>6. CanFetch(a, HEADER)
  BY FileEndIsEnd DEF CanFetch
<1>7. \A i \in 1 .. HEADER : Fetch(a, HEADER)[i] = mem[a + i - 1]
  BY DEF Fetch
<1>8. SizeOf(Fetch(a, HEADER)) = SizeAt(a)
  BY <1>3 DEF SizeOf, SizeAt
<1>9. IsFree(Fetch(a, HEADER)) <=> FreeAt(a)
  BY <1>3 DEF IsFree, FreeAt
<1> QED
  BY <1>1, <1>2, <1>5, <1>6, <1>7, <1>8, <1>9

\* A write inside the store changes the bytes that it names.
LEMMA WriteBytes ==
  ASSUME mem \in Memory, NEW a \in Nat, START <= a, NEW n \in Nat, a + n <= END,
         NEW bytes \in [1 .. n -> Byte], nvmem_set(a, bytes)
  PROVE  /\ mem' \in Memory
         /\ \A x \in START .. END - 1 :
              /\ x < a \/ x >= a + n => mem'[x] = mem[x]
              /\ x >= a /\ x < a + n => mem'[x] = bytes[x - a + 1]
<1>1. START \in Nat /\ END \in Nat
  BY Constants
<1>2. Len(bytes) = n
  OBVIOUS
<1>3. Max({END, a + n}) = END
  BY <1>1, MaxOfTwo
<1>4. mem' = [x \in START .. END - 1 |->
                IF x \in a .. a + n - 1 THEN bytes[x - a + 1]
                ELSE IF x < END THEN mem[x] ELSE 0]
  BY <1>2, <1>3, FileEndIsEnd DEF nvmem_set
<1>5. ASSUME NEW x \in START .. END - 1
      PROVE  /\ x < a \/ x >= a + n => mem'[x] = mem[x]
             /\ x >= a /\ x < a + n => mem'[x] = bytes[x - a + 1] /\ x - a + 1 \in 1 .. n
  <2>1. mem'[x] = IF x \in a .. a + n - 1 THEN bytes[x - a + 1]
                  ELSE IF x < END THEN mem[x] ELSE 0
    BY <1>4
  <2>2. x \in Int /\ x < END
    BY <1>1
  <2>3. CASE x < a \/ x >= a + n
    BY <2>1, <2>2, <2>3
  <2>4. CASE x >= a /\ x < a + n
    BY <2>1, <2>2, <2>4
  <2> QED
    BY <2>2, <2>3, <2>4
<1>6. ASSUME NEW x \in START .. END - 1 PROVE mem'[x] \in Byte
  <2>1. x \in Int /\ mem[x] \in Byte
    BY <1>1 DEF Memory
  <2>2. CASE x < a \/ x >= a + n
    BY <1>5, <2>1, <2>2
  <2>3. CASE x >= a /\ x < a + n
    BY <1>5, <2>1, <2>3
  <2> QED
    BY <2>1, <2>2, <2>3
<1>7. mem' \in Memory
  BY <1>4, <1>6 DEF Memory
<1> QED
  BY <1>5, <1>7

\* A header that is written is read back.
LEMMA WriteHeader ==
  ASSUME mem \in Memory, NEW a \in Nat, START <= a, a + HEADER <= END,
         NEW b \in Headers, NEW free \in Bit, NEW size \in Sizes,
         nvmem_set(a, Header(b, free, size))
  PROVE  /\ mem' \in Memory
         /\ SizeAt(a)' = size /\ (FreeAt(a)' <=> free = 1)
         /\ \A x \in START .. END - 1 : x < a \/ x >= a + HEADER => mem'[x] = mem[x]
<1>1. PICK h \in Headers : h = Header(b, free, size)
  BY HeaderSays
<1>2. h[1] % 2 = free /\ (h[1] \div 2) + 128 * h[2] = size
  <2>1. /\ Header(b, free, size)[1] % 2 = free
        /\ (Header(b, free, size)[1] \div 2) + 128 * Header(b, free, size)[2] = size
    BY HeaderSays
  <2> QED
    BY <1>1, <2>1
<1>3. HEADER \in Nat /\ h \in [1 .. HEADER -> Byte]
  BY Constants DEF Headers
<1>4. /\ mem' \in Memory
      /\ \A x \in START .. END - 1 :
           /\ x < a \/ x >= a + HEADER => mem'[x] = mem[x]
           /\ x >= a /\ x < a + HEADER => mem'[x] = h[x - a + 1]
  BY <1>1, <1>3, WriteBytes
<1>5. /\ a \in START .. END - 1 /\ a + 1 \in START .. END - 1
      /\ a < a + HEADER /\ a + 1 < a + HEADER /\ a - a + 1 = 1 /\ (a + 1) - a + 1 = 2
      /\ a >= a /\ a + 1 >= a
  BY Constants
<1>6. mem'[a] = h[1] /\ mem'[a + 1] = h[2]
  BY <1>4, <1>5
<1>7. SizeAt(a)' = size /\ (FreeAt(a)' <=> free = 1)
  BY <1>2, <1>6 DEF SizeAt, FreeAt
<1> QED
  BY <1>4, <1>7

\* A header stays what it is when its two bytes stay.
LEMMA SameHeader ==
  ASSUME NEW a, mem'[a] = mem[a], mem'[a + 1] = mem[a + 1]
  PROVE  SizeAt(a)' = SizeAt(a) /\ (FreeAt(a)' <=> FreeAt(a))
  BY DEF SizeAt, FreeAt

-----------------------------------------------------------------------------
(* The chain.                                                              *)

\* C are the addresses at which a block begins, and the end.
Chained(C) ==
  /\ C \subseteq First .. END /\ First \in C /\ END \in C
  /\ \A a \in C \ {END} : a + HEADER <= END

\* A block of C that ends at e.
Reaches(C, a, e) == e \in C /\ \A x \in C : x <= a \/ x >= e

\* The block's own header leads to its end.
Leads(C, a) == SizeAt(a) >= 2 /\ Reaches(C, a, a + SizeAt(a))

Linked(C, A) == \A a \in A : Leads(C, a)

HasMagic == \A x \in START .. First - 1 : mem[x] = 115

\* What the client saved lies in a block in use, but for its last bytes.
Keeps(C, s) ==
  /\ s.addr \in C \ {END} /\ ~FreeAt(s.addr) /\ SizeAt(s.addr) >= Len(s.data)
  /\ \A i \in 1 .. Len(s.data) - HEADER : mem[s.addr + HEADER + i - 1] = s.data[i]

SavedKept(C) ==
  /\ saved \subseteq [addr : Nat, data : Datas]
  /\ \A s, t \in saved : s.addr = t.addr => s = t
  /\ \A s \in saved : Keeps(C, s)

Store(C) ==
  mem \in Memory /\ block \in Headers /\ HasMagic /\ Chained(C) /\ SavedKept(C)

\* The block that was found for the data.
BestFits(C) ==
  /\ best.addr \in C \ {END} /\ FreeAt(best.addr)
  /\ SizeAt(best.addr) = best.size /\ best.size >= AllocSize(Len(req))

\* No block before hi that fits is smaller than the best.
NoneBetter(C, hi) ==
  \A a \in C \ {END} :
    a < hi /\ FreeAt(a) /\ SizeAt(a) >= AllocSize(Len(req)) => best.size <= SizeAt(a)

Idle(C) ==
  /\ pc \in {"idle", "boot"} /\ Linked(C, C \ {END})
  /\ pc = "boot" => thrown = "none"
  /\ thrown = "NVMEM_OUT_OF_MEMORY" =>
       req \in Datas /\ best.size = BestSize0 /\ NoneBetter(C, END)

Walking(C) ==
  /\ pc = "walk" /\ thrown = "none" /\ Linked(C, C \ {END})
  /\ req \in Datas /\ cur \in C
  /\ best.addr # 0 => BestFits(C)
  /\ best.addr = 0 => best.size = BestSize0
  /\ NoneBetter(C, cur)

Committing(C) ==
  /\ pc = "commit" /\ thrown = "none" /\ Linked(C, C \ {END})
  /\ req \in Datas /\ BestFits(C) /\ NoneBetter(C, END)
  /\ \A i \in 1 .. Len(req) : mem[best.addr + HEADER + i - 1] = req[i]

\* The block that is split ends in its middle, where nothing begins yet.
Splitting(C) ==
  /\ pc = "split" /\ thrown = "none" /\ Linked(C, C \ {END, best.addr})
  /\ req \in Datas /\ ~IsFree(block)
  /\ best.addr \in C \ {END} /\ best.size \in Nat /\ Reaches(C, best.addr, NextBlock)
  /\ Splits /\ cur = best.addr + Len(req)
  /\ ~FreeAt(best.addr) /\ SizeAt(best.addr) = Len(req)
  /\ \A i \in 1 .. Len(req) : mem[best.addr + HEADER + i - 1] = req[i]
  /\ \A s \in saved : s.addr # best.addr

Formatted(C) ==
  Store(C) /\ (Idle(C) \/ Walking(C) \/ Committing(C) \/ Splitting(C))

Unformatted ==
  /\ mem \in Memory /\ block \in Headers /\ saved = {} /\ thrown = "none"
  /\ \/ pc = "boot" /\ ~HasMagic
     \/ pc = "format" /\ HasMagic

StoreInv == Sound => Unformatted \/ \E C : Formatted(C)

-----------------------------------------------------------------------------
(* What a write to one block leaves of the others.                         *)

\* Only the bytes from lo up to hi are written.
Apart(lo, hi) == \A x \in START .. END - 1 : x < lo \/ x >= hi => mem'[x] = mem[x]

\* What a client saves is bytes.
LEMMA DataType ==
  ASSUME NEW d \in Datas
  PROVE  Len(d) \in Nat /\ d \in [1 .. Len(d) -> Byte]
<1>1. PICK n \in Lens : d \in [1 .. n -> Byte]
  BY DEF Datas
<1>2. n \in Nat
  BY NvmemAssumption
<1>3. Len(d) = n
  BY <1>1, <1>2
<1> QED
  BY <1>1, <1>2, <1>3

\* Where the blocks of a chain lie.
LEMMA BlockType ==
  ASSUME NEW C, Chained(C), NEW a \in C
  PROVE  /\ a \in Nat /\ START < a /\ First <= a /\ a <= END
         /\ a # END => a < END /\ a + HEADER <= END
<1>1. a \in First .. END /\ (a # END => a + HEADER <= END)
  BY DEF Chained
<1> QED
  BY <1>1, Constants

\* Two blocks have no byte in common.
LEMMA BlocksApart ==
  ASSUME NEW C, Chained(C), NEW a \in C, NEW b \in C, a # b, NEW e, NEW f,
         Reaches(C, a, e), Reaches(C, b, f)
  PROVE  e <= b \/ a >= f
<1>1. a \in Nat /\ b \in Nat /\ e \in Nat /\ f \in Nat
  BY BlockType DEF Reaches
<1>2. b <= a \/ b >= e
  BY DEF Reaches
<1>3. a <= b \/ a >= f
  BY DEF Reaches
<1> QED
  BY <1>1, <1>2, <1>3

\* A write behind the size and the free bit of a block, or before it, leaves them.
LEMMA KeepHeader ==
  ASSUME mem \in Memory, NEW C, Chained(C), NEW a \in C \ {END}, NEW lo \in Nat, NEW hi \in Nat,
         Apart(lo, hi), a + 2 <= lo \/ a >= hi
  PROVE  SizeAt(a)' = SizeAt(a) /\ (FreeAt(a)' <=> FreeAt(a))
<1>1. a \in Nat /\ START < a /\ a + HEADER <= END
  BY BlockType
<1>2. /\ a \in START .. END - 1 /\ a + 1 \in START .. END - 1
      /\ a < lo \/ a >= hi
      /\ a + 1 < lo \/ a + 1 >= hi
  BY <1>1, Constants
<1>3. mem'[a] = mem[a] /\ mem'[a + 1] = mem[a + 1]
  BY <1>2 DEF Apart
<1> QED
  BY <1>3, SameHeader

\* A write outside a block leaves what is saved in it.
LEMMA KeepSaved ==
  ASSUME mem \in Memory, NEW C, Chained(C), NEW s \in [addr : Nat, data : Datas], Keeps(C, s),
         NEW e \in Nat, e = s.addr + SizeAt(s.addr), e <= END, SizeAt(s.addr) >= 2, NEW lo \in Nat, NEW hi \in Nat,
         Apart(lo, hi), e <= lo \/ s.addr >= hi, NEW D, s.addr \in D
  PROVE  Keeps(D, s)'
<1>1. PICK a \in C \ {END} : a = s.addr
  BY DEF Keeps
<1>2. PICK n \in Nat : n = Len(s.data)
  BY DataType
<1>3. PICK z \in Nat : z = SizeAt(a) /\ z >= n /\ z >= 2
  <2>1. a \in Nat /\ START <= a /\ a + HEADER <= END
    BY BlockType, Constants
  <2>2. SizeAt(a) \in Nat
    BY <2>1, ReadBack
  <2> QED
    BY <1>1, <1>2, <2>2 DEF Keeps
<1>4. a \in Nat /\ START < a /\ e = a + z /\ (e <= lo \/ a >= hi)
  BY <1>1, <1>3, BlockType
<1>5. SizeAt(a)' = SizeAt(a) /\ (FreeAt(a)' <=> FreeAt(a))
  <2>1. a + 2 <= lo \/ a >= hi
    BY <1>2, <1>3, <1>4
  <2> QED
    BY <2>1, KeepHeader
<1>6. ASSUME NEW i \in 1 .. n - HEADER
      PROVE  mem'[a + HEADER + i - 1] = s.data[i]
  <2>1. PICK x \in Nat : x = a + HEADER + i - 1
    <3>1. a + HEADER + i - 1 \in Nat
      BY <1>4, Constants
    <3> QED
      BY <3>1
  <2>2. x >= a /\ x < a + z /\ x \in START .. END - 1
    <3>1. HEADER \in Nat /\ HEADER >= 2 /\ START \in Nat /\ END \in Nat
      BY Constants
    <3>2. i \in Nat /\ i >= 1 /\ i <= n - HEADER
      BY <3>1
    <3>3. x >= a /\ x < a + z
      BY <1>3, <1>4, <2>1, <3>1, <3>2
    <3> QED
      BY <1>3, <1>4, <3>1, <3>3
  <2>3. x < lo \/ x >= hi
    BY <1>4, <2>2
  <2>4. mem'[x] = mem[x]
    BY <2>2, <2>3 DEF Apart
  <2>5. mem[x] = s.data[i]
    BY <1>1, <1>2, <2>1 DEF Keeps
  <2> QED
    BY <2>1, <2>4, <2>5
<1>7. s.addr \in D \ {END} /\ ~FreeAt(a)' /\ SizeAt(a)' >= Len(s.data)
  BY <1>1, <1>5 DEF Keeps
<1>8. /\ ~FreeAt(s.addr)' /\ SizeAt(s.addr)' >= Len(s.data)
  BY <1>1, <1>7
<1> QED
  BY <1>1, <1>2, <1>6, <1>7, <1>8 DEF Keeps

\* Where the memory is the same, so is every block, and what is saved in it.
LEMMA SameStore ==
  ASSUME NEW C, Store(C), UNCHANGED <<mem, saved>>, block' \in Headers
  PROVE  /\ Store(C)'
         /\ \A a : SizeAt(a)' = SizeAt(a) /\ (FreeAt(a)' <=> FreeAt(a))
         /\ \A A : Linked(C, A) => Linked(C, A)'
<1>1. mem' \in Memory /\ HasMagic' /\ Chained(C)'
  BY DEF Store, Memory, Byte, HasMagic, First, Chained
<1>2. \A a : SizeAt(a)' = SizeAt(a) /\ (FreeAt(a)' <=> FreeAt(a))
  BY DEF SizeAt, FreeAt
<1>3. \A s : Keeps(C, s) => Keeps(C, s)'
  BY <1>2 DEF Keeps
<1>4. SavedKept(C)'
  BY <1>3 DEF Store, SavedKept
<1>5. \A A : Linked(C, A) => Linked(C, A)'
  BY <1>2 DEF Linked, Leads, Reaches
<1> QED
  BY <1>1, <1>2, <1>4, <1>5 DEF Store, Memory

\* The size of a block is at most that of the whole.
LEMMA SizeFits ==
  ASSUME StoreFits, mem \in Memory, NEW C, Chained(C), NEW a \in C \ {END}, Leads(C, a)
  PROVE  /\ SizeAt(a) \in Nat /\ SizeAt(a) >= 2 /\ SizeAt(a) <= FirstSize
         /\ SizeAt(a) \in Sizes /\ a + SizeAt(a) <= END /\ a + SizeAt(a) \in C
<1>1. a \in Nat /\ First <= a /\ START <= a /\ a + HEADER <= END
  BY BlockType, Constants
<1>2. PICK z \in Nat : z = SizeAt(a)
  BY <1>1, ReadBack
<1>3. z >= 2 /\ a + z \in C
  BY <1>2 DEF Leads, Reaches
<1>4. a + z <= END
  BY <1>3 DEF Chained
<1>5. FirstSize \in Int /\ First + FirstSize = END /\ FirstSize < 32768
  BY Constants DEF StoreFits
<1>6. z <= FirstSize
  BY <1>1, <1>4, <1>5, Constants
<1>7. z \in Sizes
  <2>1. PICK f \in Int : f = FirstSize
    BY <1>5
  <2>2. z <= f /\ f < 32768
    BY <1>5, <1>6, <2>1
  <2>3. z <= 32767
    BY <2>2
  <2> QED
    BY <2>3 DEF Sizes
<1> QED
  BY <1>2, <1>3, <1>4, <1>6, <1>7

-----------------------------------------------------------------------------
(* nvmem_init.                                                             *)

\* Without its magic word a store is not formatted.
LEMMA InitStore == Init => StoreInv
<1> SUFFICES ASSUME Init PROVE Unformatted
  BY DEF StoreInv
<1>1. mem \in Memory /\ block \in Headers
  <2>1. 0 \in Byte
    BY DEF Byte
  <2> QED
    BY <2>1 DEF Init, Memory, Blank, Headers
<1>2. START \in START .. First - 1 /\ START \in START .. END - 1
  BY Constants, NvmemAssumption
<1>3. mem[START] = 0
  BY <1>2 DEF Init
<1>4. ~HasMagic
  BY <1>2, <1>3 DEF HasMagic
<1> QED
  BY <1>1, <1>4 DEF Init, Unformatted

\* The magic word that is read is the one that is there.
LEMMA MagicThere == (Fetch(START, MAGIC) = Magic) <=> HasMagic
<1>1. START \in Nat /\ MAGIC \in Nat /\ First = START + MAGIC
  BY Constants
<1>2. ASSUME HasMagic PROVE Fetch(START, MAGIC) = Magic
  <2>1. \A i \in 1 .. MAGIC : START + i - 1 \in START .. First - 1
    BY <1>1
  <2>2. \A i \in 1 .. MAGIC : mem[START + i - 1] = 115
    BY <1>2, <2>1 DEF HasMagic
  <2> QED
    BY <2>2 DEF Fetch, Magic
<1>3. ASSUME Fetch(START, MAGIC) = Magic, NEW x \in START .. First - 1 PROVE mem[x] = 115
  <2>1. PICK i \in 1 .. MAGIC : i = x - START + 1
    BY <1>1
  <2>2. START + i - 1 = x
    BY <1>1, <2>1
  <2>3. Fetch(START, MAGIC)[i] = mem[START + i - 1]
    BY DEF Fetch
  <2>4. Magic[i] = 115
    BY DEF Magic
  <2> QED
    BY <1>3, <2>2, <2>3, <2>4
<1> QED
  BY <1>2, <1>3 DEF HasMagic

\* nvmem_init writes the magic word where it is missing, or finds the store as it was.
LEMMA BootStore ==
  ASSUME StoreInv, Sound, Boot
  PROVE  StoreInv'
<1>1. CASE Unformatted
  <2>1. Fetch(START, MAGIC) # Magic /\ pc = "boot"
    BY <1>1, MagicThere DEF Unformatted, Boot
  <2>2. nvmem_set(START, Magic) /\ pc' = "format"
    BY <2>1 DEF Boot
  <2>3. /\ START \in Nat /\ START <= START /\ MAGIC \in Nat /\ START + MAGIC <= END
        /\ First = START + MAGIC /\ First <= END
    BY Constants
  <2>4. Magic \in [1 .. MAGIC -> Byte]
    BY DEF Magic, Byte
  <2>5. /\ mem' \in Memory
        /\ \A x \in START .. END - 1 : x >= START /\ x < START + MAGIC => mem'[x] = Magic[x - START + 1]
    BY <1>1, <2>2, <2>3, <2>4, WriteBytes DEF Unformatted
  <2>6. ASSUME NEW x \in START .. First - 1 PROVE mem'[x] = 115
    <3>1. x \in START .. END - 1 /\ x >= START /\ x < START + MAGIC /\ x - START + 1 \in 1 .. MAGIC
      BY <2>3, Constants
    <3>2. Magic[x - START + 1] = 115
      BY <3>1 DEF Magic
    <3> QED
      BY <2>5, <3>1, <3>2
  <2>7. HasMagic'
    BY <2>6 DEF HasMagic, First
  <2> QED
    BY <1>1, <2>2, <2>5, <2>7 DEF StoreInv, Unformatted, Boot, call, Memory, Headers, Byte
<1>2. ASSUME NEW C, Formatted(C) PROVE StoreInv'
  <2>1. Store(C) /\ Idle(C) /\ thrown = "none"
    BY <1>2 DEF Formatted, Boot, Idle, Walking, Committing, Splitting
  <2>2. UNCHANGED mem /\ pc' = "idle"
    BY <2>1, MagicThere DEF Boot, Store
  <2>3. Store(C)' /\ Linked(C, C \ {END})'
    BY <2>1, <2>2, SameStore DEF Boot, call, Idle, Store
  <2>4. Idle(C)'
    BY <2>1, <2>2, <2>3 DEF Boot, Idle
  <2> QED
    BY <2>3, <2>4 DEF StoreInv, Formatted
<1> QED
  BY <1>1, <1>2 DEF StoreInv

\* The first block of a new store is all of it, and free.
LEMMA FormatStore ==
  ASSUME StoreFits, StoreInv, Sound, Format
  PROVE  StoreInv'
<1>1. Unformatted /\ HasMagic
  BY DEF StoreInv, Format, Unformatted, Formatted, Idle, Walking, Committing, Splitting
<1>2. First \in Nat /\ START <= First /\ First + HEADER <= END /\ First <= END
  BY Constants
<1>3. /\ FirstSize \in Sizes /\ First + FirstSize = END /\ FirstSize >= 2
      /\ First \in First .. END /\ END \in First .. END
  BY Constants DEF StoreFits, Sizes
<1>4. Blank \in Headers /\ 1 \in Bit
  BY DEF Blank, Headers, Byte, Bit
<1>5. /\ mem' \in Memory /\ SizeAt(First)' = FirstSize
      /\ \A x \in START .. END - 1 : x < First \/ x >= First + HEADER => mem'[x] = mem[x]
  BY <1>1, <1>2, <1>3, <1>4, WriteHeader DEF Unformatted, Format
<1>6. ASSUME NEW x \in START .. First - 1 PROVE mem'[x] = 115
  <2>1. x \in START .. END - 1 /\ x < First
    BY <1>2, Constants
  <2> QED
    BY <1>1, <1>5, <2>1 DEF HasMagic
<1>7. HasMagic'
  BY <1>6 DEF HasMagic, First
<1>8. PICK C : C = {First, END}
  OBVIOUS
<1>9. Chained(C)
  BY <1>2, <1>3, <1>8 DEF Chained
<1>10. Leads(C, First)'
  <2>1. \A x \in C : x <= First \/ x >= END
    BY <1>2, <1>8, Constants
  <2> QED
    BY <1>3, <1>5, <1>8, <2>1 DEF Leads, Reaches
<1>11. Linked(C, C \ {END})'
  BY <1>8, <1>10 DEF Linked
<1>12. SavedKept(C)'
  BY <1>1 DEF Format, Unformatted, SavedKept
<1>13. Store(C)'
  <2>1. block' \in Headers
    BY <1>1 DEF Unformatted, Format, call
  <2> QED
    BY <1>5, <1>7, <1>9, <1>12, <2>1 DEF Store, Memory, Headers, Chained, First
<1>14. Idle(C)'
  BY <1>1, <1>11 DEF Idle, Format, Unformatted
<1> QED
  BY <1>13, <1>14 DEF StoreInv, Formatted

-----------------------------------------------------------------------------
(* nvmem_saveblock.                                                        *)

\* The search begins at the first block.
LEMMA SaveStore ==
  ASSUME StoreInv, Sound, NEW n \in Lens, NEW f \in Fills, Save([i \in 1 .. n |-> f])
  PROVE  StoreInv'
<1>1. PICK C : Store(C) /\ Idle(C)
  BY DEF StoreInv, Unformatted, Formatted, Save, Walking, Committing, Splitting
<1>2. Store(C)' /\ Linked(C, C \ {END})'
  BY <1>1, SameStore DEF Save, Idle, Store
<1>3. req' \in Datas
  <2>1. f \in Byte
    BY NvmemAssumption DEF Byte
  <2> QED
    BY <2>1 DEF Save, Datas
<1>4. cur' = First /\ First \in C
  BY <1>1 DEF Save, Store, Chained
<1>5. \A a \in C : ~ (a < First)
  BY <1>1, BlockType, Constants DEF Store
<1>6. best'.addr = 0 /\ best'.size = BestSize0
  BY DEF Save, NoBest
<1>7. NoneBetter(C, cur)'
  BY <1>4, <1>5 DEF NoneBetter, First
<1>8. Walking(C)'
  BY <1>2, <1>3, <1>4, <1>6, <1>7 DEF Walking, Save, BestSize0
<1> QED
  BY <1>2, <1>8 DEF StoreInv, Formatted

\* The size that the search begins with is a number.
LEMMA BestSizeType == BestSize0 \in Int
<1>1. SIZE_T \in Nat
  BY NvmemAssumption
<1>2. PICK k \in Nat : k = SIZE_T
  BY <1>1
<1>3. IsFiniteSet(1 .. k) /\ Cardinality(1 .. k) = k
  BY FS_Interval
<1>4. Cardinality(SUBSET (1 .. k)) = 2 ^ k /\ Cardinality(SUBSET (1 .. k)) \in Nat
  BY <1>3, FS_SUBSET, FS_CardinalityType
<1>5. 2 ^ k \in Nat
  BY <1>4
<1>6. 2 ^ k - 1 \in Int
  BY <1>5
<1> QED
  BY <1>2, <1>6 DEF BestSize0

\* The search goes on to the next block, and remembers the smallest that fits.
LEMMA WalkStore ==
  ASSUME StoreFits, StoreInv, Sound, Walk
  PROVE  StoreInv'
<1>1. PICK C : Store(C) /\ Walking(C)
  BY DEF StoreInv, Unformatted, Formatted, Walk, Idle, Committing, Splitting
<1>2. PICK a \in C \ {END} : a = cur
  <2>1. cur # END
    BY <1>1, Constants DEF Walk, Walking, Store, Chained
  <2> QED
    BY <1>1, <2>1 DEF Walking
<1>3. a \in Nat /\ START <= a /\ a + HEADER <= END /\ a # 0
  BY <1>1, <1>2, BlockType, Constants DEF Store
<1>4. PICK b \in Headers : b = Fetch(a, HEADER)
  BY <1>1, <1>3, ReadBack DEF Store
<1>5. CanFetch(a, HEADER) /\ SizeOf(b) = SizeAt(a) /\ (IsFree(b) <=> FreeAt(a))
  BY <1>1, <1>3, <1>4, ReadBack DEF Store
<1>6. PICK z \in Nat : z = SizeAt(a) /\ z >= 2 /\ z <= FirstSize /\ a + z \in C
  BY <1>1, SizeFits DEF Store, Walking, Linked
<1>7. /\ block' = b /\ cur' = a + z /\ pc' = "walk"
      /\ best' = IF Fits(b, AllocSize(Len(req))) /\ best.size > z
                   THEN [addr |-> a, size |-> z] ELSE best
      /\ UNCHANGED <<mem, req, saved, thrown>>
  BY <1>1, <1>2, <1>4, <1>5, <1>6 DEF Walk, Stride, Better, Walking
<1>8. Store(C)' /\ Linked(C, C \ {END})'
  BY <1>1, <1>7, SameStore DEF Walking, Store
<1>9. \A x : SizeAt(x)' = SizeAt(x) /\ (FreeAt(x)' <=> FreeAt(x))
  BY <1>7 DEF SizeAt, FreeAt
<1>10. Fits(b, AllocSize(Len(req))) <=> FreeAt(a) /\ z >= AllocSize(Len(req))
  BY <1>5, <1>6 DEF Fits
<1>11. best'.addr # 0 => BestFits(C)'
  <2>1. CASE Fits(b, AllocSize(Len(req))) /\ best.size > z
    <3>1. best'.addr = a /\ best'.size = z
      BY <1>7, <2>1
    <3>2. /\ a \in C \ {END} /\ FreeAt(a)' /\ SizeAt(a)' = z
          /\ z >= AllocSize(Len(req'))
      BY <1>6, <1>7, <1>9, <1>10, <2>1
    <3> QED
      BY <3>1, <3>2 DEF BestFits, AllocSize, SizeAt, FreeAt
  <2>2. CASE ~ (Fits(b, AllocSize(Len(req))) /\ best.size > z)
    <3>1. best' = best /\ req' = req /\ mem' = mem
      BY <1>7, <2>2
    <3>2. best.addr # 0 => BestFits(C)
      BY <1>1 DEF Walking
    <3> QED
      BY <3>1, <3>2 DEF BestFits, AllocSize, SizeAt, FreeAt
  <2> QED
    BY <2>1, <2>2
<1>12. best'.addr = 0 => best'.size = BestSize0
  BY <1>1, <1>3, <1>7 DEF Walking
<1>13. NoneBetter(C, cur)'
  <2>1. PICK m \in Int : m = best.size
    <3>1. best.addr = 0 => best.size \in Int
      BY <1>1, BestSizeType DEF Walking
    <3>2. best.addr # 0 => best.size \in Int
      <4>1. ASSUME BestFits(C) PROVE best.size \in Int
        <5>1. PICK x \in C \ {END} : x = best.addr
          BY <4>1 DEF BestFits
        <5>2. x \in Nat /\ START <= x /\ x + HEADER <= END
          BY <1>1, BlockType, Constants DEF Store
        <5> QED
          BY <1>1, <4>1, <5>1, <5>2, ReadBack DEF BestFits, Store
      <4> QED
        BY <1>1, <4>1 DEF Walking
    <3> QED
      BY <3>1, <3>2
  <2>2. best'.size = IF Fits(b, AllocSize(Len(req))) /\ m > z THEN z ELSE m
    BY <1>7, <2>1
  <2>3. ASSUME NEW x \in C \ {END}, x < a + z, FreeAt(x), SizeAt(x) >= AllocSize(Len(req))
        PROVE  best'.size <= SizeAt(x)
    <3>1. x \in Nat /\ START <= x /\ x + HEADER <= END
      BY <1>1, BlockType, Constants DEF Store
    <3>2. PICK y \in Nat : y = SizeAt(x)
      BY <1>1, <3>1, ReadBack DEF Store
    <3>3. x <= a \/ x >= a + z
      BY <1>1, <1>6 DEF Walking, Linked, Leads, Reaches
    <3>4. CASE x < a
      <4>1. m <= y
        BY <1>1, <1>2, <2>1, <2>3, <3>2, <3>4 DEF Walking, NoneBetter
      <4>2. (IF Fits(b, AllocSize(Len(req))) /\ m > z THEN z ELSE m) <= y
        BY <4>1
      <4> QED
        BY <2>2, <3>2, <4>2
    <3>5. CASE x = a
      <4>1. Fits(b, AllocSize(Len(req))) /\ y = z
        BY <1>6, <1>10, <2>3, <3>2, <3>5
      <4>2. (IF Fits(b, AllocSize(Len(req))) /\ m > z THEN z ELSE m) <= y
        BY <4>1
      <4> QED
        BY <2>2, <3>2, <4>2
    <3> QED
      BY <1>3, <2>3, <3>1, <3>3, <3>4, <3>5
  <2> QED
    BY <1>7, <2>3 DEF NoneBetter, AllocSize, SizeAt, FreeAt
<1>14. thrown' = "none" /\ req' \in Datas /\ cur' \in C
  BY <1>1, <1>6, <1>7 DEF Walking
<1>15. Walking(C)'
  BY <1>7, <1>8, <1>11, <1>12, <1>13, <1>14 DEF Walking, BestSize0
<1> QED
  BY <1>8, <1>15 DEF StoreInv, Formatted

\* A write inside one block leaves the magic word, the other blocks and what is
\* saved in them.
LEMMA OthersKept ==
  ASSUME StoreFits, NEW C, Store(C), NEW a \in C \ {END}, NEW e \in Nat, a < e,
         Reaches(C, a, e), Linked(C, C \ {END, a}),
         NEW lo \in Nat, NEW hi \in Nat, a <= lo, hi <= e, Apart(lo, hi)
  PROVE  /\ HasMagic'
         /\ \A b \in C \ {END, a} : SizeAt(b)' = SizeAt(b) /\ (FreeAt(b)' <=> FreeAt(b))
         /\ \A s \in saved : s.addr # a => \A D : s.addr \in D => Keeps(D, s)'
<1>1. /\ mem \in Memory /\ HasMagic /\ Chained(C) /\ SavedKept(C)
      /\ a \in Nat /\ First <= a
  BY BlockType DEF Store
<1>2. ASSUME NEW x \in START .. First - 1 PROVE mem'[x] = 115
  <2>1. x \in START .. END - 1 /\ x < lo
    BY <1>1, Constants
  <2> QED
    BY <1>1, <2>1 DEF Apart, HasMagic
<1>3. HasMagic'
  BY <1>2 DEF HasMagic, First
<1>4. ASSUME NEW b \in C \ {END, a}
      PROVE  SizeAt(b)' = SizeAt(b) /\ (FreeAt(b)' <=> FreeAt(b))
  <2>1. PICK z \in Nat : z = SizeAt(b) /\ z >= 2 /\ Reaches(C, b, b + z)
    <3>1. Leads(C, b)
      BY DEF Linked
    <3> QED
      BY <1>1, <3>1, SizeFits DEF Leads
  <2>2. b \in Nat
    BY <1>1, BlockType
  <2>3. (a <= b \/ a >= b + z) /\ (b <= a \/ b >= e)
    BY <2>1 DEF Reaches
  <2>4. b + 2 <= lo \/ b >= hi
    BY <1>1, <2>1, <2>2, <2>3
  <2> QED
    BY <1>1, <2>4, KeepHeader
<1>5. ASSUME NEW s \in saved, s.addr # a, NEW D, s.addr \in D PROVE Keeps(D, s)'
  <2>1. s \in [addr : Nat, data : Datas] /\ Keeps(C, s)
    BY <1>1 DEF SavedKept
  <2>2. PICK b \in C \ {END, a} : b = s.addr
    BY <1>5, <2>1 DEF Keeps
  <2>3. Leads(C, b)
    BY DEF Linked
  <2>4. PICK f \in Nat : f = b + SizeAt(b) /\ f <= END /\ SizeAt(b) >= 2 /\ Reaches(C, b, f)
    <3>1. b \in Nat
      BY <1>1, BlockType
    <3>2. SizeAt(b) \in Nat /\ b + SizeAt(b) <= END
      BY <1>1, <2>3, SizeFits
    <3>3. b + SizeAt(b) \in Nat
      BY <3>1, <3>2
    <3> QED
      BY <2>3, <3>2, <3>3 DEF Leads
  <2>5. f <= a \/ b >= e
    BY <1>1, <2>4, BlocksApart
  <2>6. f <= lo \/ s.addr >= hi
    BY <1>1, <2>2, <2>4, <2>5, BlockType
  <2> QED
    BY <1>1, <1>5, <2>1, <2>2, <2>4, <2>6, KeepSaved
<1> QED
  BY <1>3, <1>4, <1>5

\* Blocks whose headers stay lead where they led.
LEMMA StillLinked ==
  ASSUME NEW C, NEW A, Linked(C, A), \A b \in A : SizeAt(b)' = SizeAt(b)
  PROVE  Linked(C, A)'
  BY DEF Linked, Leads, Reaches

\* The data is written inside the block that was found, or none was.
LEMMA WriteDataStore ==
  ASSUME StoreFits, StoreInv, Sound, WriteData
  PROVE  StoreInv'
<1>1. PICK C : Store(C) /\ Walking(C)
  BY DEF StoreInv, Unformatted, Formatted, WriteData, Idle, Committing, Splitting
<1>2. cur = END
  <2>1. cur \in First .. END /\ cur >= END
    BY <1>1 DEF WriteData, Walking, Store, Chained
  <2> QED
    BY <2>1, Constants
<1>3. CASE best.addr = 0 \/ req = <<>>
  <2>1. /\ pc' = "idle" /\ block' = Blank /\ best' = NoBest
        /\ thrown' = IF best.addr = 0 THEN "NVMEM_OUT_OF_MEMORY" ELSE "NVMEM_WRITE_ERROR"
        /\ UNCHANGED <<mem, saved, req>>
    BY <1>3 DEF WriteData, Leave
  <2>2. Blank \in Headers
    BY DEF Blank, Headers, Byte
  <2>3. Store(C)' /\ Linked(C, C \ {END})'
    BY <1>1, <2>1, <2>2, SameStore DEF Walking
  <2>4. best'.size = BestSize0
    BY <2>1 DEF NoBest
  <2>5. best.addr = 0 => NoneBetter(C, END)'
    <3>1. best.addr = 0 => best.size = BestSize0 /\ NoneBetter(C, END)
      BY <1>1, <1>2 DEF Walking
    <3> QED
      BY <2>1, <2>4, <3>1 DEF NoneBetter, SizeAt, FreeAt, AllocSize
  <2>6. thrown' = "NVMEM_OUT_OF_MEMORY" =>
          req' \in Datas /\ best'.size = BestSize0 /\ NoneBetter(C, END)'
    <3>1. thrown' = "NVMEM_OUT_OF_MEMORY" => best.addr = 0
      BY <2>1
    <3>2. req' \in Datas
      BY <1>1, <2>1 DEF Walking
    <3> QED
      BY <2>4, <2>5, <3>1, <3>2
  <2>7. Idle(C)'
    BY <2>1, <2>3, <2>6 DEF Idle, BestSize0, Datas, Byte
  <2> QED
    BY <2>3, <2>7 DEF StoreInv, Formatted
<1>4. CASE best.addr # 0 /\ req # <<>>
  <2>1. BestFits(C)
    BY <1>1, <1>4 DEF Walking
  <2>2. PICK a \in C \ {END} : a = best.addr
    BY <2>1 DEF BestFits
  <2>3. /\ nvmem_set(a + HEADER, req) /\ pc' = "commit"
        /\ UNCHANGED <<block, cur, best, thrown, req, saved>>
    BY <1>4, <2>2 DEF WriteData
  <2>4. PICK n \in Nat : n = Len(req) /\ req \in [1 .. n -> Byte]
    BY <1>1, DataType DEF Walking
  <2>5. /\ Leads(C, a) /\ Linked(C, C \ {END, a})
    BY <1>1 DEF Walking, Linked
  <2>6. PICK z \in Nat : z = SizeAt(a) /\ a + z <= END /\ Reaches(C, a, a + z) /\ z >= 2
    BY <1>1, <2>5, SizeFits DEF Store, Leads
  <2>7. z >= n + HEADER
    <3>1. z >= AllocSize(n) /\ AllocSize(n) \in Nat /\ AllocSize(n) >= n + HEADER
      BY <2>1, <2>2, <2>4, <2>6, AllocHolds DEF BestFits
    <3> QED
      BY <2>4, <2>6, <3>1, Constants
  <2>8. PICK h \in Nat : h = HEADER /\ h >= 2
    BY Constants
  <2>9. a \in Nat /\ START <= a /\ START \in Nat /\ END \in Nat
    BY <1>1, BlockType, Constants DEF Store
  <2>10. PICK lo \in Nat : lo = a + h
    BY <2>8, <2>9
  <2>11. PICK hi \in Nat : hi = lo + n
    BY <2>4, <2>10
  <2>12. START <= lo /\ lo + n <= END /\ a + 2 <= lo /\ hi <= a + z /\ a + z \in Nat /\ a < a + z
    BY <2>6, <2>7, <2>8, <2>9, <2>10, <2>11
  <2>13. /\ mem' \in Memory
         /\ \A x \in START .. END - 1 :
              /\ x < lo \/ x >= hi => mem'[x] = mem[x]
              /\ x >= lo /\ x < lo + n => mem'[x] = req[x - lo + 1]
    <3>1. PICK bytes \in [1 .. n -> Byte] : bytes = req
      BY <2>4
    <3>2. nvmem_set(lo, bytes) /\ mem \in Memory
      BY <1>1, <2>3, <2>8, <2>10, <3>1 DEF Store
    <3>3. /\ mem' \in Memory
          /\ \A x \in START .. END - 1 :
               /\ x < lo \/ x >= lo + n => mem'[x] = mem[x]
               /\ x >= lo /\ x < lo + n => mem'[x] = bytes[x - lo + 1]
      BY <2>12, <3>2, WriteBytes
    <3> QED
      BY <2>11, <3>1, <3>3
  <2>14. Apart(lo, hi)
    BY <2>13 DEF Apart
  <2>15. /\ HasMagic'
         /\ \A b \in C \ {END, a} : SizeAt(b)' = SizeAt(b) /\ (FreeAt(b)' <=> FreeAt(b))
         /\ \A s \in saved : s.addr # a => \A D : s.addr \in D => Keeps(D, s)'
    <3>1. a <= lo
      BY <2>9, <2>12
    <3> QED
      BY <1>1, <2>5, <2>6, <2>12, <2>14, <3>1, OthersKept
  <2>16. SizeAt(a)' = SizeAt(a) /\ (FreeAt(a)' <=> FreeAt(a))
    BY <1>1, <2>12, <2>14, KeepHeader DEF Store
  <2>17. Linked(C, C \ {END})'
    <3>1. \A b \in C \ {END} : SizeAt(b)' = SizeAt(b)
      BY <2>15, <2>16
    <3> QED
      BY <1>1, <3>1, StillLinked DEF Walking
  <2>18. BestFits(C)'
    BY <2>1, <2>2, <2>3, <2>16 DEF BestFits, AllocSize, SizeAt, FreeAt
  <2>19. ASSUME NEW i \in 1 .. n PROVE mem'[a + HEADER + i - 1] = req[i]
    <3>1. PICK x \in Nat : x = lo + i - 1
      BY <2>10
    <3>2. /\ x \in START .. END - 1 /\ x >= lo /\ x < lo + n /\ x - lo + 1 = i
          /\ a + HEADER + i - 1 = x
      BY <2>4, <2>8, <2>9, <2>10, <2>12, <3>1
    <3> QED
      BY <2>13, <3>2
  <2>20. SavedKept(C)'
    <3>1. \A s \in saved : Keeps(C, s)'
      <4>1. ASSUME NEW s \in saved PROVE Keeps(C, s)'
        <5>1. s.addr \in C /\ ~FreeAt(s.addr)
          BY <1>1 DEF Store, SavedKept, Keeps
        <5>2. s.addr # a
          BY <2>1, <2>2, <5>1 DEF BestFits
        <5> QED
          BY <2>15, <5>1, <5>2
      <4> QED
        BY <4>1
    <3> QED
      BY <1>1, <2>3, <3>1 DEF Store, SavedKept, Datas, Byte
  <2>21. Store(C)'
    BY <1>1, <2>3, <2>13, <2>15, <2>20 DEF Store, Memory, Headers, Chained, First
  <2>22. NoneBetter(C, END)'
    <3>1. NoneBetter(C, END)
      BY <1>1, <1>2 DEF Walking
    <3>2. \A b \in C \ {END} : SizeAt(b)' = SizeAt(b) /\ (FreeAt(b)' <=> FreeAt(b))
      BY <2>15, <2>16
    <3> QED
      BY <2>3, <3>1, <3>2 DEF NoneBetter, AllocSize
  <2>23. Committing(C)'
    BY <1>1, <2>2, <2>3, <2>4, <2>17, <2>18, <2>19, <2>22 DEF Committing, Walking, Datas, Byte
  <2> QED
    BY <2>21, <2>23 DEF StoreInv, Formatted
<1> QED
  BY <1>3, <1>4

\* The header takes the block into use: all of it, or as much as the data needs
\* where what is left is to be a block of its own.
LEMMA CommitStore ==
  ASSUME StoreFits, StoreInv, Sound, Commit
  PROVE  StoreInv'
<1>1. PICK C : Store(C) /\ Committing(C)
  BY DEF StoreInv, Unformatted, Formatted, Commit, Idle, Walking, Splitting
<1>2. BestFits(C) /\ thrown = "none" /\ req \in Datas
  BY <1>1 DEF Committing
<1>3. PICK a \in C \ {END} : a = best.addr
  BY <1>2 DEF BestFits
<1>4. PICK n \in Nat : n = Len(req)
  BY <1>2, DataType
<1>5. Leads(C, a) /\ Linked(C, C \ {END, a})
  BY <1>1 DEF Committing, Linked
<1>6. PICK z \in Sizes :
        z = SizeAt(a) /\ z = best.size /\ a + z <= END /\ Reaches(C, a, a + z)
  BY <1>1, <1>2, <1>3, <1>5, SizeFits DEF Store, Leads, BestFits
<1>7. PICK h \in Nat : h = HEADER /\ h >= 2
  BY Constants
<1>8. z \in Nat /\ z < 32768 /\ z >= n + h
  <2>1. z \in Nat /\ z < 32768
    BY <1>6 DEF Sizes
  <2>2. z >= AllocSize(n) /\ AllocSize(n) \in Nat /\ AllocSize(n) >= n + HEADER
    BY <1>2, <1>3, <1>4, <1>6, AllocHolds DEF BestFits
  <2> QED
    BY <1>7, <2>1, <2>2
<1>9. a \in Nat /\ START <= a /\ START \in Nat /\ END \in Nat
  BY <1>1, BlockType, Constants DEF Store
<1>10. PICK size \in Sizes : size = (IF Splits THEN n ELSE z) /\ size >= n
  BY <1>8 DEF Sizes
<1>11. block \in Headers /\ 0 \in Bit /\ mem \in Memory
  BY <1>1 DEF Store, Bit
<1>12. PICK taken \in Headers : taken = Header(block, 0, size) /\ ~IsFree(taken)
  <2>1. Header(block, 0, size) \in Headers /\ Header(block, 0, size)[1] % 2 = 0
    BY <1>11, HeaderSays
  <2> QED
    BY <2>1 DEF IsFree
<1>13. /\ nvmem_set(a, Header(block, 0, size))
       /\ Splits => /\ block' = taken /\ cur' = a + n /\ pc' = "split"
                    /\ UNCHANGED <<best, saved>>
       /\ ~Splits => saved' = Saved /\ Leave
       /\ UNCHANGED <<req, thrown>>
  BY <1>3, <1>4, <1>6, <1>10, <1>12 DEF Commit
<1>14. PICK hi \in Nat : hi = a + h
  BY <1>7, <1>9
<1>15. hi <= a + z /\ a + z \in Nat /\ a < a + z /\ a + HEADER <= END
  BY <1>4, <1>6, <1>7, <1>8, <1>9, <1>14
<1>16. /\ mem' \in Memory /\ SizeAt(a)' = size /\ ~FreeAt(a)'
       /\ \A x \in START .. END - 1 : x < a \/ x >= a + HEADER => mem'[x] = mem[x]
  <2>1. PICK b \in Headers, free \in Bit : b = block /\ free = 0
    BY <1>11
  <2>2. nvmem_set(a, Header(b, free, size))
    BY <1>13, <2>1
  <2>3. /\ mem' \in Memory /\ SizeAt(a)' = size /\ (FreeAt(a)' <=> free = 1)
        /\ \A x \in START .. END - 1 : x < a \/ x >= a + HEADER => mem'[x] = mem[x]
    BY <1>9, <1>11, <1>15, <2>2, WriteHeader
  <2> QED
    BY <2>1, <2>3
<1>17. Apart(a, hi)
  BY <1>7, <1>14, <1>16 DEF Apart
<1>18. /\ HasMagic'
       /\ \A b \in C \ {END, a} : SizeAt(b)' = SizeAt(b) /\ (FreeAt(b)' <=> FreeAt(b))
       /\ \A s \in saved : s.addr # a => \A D : s.addr \in D => Keeps(D, s)'
  <2>1. a <= a
    BY <1>9
  <2> QED
    BY <1>1, <1>5, <1>6, <1>9, <1>15, <1>17, <2>1, OthersKept
<1>19. ASSUME NEW i \in 1 .. n PROVE mem'[a + HEADER + i - 1] = req[i]
  <2>1. PICK x \in Nat : x = a + h + i - 1
    BY <1>9
  <2>2. x \in START .. END - 1 /\ x >= hi
    BY <1>4, <1>6, <1>7, <1>8, <1>9, <1>14, <2>1
  <2>3. mem'[x] = mem[x]
    BY <1>17, <2>2 DEF Apart
  <2>4. mem[x] = req[i]
    BY <1>1, <1>3, <1>4, <1>7, <2>1 DEF Committing
  <2> QED
    BY <1>7, <2>1, <2>3, <2>4
<1>20. \A s \in saved : s.addr # a /\ Keeps(C, s)'
  <2>1. ASSUME NEW s \in saved PROVE s.addr # a /\ Keeps(C, s)'
    <3>1. s.addr \in C /\ ~FreeAt(s.addr)
      BY <1>1 DEF Store, SavedKept, Keeps
    <3>2. s.addr # a
      BY <1>2, <1>3, <3>1 DEF BestFits
    <3> QED
      BY <1>18, <3>1, <3>2
  <2> QED
    BY <2>1
<1>21. Linked(C, C \ {END, a})'
  BY <1>5, <1>18, StillLinked
<1>22. Chained(C)'
  BY <1>1 DEF Store, Chained, First
<1>23. CASE Splits
  <2>1. /\ block' = taken /\ cur' = a + n /\ pc' = "split" /\ best' = best /\ saved' = saved
        /\ req' = req /\ thrown' = "none" /\ size = n
    BY <1>2, <1>10, <1>13, <1>23
  <2>2. SavedKept(C)'
    BY <1>1, <1>20, <2>1 DEF Store, SavedKept, Datas, Byte
  <2>3. Store(C)'
    BY <1>16, <1>18, <1>22, <2>1, <2>2 DEF Store, Memory, Headers, Byte
  <2>4. Splits' /\ NextBlock' = a + z
    BY <1>3, <1>6, <1>23, <2>1 DEF Splits, NextBlock, AllocSize
  <2>5. Reaches(C, best.addr, NextBlock)'
    BY <1>3, <1>6, <2>1, <2>4 DEF Reaches
  <2>6. Linked(C, C \ {END, best.addr})'
    BY <1>3, <1>21, <2>1 DEF Linked, Leads, Reaches, SizeAt
  <2>7. ~FreeAt(best.addr)' /\ SizeAt(best.addr)' = Len(req)'
    BY <1>3, <1>4, <1>16, <2>1 DEF FreeAt, SizeAt
  <2>8. \A i \in 1 .. Len(req') : mem'[best'.addr + HEADER + i - 1] = req'[i]
    BY <1>3, <1>4, <1>19, <2>1
  <2>9. \A s \in saved' : s.addr # best'.addr
    BY <1>3, <1>20, <2>1
  <2>10. req' \in Datas /\ ~IsFree(block)' /\ best'.addr \in C \ {END} /\ best'.size \in Nat
    BY <1>2, <1>3, <1>6, <1>8, <1>12, <2>1 DEF IsFree
  <2>11. cur' = best'.addr + Len(req')
    BY <1>3, <1>4, <2>1
  <2>12. Splitting(C)'
    BY <2>1, <2>4, <2>5, <2>6, <2>7, <2>8, <2>9, <2>10, <2>11
    DEF Splitting, Datas, Byte
  <2> QED
    BY <2>3, <2>12 DEF StoreInv, Formatted
<1>24. CASE ~Splits
  <2>1. PICK r \in [addr : Nat, data : Datas] : r = [addr |-> a, data |-> req]
    BY <1>2, <1>9
  <2>2. /\ saved' = saved \cup {r} /\ pc' = "idle" /\ block' = Blank
        /\ thrown' = "none" /\ size = z
    BY <1>2, <1>3, <1>10, <1>13, <1>24, <2>1 DEF Saved, Leave
  <2>3. Keeps(C, r)'
    <3>1. r.addr = a /\ r.data = req /\ Len(r.data) = n
      BY <1>4, <2>1
    <3>2. \A i \in 1 .. n - HEADER : mem'[a + HEADER + i - 1] = req[i]
      BY <1>4, <1>7, <1>19
    <3>3. ~FreeAt(a)' /\ SizeAt(a)' >= n
      BY <1>10, <1>16
    <3> QED
      BY <3>1, <3>2, <3>3 DEF Keeps, FreeAt, SizeAt
  <2>4. SavedKept(C)'
    <3>1. saved \subseteq [addr : Nat, data : Datas]
      BY <1>1 DEF Store, SavedKept
    <3>2. \A s, t \in saved' : s.addr = t.addr => s = t
      BY <1>1, <1>20, <2>1, <2>2 DEF Store, SavedKept
    <3>3. \A s \in saved' : Keeps(C, s)'
      BY <1>20, <2>2, <2>3
    <3>4. saved' \subseteq [addr : Nat, data : Datas]
      BY <2>1, <2>2, <3>1
    <3> QED
      BY <3>2, <3>3, <3>4 DEF SavedKept, Datas, Byte
  <2>5. block' \in Headers
    BY <2>2 DEF Blank, Headers, Byte
  <2>6. Store(C)'
    BY <1>16, <1>18, <1>22, <2>4, <2>5 DEF Store, Memory, Headers, Byte
  <2>7. Linked(C, C \ {END})'
    <3>1. \A b \in C \ {END} : SizeAt(b)' = SizeAt(b)
      BY <1>6, <1>16, <1>18, <2>2
    <3> QED
      BY <1>1, <3>1, StillLinked DEF Committing
  <2>8. Idle(C)'
    BY <2>2, <2>7 DEF Idle
  <2> QED
    BY <2>6, <2>8 DEF StoreInv, Formatted
<1> QED
  BY <1>23, <1>24

\* Where the data is one byte, or none, the rest's header is laid over the size
\* of the block before it.
LEMMA SplitOverlays ==
  ASSUME StoreFits, StoreInv, Sound, Split, Len(req) < 2
  PROVE  ~Sound'
<1>1. PICK C : Store(C) /\ Splitting(C)
  BY DEF StoreInv, Unformatted, Formatted, Split, Idle, Walking, Committing
<1>2. PICK end \in C : end = NextBlock
  BY <1>1 DEF Splitting, Reaches
<1>3. end < END => CanFetch(end, HEADER)
  <2>1. end \in Nat /\ START <= end /\ (end # END => end + HEADER <= END) /\ mem \in Memory
    BY <1>1, BlockType, Constants DEF Store
  <2> QED
    BY <2>1, ReadBack, Constants
<1>4. overlaid'
  BY <1>2, <1>3 DEF Split
<1> QED
  BY <1>4 DEF Sound

\* The rest of a split block leads to where the block ended, or, joined with the
\* free block there, to where that one ends.
LEMMA SplitStore ==
  ASSUME StoreFits, StoreInv, Sound, Split, ~ (Len(req) < 2)
  PROVE  StoreInv'
<1>1. PICK C : Store(C) /\ Splitting(C)
  BY DEF StoreInv, Unformatted, Formatted, Split, Idle, Walking, Committing
<1>2. PICK a \in C \ {END} : a = best.addr
  BY <1>1 DEF Splitting
<1>3. PICK n \in Nat : n = Len(req) /\ n >= 2 /\ req \in Datas
  BY <1>1, DataType DEF Splitting
<1>4. PICK h \in Nat : h = HEADER /\ h >= 2
  BY Constants
<1>5. PICK z \in Nat : z = best.size
  BY <1>1 DEF Splitting
<1>6. PICK end \in C : end = NextBlock
  BY <1>1 DEF Splitting, Reaches
<1>7. /\ a \in Nat /\ First <= a /\ START <= a /\ START \in Nat /\ END \in Nat /\ First \in Nat
      /\ end \in Nat /\ end <= END /\ mem \in Memory /\ Chained(C) /\ block \in Headers
  BY <1>1, BlockType, Constants DEF Store
<1>8. end = a + z
  BY <1>2, <1>5, <1>6 DEF NextBlock
<1>9. z > n + 3 * h
  <2>1. PICK s \in Nat : s = AllocSize(n) /\ s >= n + h
    BY <1>4, AllocHolds
  <2>2. z - s > 2 * h
    BY <1>1, <1>3, <1>4, <1>5, <2>1 DEF Splitting, Splits
  <2> QED
    BY <2>1, <2>2
<1>10. PICK c \in Nat : c = cur /\ c = a + n
  BY <1>1, <1>2, <1>3, <1>7 DEF Splitting
<1>11. a + 2 <= c /\ c + h < end /\ START <= c /\ c + HEADER <= END /\ c # END
  BY <1>3, <1>4, <1>7, <1>8, <1>9, <1>10
<1>12. /\ Reaches(C, a, end) /\ Linked(C, C \ {END, a})
       /\ SizeAt(a) = n /\ ~FreeAt(a) /\ \A s \in saved : s.addr # a
  BY <1>1, <1>2, <1>3, <1>6 DEF Splitting
<1>13. PICK next \in Headers : next = IF end < END THEN Fetch(end, HEADER) ELSE block
  <2>1. CASE end < END
    <3>1. Fetch(end, HEADER) \in Headers
      BY <1>7, <2>1, ReadBack, BlockType
    <3> QED
      BY <2>1, <3>1
  <2>2. CASE ~ (end < END)
    BY <1>7, <2>2
  <2> QED
    BY <2>1, <2>2
<1>14. PICK far \in C :
         /\ IsFree(next) => /\ end # END /\ FreeAt(end) /\ far = end + SizeOf(next)
                            /\ Reaches(C, end, far) /\ end < far
         /\ ~IsFree(next) => far = end
  <2>1. CASE IsFree(next)
    <3>1. end < END /\ end # END /\ next = Fetch(end, HEADER)
      BY <1>1, <1>7, <1>13, <2>1 DEF Splitting
    <3>2. FreeAt(end) /\ SizeOf(next) = SizeAt(end)
      BY <1>7, <2>1, <3>1, ReadBack, BlockType
    <3>3. Leads(C, end)
      BY <1>7, <1>8, <1>9, <1>12, <3>1 DEF Linked
    <3>4. SizeAt(end) \in Nat /\ SizeAt(end) >= 2 /\ Reaches(C, end, end + SizeAt(end))
      BY <1>7, <3>1, <3>3, SizeFits DEF Leads
    <3>5. end < end + SizeAt(end)
      BY <1>7, <3>4
    <3> QED
      BY <2>1, <3>1, <3>2, <3>4, <3>5 DEF Reaches
  <2>2. CASE ~IsFree(next)
    BY <2>2
  <2> QED
    BY <2>1, <2>2
<1>15. far \in Nat /\ far <= END /\ end <= far
  <2>1. far \in Nat /\ far <= END
    BY <1>7, BlockType
  <2> QED
    BY <1>7, <1>14, <2>1
<1>16. PICK size \in Sizes : size = far - c /\ size >= 2
  <2>1. far - c \in Nat /\ far - c >= 2 /\ far - c < 32768
    <3>1. FirstSize \in Int /\ First + FirstSize = END /\ FirstSize < 32768
      BY Constants DEF StoreFits
    <3> QED
      BY <1>4, <1>7, <1>10, <1>11, <1>15, <3>1
  <2> QED
    BY <2>1 DEF Sizes
<1>17. Rest(next) = size
  <2>1. NextBlock = end /\ cur = c
    BY <1>6, <1>10
  <2>2. CASE IsFree(next)
    <3>1. far = end + SizeOf(next) /\ Rest(next) = end - c + SizeOf(next)
      BY <1>14, <2>1, <2>2 DEF Rest
    <3>2. PICK w : w = SizeOf(next)
      OBVIOUS
    <3>3. w \in Int
      <4>1. next[1] \in Byte /\ next[2] \in Byte
        BY Constants DEF Headers
      <4>2. \A x, y \in 0 .. 255 : (x \div 2) + 128 * y \in Int
        OBVIOUS
      <4> QED
        BY <3>2, <4>1, <4>2 DEF SizeOf, Byte
    <3> QED
      BY <1>7, <1>10, <1>15, <1>16, <3>1, <3>2, <3>3
  <2>3. CASE ~IsFree(next)
    <3>1. far = end /\ Rest(next) = end - c + 0
      BY <1>14, <2>1, <2>3 DEF Rest
    <3> QED
      BY <1>7, <1>10, <1>16, <3>1
  <2> QED
    BY <2>2, <2>3
<1>18. ~ (end < END /\ ~CanFetch(end, HEADER))
  BY <1>7, ReadBack, BlockType
<1>19. /\ nvmem_set(c, Header(next, 1, size)) /\ saved' = Saved
       /\ UNCHANGED <<thrown, req>> /\ pc' = "idle" /\ block' = Blank
  BY <1>6, <1>10, <1>13, <1>17, <1>18 DEF Split, Leave
<1>20. /\ mem' \in Memory /\ SizeAt(c)' = size
       /\ \A x \in START .. END - 1 : x < c \/ x >= c + HEADER => mem'[x] = mem[x]
  <2>1. PICK free \in Bit : free = 1
    BY DEF Bit
  <2>2. nvmem_set(c, Header(next, free, size))
    BY <1>19, <2>1
  <2> QED
    BY <1>7, <1>11, <2>2, WriteHeader
<1>21. PICK hi \in Nat : hi = c + h
  BY <1>10
<1>22. Apart(c, hi)
  BY <1>4, <1>20, <1>21 DEF Apart
<1>23. /\ HasMagic'
       /\ \A b \in C \ {END, a} : SizeAt(b)' = SizeAt(b) /\ (FreeAt(b)' <=> FreeAt(b))
       /\ \A s \in saved : s.addr # a => \A D : s.addr \in D => Keeps(D, s)'
  <2>1. a < end /\ a <= c /\ hi <= end
    BY <1>7, <1>10, <1>11, <1>21
  <2> QED
    BY <1>1, <1>7, <1>12, <1>22, <2>1, OthersKept
<1>24. SizeAt(a)' = n /\ ~FreeAt(a)'
  <2>1. SizeAt(a)' = SizeAt(a) /\ (FreeAt(a)' <=> FreeAt(a))
    BY <1>7, <1>11, <1>22, KeepHeader
  <2> QED
    BY <1>12, <2>1
<1>25. PICK D : D = (C \cup {c}) \ (IF IsFree(next) THEN {end} ELSE {})
  OBVIOUS
<1>26. /\ END \in D /\ First \in D /\ c \in D \ {END} /\ a \in D \ {END} /\ far \in D
       /\ \A x \in D : x = c \/ (x \in C /\ (IsFree(next) => x # end))
       /\ \A x \in C : x # end \/ ~IsFree(next) => x \in D
  <2>1. /\ c # end /\ a # end /\ First # end /\ (IsFree(next) => END # end /\ far # end)
        /\ END \in C /\ First \in C
    BY <1>7, <1>8, <1>9, <1>11, <1>14, <1>15 DEF Chained
  <2> QED
    BY <1>11, <1>25, <2>1
<1>27. Chained(D)
  <2>1. D \subseteq First .. END
    BY <1>7, <1>10, <1>11, <1>26, Constants DEF Chained
  <2>2. \A x \in D \ {END} : x + HEADER <= END
    BY <1>7, <1>11, <1>26 DEF Chained
  <2> QED
    BY <1>26, <2>1, <2>2 DEF Chained
<1>28. ASSUME NEW x \in D PROVE x \in Nat /\ (x = c \/ x <= a \/ x >= end)
  <2>1. x \in Nat
    BY <1>27, BlockType
  <2> QED
    BY <1>12, <1>26, <2>1 DEF Reaches
<1>29. Leads(D, a)'
  <2>1. \A x \in D : x <= a \/ x >= a + n
    BY <1>7, <1>10, <1>11, <1>28
  <2> QED
    BY <1>3, <1>10, <1>24, <1>26, <2>1 DEF Leads, Reaches
<1>30. Leads(D, c)'
  <2>1. c + size = far
    BY <1>10, <1>15, <1>16
  <2>2. ASSUME NEW x \in D PROVE x <= c \/ x >= far
    <3>1. CASE x = c \/ x <= a
      BY <1>7, <1>10, <1>11, <1>28, <3>1
    <3>2. CASE x >= end /\ x # c /\ ~IsFree(next)
      BY <1>14, <3>2
    <3>3. CASE x >= end /\ x # c /\ IsFree(next)
      <4>1. x \in C /\ x # end /\ (x <= end \/ x >= far)
        BY <1>14, <1>26, <3>3 DEF Reaches
      <4> QED
        BY <1>7, <1>28, <3>3, <4>1
    <3> QED
      BY <1>28, <3>1, <3>2, <3>3
  <2> QED
    BY <1>16, <1>20, <1>26, <2>1, <2>2 DEF Leads, Reaches
<1>31. ASSUME NEW b \in D \ {END, a, c} PROVE Leads(D, b)'
  <2>1. b \in C \ {END, a} /\ b \in Nat
    BY <1>26, <1>28
  <2>2. PICK w \in Nat : w = SizeAt(b) /\ w >= 2 /\ Reaches(C, b, b + w)
    <3>1. Leads(C, b)
      BY <1>12, <2>1 DEF Linked
    <3> QED
      BY <1>7, <2>1, <3>1, SizeFits DEF Leads
  <2>3. (b <= a \/ b >= end) /\ (a <= b \/ a >= b + w)
    BY <1>12, <2>1, <2>2 DEF Reaches
  <2>4. b >= end \/ (b < a /\ b + w <= a)
    <3>1. b # a
      BY <2>1
    <3> QED
      BY <1>7, <2>1, <2>2, <2>3, <3>1
  <2>5. b + w \in D
    <3>1. b + w \in C /\ b + w \in Nat
      BY <2>1, <2>2 DEF Reaches
    <3>2. ~IsFree(next) \/ b + w # end
      <4>1. CASE b < a /\ b + w <= a
        BY <1>7, <1>10, <1>11, <2>1, <2>2, <4>1
      <4>2. CASE b >= end
        BY <1>7, <2>1, <2>2, <4>2
      <4> QED
        BY <1>7, <2>4, <4>1, <4>2
    <3> QED
      BY <1>26, <3>1, <3>2
  <2>6. ASSUME NEW x \in D PROVE x <= b \/ x >= b + w
    <3>1. CASE x = c
      BY <1>7, <1>10, <1>11, <2>1, <2>4, <3>1
    <3>2. CASE x # c
      BY <1>26, <2>2, <3>2 DEF Reaches
    <3> QED
      BY <3>1, <3>2
  <2>7. SizeAt(b)' = w
    BY <1>23, <2>1, <2>2
  <2> QED
    BY <2>2, <2>5, <2>6, <2>7 DEF Leads, Reaches
<1>32. Linked(D, D \ {END})'
  BY <1>29, <1>30, <1>31 DEF Linked
<1>33. ASSUME NEW s \in saved PROVE s.addr # a /\ Keeps(D, s)'
  <2>1. s.addr \in C /\ ~FreeAt(s.addr) /\ s.addr # a
    BY <1>1, <1>12 DEF Store, SavedKept, Keeps
  <2>2. s.addr # end \/ ~IsFree(next)
    BY <1>14, <2>1
  <2>3. s.addr \in D
    BY <1>26, <2>1, <2>2
  <2> QED
    BY <1>23, <2>1, <2>3
<1>34. PICK r \in [addr : Nat, data : Datas] : r = [addr |-> a, data |-> req]
  BY <1>3, <1>7
<1>35. Keeps(D, r)'
  <2>1. ASSUME NEW i \in 1 .. n - HEADER PROVE mem'[a + HEADER + i - 1] = req[i]
    <3>1. PICK x \in Nat : x = a + h + i - 1
      BY <1>7
    <3>2. x \in START .. END - 1 /\ x < c
      BY <1>4, <1>7, <1>10, <1>11, <3>1
    <3>3. mem'[x] = mem[x]
      BY <1>22, <3>2 DEF Apart
    <3>4. i \in 1 .. n
      BY <1>4
    <3>5. mem[a + HEADER + i - 1] = req[i]
      BY <1>1, <1>2, <1>3, <3>4 DEF Splitting
    <3> QED
      BY <1>4, <3>1, <3>3, <3>5
  <2>2. r.addr = a /\ r.data = req /\ Len(r.data) = n
    BY <1>3, <1>34
  <2>3. SizeAt(a)' >= n
    BY <1>24
  <2> QED
    BY <1>24, <1>26, <2>1, <2>2, <2>3 DEF Keeps, FreeAt, SizeAt
<1>36. SavedKept(D)'
  <2>1. saved' = saved \cup {r}
    BY <1>2, <1>19, <1>34 DEF Saved
  <2>2. saved' \subseteq [addr : Nat, data : Datas]
    BY <1>1, <1>34, <2>1 DEF Store, SavedKept
  <2>3. \A s, t \in saved' : s.addr = t.addr => s = t
    BY <1>1, <1>33, <1>34, <2>1 DEF Store, SavedKept
  <2>4. \A s \in saved' : Keeps(D, s)'
    BY <1>33, <1>35, <2>1
  <2> QED
    BY <2>2, <2>3, <2>4 DEF SavedKept, Datas, Byte
<1>37. Store(D)'
  <2>1. block' \in Headers
    BY <1>19 DEF Blank, Headers, Byte
  <2>2. Chained(D)'
    BY <1>27 DEF Chained, First
  <2> QED
    BY <1>20, <1>23, <1>36, <2>1, <2>2 DEF Store, Memory, Headers, Byte
<1>38. Idle(D)'
  BY <1>1, <1>19, <1>32 DEF Idle, Splitting
<1> QED
  BY <1>37, <1>38 DEF StoreInv, Formatted

-----------------------------------------------------------------------------
(* nvmem_freeblock, and power.                                             *)

\* The block is free again, and its data no longer saved.
LEMMA FreeStore ==
  ASSUME StoreFits, StoreInv, Sound, NEW s \in saved, Free(s)
  PROVE  StoreInv'
<1>1. PICK C : Store(C) /\ Idle(C) /\ pc = "idle"
  BY DEF StoreInv, Unformatted, Formatted, Free, Walking, Committing, Splitting
<1>2. /\ s \in [addr : Nat, data : Datas] /\ Keeps(C, s)
      /\ \A t \in saved : t.addr = s.addr => t = s
  BY <1>1 DEF Store, SavedKept
<1>3. PICK a \in C \ {END} : a = s.addr
  BY <1>2 DEF Keeps
<1>4. PICK h \in Nat : h = HEADER /\ h >= 2
  BY Constants
<1>5. /\ a \in Nat /\ START <= a /\ a + HEADER <= END /\ START \in Nat /\ END \in Nat
      /\ mem \in Memory
  BY <1>1, BlockType, Constants DEF Store
<1>6. Leads(C, a) /\ Linked(C, C \ {END, a})
  BY <1>1 DEF Idle, Linked
<1>7. PICK z \in Nat : z = SizeAt(a) /\ a + z <= END /\ Reaches(C, a, a + z)
  BY <1>1, <1>6, SizeFits DEF Store, Leads
<1>9. PICK b \in Headers : b = Fetch(a, HEADER)
  BY <1>5, ReadBack
<1>10. b[1] = mem[a] /\ b[2] = mem[a + 1] /\ \A i \in 1 .. HEADER : b[i] = mem[a + i - 1]
  <2>1. \A i \in 1 .. HEADER : b[i] = mem[a + i - 1]
    BY <1>5, <1>9, ReadBack
  <2>2. 1 \in 1 .. HEADER /\ 2 \in 1 .. HEADER /\ a + 1 - 1 = a /\ a + 2 - 1 = a + 1
    BY <1>4, <1>5
  <2>3. b[1] = mem[a + 1 - 1] /\ b[2] = mem[a + 2 - 1]
    BY <2>1, <2>2
  <2> QED
    BY <2>1, <2>2, <2>3
<1>11. PICK y \in Byte : y = (b[1] \div 2) * 2 + 1 /\ y \div 2 = b[1] \div 2 /\ y % 2 = 1
  <2>1. b[1] \in Byte
    BY <1>4 DEF Headers
  <2>2. \A x \in 0 .. 255 : /\ (x \div 2) * 2 + 1 \in 0 .. 255
                            /\ ((x \div 2) * 2 + 1) \div 2 = x \div 2
                            /\ ((x \div 2) * 2 + 1) % 2 = 1
    OBVIOUS
  <2> QED
    BY <2>1, <2>2 DEF Byte
<1>12. PICK bytes \in [1 .. h -> Byte] :
         /\ bytes = [b EXCEPT ![1] = (@ \div 2) * 2 + 1]
         /\ bytes[1] = y /\ \A i \in 2 .. h : bytes[i] = b[i]
  <2>1. b \in [1 .. h -> Byte] /\ 1 \in 1 .. h
    BY <1>4 DEF Headers
  <2>2. [b EXCEPT ![1] = (@ \div 2) * 2 + 1] = [b EXCEPT ![1] = y]
    BY <1>11, <2>1
  <2>3. [b EXCEPT ![1] = y] \in [1 .. h -> Byte]
    BY <2>1
  <2>4. [b EXCEPT ![1] = y][1] = y /\ \A i \in 2 .. h : [b EXCEPT ![1] = y][i] = b[i]
    BY <2>1
  <2> QED
    BY <2>2, <2>3, <2>4
<1>13. /\ nvmem_set(a, bytes) /\ saved' = saved \ {s} /\ thrown' = "none"
       /\ pc' = "idle" /\ block' = block
  BY <1>1, <1>3, <1>9, <1>12 DEF Free, call
<1>14. /\ mem' \in Memory
       /\ \A x \in START .. END - 1 :
            /\ x < a \/ x >= a + h => mem'[x] = mem[x]
            /\ x >= a /\ x < a + h => mem'[x] = bytes[x - a + 1]
  <2>1. a + h <= END
    BY <1>4, <1>5
  <2> QED
    BY <1>5, <1>13, <2>1, WriteBytes
<1>15. mem'[a] = y /\ mem'[a + 1] = mem[a + 1]
  <2>1. /\ a \in START .. END - 1 /\ a >= a /\ a < a + h /\ a - a + 1 = 1
        /\ a + 1 \in START .. END - 1 /\ a + 1 >= a /\ a + 1 < a + h /\ (a + 1) - a + 1 = 2
        /\ 2 \in 2 .. h
    BY <1>4, <1>5
  <2>2. mem'[a] = bytes[1] /\ mem'[a + 1] = bytes[2]
    BY <1>14, <2>1
  <2> QED
    BY <1>10, <1>12, <2>1, <2>2
<1>16. SizeAt(a)' = z
  BY <1>7, <1>10, <1>11, <1>15 DEF SizeAt
<1>17. PICK hi \in Nat : hi = a + 2
  BY <1>5
<1>18. Apart(a, hi)
  <2>1. ASSUME NEW x \in START .. END - 1, x < a \/ x >= hi PROVE mem'[x] = mem[x]
    <3>1. CASE x < a \/ x >= a + h
      BY <1>14, <3>1
    <3>2. CASE ~ (x < a \/ x >= a + h)
      <4>1. x \in Nat /\ x >= a /\ x < a + h /\ x - a + 1 \in 2 .. h /\ x - a + 1 \in 1 .. HEADER
        BY <1>4, <1>5, <1>17, <2>1, <3>2
      <4>2. a + (x - a + 1) - 1 = x
        BY <1>5, <4>1
      <4>3. bytes[x - a + 1] = mem[x]
        BY <1>10, <1>12, <4>1, <4>2
      <4> QED
        BY <1>14, <4>1, <4>3
    <3> QED
      BY <3>1, <3>2
  <2> QED
    BY <2>1 DEF Apart
<1>19. z >= 2
  BY <1>7, <1>6 DEF Leads
<1>20. /\ HasMagic'
       /\ \A x \in C \ {END, a} : SizeAt(x)' = SizeAt(x) /\ (FreeAt(x)' <=> FreeAt(x))
       /\ \A t \in saved : t.addr # a => \A D : t.addr \in D => Keeps(D, t)'
  <2>1. a < a + z /\ a <= a /\ hi <= a + z /\ a + z \in Nat
    BY <1>5, <1>17, <1>19
  <2> QED
    BY <1>1, <1>5, <1>6, <1>7, <1>18, <2>1, OthersKept
<1>21. Linked(C, C \ {END})'
  <2>1. \A x \in C \ {END} : SizeAt(x)' = SizeAt(x)
    BY <1>7, <1>16, <1>20
  <2> QED
    BY <1>1, <2>1, StillLinked DEF Idle
<1>22. \A t \in saved' : Keeps(C, t)'
  <2>1. ASSUME NEW t \in saved' PROVE Keeps(C, t)'
    <3>1. t \in saved /\ t # s
      BY <1>13
    <3>2. t.addr # a /\ t.addr \in C
      BY <1>1, <1>2, <1>3, <3>1 DEF Store, SavedKept, Keeps
    <3> QED
      BY <1>20, <3>1, <3>2
  <2> QED
    BY <2>1
<1>23. SavedKept(C)'
  BY <1>1, <1>13, <1>22 DEF Store, SavedKept, Datas, Byte
<1>24. Chained(C)'
  BY <1>1 DEF Store, Chained, First
<1>25. Store(C)'
  BY <1>1, <1>13, <1>14, <1>20, <1>23, <1>24 DEF Store, Memory, Headers, Byte
<1>26. Idle(C)'
  BY <1>13, <1>21 DEF Idle
<1> QED
  BY <1>25, <1>26 DEF StoreInv, Formatted

\* Power fails, and a call in progress is forgotten: between two writes that belong
\* together the store is torn, and after any other the chain is what it was.
LEMMA CrashStore ==
  ASSUME StoreInv, Sound, Crash
  PROVE  StoreInv'
<1>1. CASE pc \in {"format", "split"}
  BY <1>1 DEF Crash, StoreInv, Sound
<1>2. CASE pc \notin {"format", "split"}
  <2>1. /\ pc' = "boot" /\ thrown' = "none" /\ block' \in Headers
        /\ UNCHANGED <<mem, saved>>
    BY DEF Crash, Blank, Headers, Byte
  <2>2. CASE Unformatted
    BY <1>2, <2>1, <2>2 DEF StoreInv, Unformatted, HasMagic, First, Memory, Headers, Byte
  <2>3. ASSUME NEW C, Formatted(C) PROVE StoreInv'
    <3>1. Store(C) /\ Linked(C, C \ {END})
      BY <1>2, <2>3 DEF Formatted, Idle, Walking, Committing, Splitting
    <3>2. Store(C)' /\ Linked(C, C \ {END})'
      BY <2>1, <3>1, SameStore
    <3>3. Idle(C)'
      BY <2>1, <3>2 DEF Idle
    <3> QED
      BY <3>2, <3>3 DEF StoreInv, Formatted
  <2> QED
    BY <2>2, <2>3 DEF StoreInv
<1> QED
  BY <1>1, <1>2

\* Nothing happens.
LEMMA StutterStore ==
  ASSUME StoreInv, UNCHANGED vars
  PROVE  StoreInv'
<1>1. UNCHANGED <<mem, pc, block, cur, best, req, saved, thrown, torn, overlaid>>
  BY DEF vars, call
<1>2. CASE ~Sound
  BY <1>1, <1>2 DEF StoreInv, Sound
<1>3. CASE Unformatted
  BY <1>1, <1>3 DEF StoreInv, Unformatted, HasMagic, First, Memory, Headers, Byte
<1>4. ASSUME NEW C, Formatted(C) PROVE Formatted(C)'
  <2>1. /\ Store(C)' /\ \A A : Linked(C, A) => Linked(C, A)'
        /\ \A a : SizeAt(a)' = SizeAt(a) /\ (FreeAt(a)' <=> FreeAt(a))
    BY <1>1, <1>4, SameStore DEF Formatted, Store
  <2>2. BestFits(C) => BestFits(C)'
    BY <1>1 DEF BestFits, FreeAt, SizeAt, AllocSize
  <2>3. (NoneBetter(C, END) => NoneBetter(C, END)') /\ (NoneBetter(C, cur) => NoneBetter(C, cur)')
    BY <1>1 DEF NoneBetter, FreeAt, SizeAt, AllocSize
  <2>4. Idle(C) => Idle(C)'
    BY <1>1, <2>1, <2>3 DEF Idle, BestSize0
  <2>5. Walking(C) => Walking(C)'
    BY <1>1, <2>1, <2>2, <2>3 DEF Walking, BestSize0, Datas, Byte
  <2>6. Committing(C) => Committing(C)'
    BY <1>1, <2>1, <2>2, <2>3 DEF Committing, Datas, Byte
  <2>7. Splitting(C) => Splitting(C)'
    <3>1. Linked(C, C \ {END, best.addr}) => Linked(C, C \ {END, best.addr})'
      BY <1>1 DEF Linked, Leads, Reaches, SizeAt
    <3>2. Reaches(C, best.addr, NextBlock) => Reaches(C, best.addr, NextBlock)'
      BY <1>1 DEF Reaches, NextBlock
    <3> QED
      BY <1>1, <3>1, <3>2 DEF Splitting, Splits, AllocSize, FreeAt, SizeAt, IsFree, Datas, Byte
  <2> QED
    BY <1>4, <2>1, <2>4, <2>5, <2>6, <2>7 DEF Formatted
<1> QED
  BY <1>2, <1>3, <1>4 DEF StoreInv

\* Whatever was saved, split, joined and freed, and wherever power failed but between
\* the two writes of a split or those of nvmem_init, the blocks are one chain from
\* the first to the end of the store (nvmem.c:79-147), until a block of one byte is split.
THEOREM StoreInvariant == ASSUME StoreFits PROVE Spec => []StoreInv
<1>1. Init => StoreInv
  BY InitStore
<1>2. ASSUME StoreInv, [Next]_vars PROVE StoreInv'
  <2>1. CASE ~Sound
    <3>1. CASE Boot \/ Format \/ Walk \/ WriteData \/ Commit \/ UNCHANGED vars
      <4>1. UNCHANGED <<torn, overlaid>>
        BY <3>1 DEF Boot, Format, Walk, WriteData, Commit, vars
      <4> QED
        BY <2>1, <4>1 DEF StoreInv, Sound
    <3>2. CASE Split
      <4>1. torn' = torn /\ (overlaid' = overlaid \/ overlaid' = (overlaid \/ Len(req) < 2))
        BY <3>2 DEF Split
      <4> QED
        BY <2>1, <4>1 DEF StoreInv, Sound
    <3>3. ASSUME NEW n \in Lens, NEW x \in Fills, Save([i \in 1 .. n |-> x]) PROVE StoreInv'
      <4>1. UNCHANGED <<torn, overlaid>>
        BY <3>3 DEF Save
      <4> QED
        BY <2>1, <4>1 DEF StoreInv, Sound
    <3>4. ASSUME NEW s \in saved, Free(s) PROVE StoreInv'
      <4>1. UNCHANGED <<torn, overlaid>>
        BY <3>4 DEF Free
      <4> QED
        BY <2>1, <4>1 DEF StoreInv, Sound
    <3>5. CASE Crash
      <4>1. overlaid' = overlaid /\ torn' = (torn \/ pc \in {"format", "split"})
        BY <3>5 DEF Crash
      <4> QED
        BY <2>1, <4>1 DEF StoreInv, Sound
    <3> QED
      BY <1>2, <3>1, <3>2, <3>3, <3>4, <3>5 DEF Next, Work
  <2>2. CASE UNCHANGED vars
    BY <1>2, <2>2, StutterStore
  <2>3. CASE Sound /\ Work
    <3>1. ASSUME Sound, Split PROVE StoreInv'
      <4>1. CASE Len(req) < 2
        BY <1>2, <3>1, <4>1, SplitOverlays DEF StoreInv
      <4> QED
        BY <1>2, <3>1, <4>1, SplitStore
    <3> QED
      BY <1>2, <2>3, <3>1, BootStore, FormatStore, WalkStore, WriteDataStore, CommitStore DEF Work
  <2>4. ASSUME Sound, NEW n \in Lens, NEW x \in Fills, Save([i \in 1 .. n |-> x]) PROVE StoreInv'
    BY <1>2, <2>4, SaveStore
  <2>5. ASSUME Sound, NEW s \in saved, Free(s) PROVE StoreInv'
    BY <1>2, <2>5, FreeStore
  <2>6. CASE Sound /\ Crash
    BY <1>2, <2>6, CrashStore
  <2> QED
    BY <1>2, <2>1, <2>2, <2>3, <2>4, <2>5, <2>6 DEF Next
<1> QED
  BY <1>1, <1>2, PTL DEF Spec

-----------------------------------------------------------------------------
(* The chain that the header fields lead along.                            *)

\* A set of numbers that is not empty has a least one.
LEMMA NatMinimum == 
  ASSUME NEW T, T \subseteq Nat, T # {} 
  PROVE \E n \in T : \A m \in T : n <= m
<1> DEFINE U == {1 .. n : n \in T}
<1>1. IsWellFoundedOn(StrictSubsetOrdering(Nat), FiniteSubsetsOf(Nat))
  BY FS_StrictSubsetOrderingWellFounded
<1>2. \A n \in T : IsFiniteSet(1 .. n) /\ 1 .. n \in SUBSET Nat
  BY FS_Interval
<1>3. U \subseteq FiniteSubsetsOf(Nat) /\ U # {}
  BY <1>2 DEF FiniteSubsetsOf
<1>4. PICK x \in U : \A y \in U : ~ (<<y, x>> \in StrictSubsetOrdering(Nat))
  BY <1>1, <1>3, WFMin
<1>5. PICK n \in T : x = 1 .. n
  OBVIOUS
<1>6. ASSUME NEW m \in T, m < n PROVE FALSE
  <2>1. 1 .. m \in U /\ 1 .. m \subseteq 1 .. n /\ n \in 1 .. n /\ n \notin 1 .. m
    BY <1>6
  <2>2. <<1 .. m, 1 .. n>> \in StrictSubsetOrdering(Nat)
    BY <2>1, <1>2 DEF StrictSubsetOrdering
  <2> QED BY <1>4, <1>5, <2>1, <2>2
<1> QED
  BY <1>6

\* What can be reached from a: every set that the chain does not lead out of has
\* it, if it has a.
Closed(T) == \A y \in T : ChainNext(y) # 0 => ChainNext(y) \in T

Reached(a) == {x \in Nat : \A T \in SUBSET Nat : a \in T /\ Closed(T) => x \in T}

\* The chain leads on, and only inside the store.
LEMMA NextIsNat ==
  ASSUME mem \in Memory, NEW a \in Nat
  PROVE  ChainNext(a) \in Nat
<1>1. CASE a \in First .. END - 1 /\ CanFetch(a, HEADER) /\ SizeOf(Fetch(a, HEADER)) > 0
  <2>1. START <= a /\ a + HEADER <= END
    BY <1>1, FileEndIsEnd, Constants DEF CanFetch
  <2>2. PICK z \in Nat : z = SizeOf(Fetch(a, HEADER))
    BY <2>1, ReadBack
  <2> QED
    BY <1>1, <2>2 DEF ChainNext
<1>2. CASE ~ (a \in First .. END - 1 /\ CanFetch(a, HEADER) /\ SizeOf(Fetch(a, HEADER)) > 0)
  BY <1>2 DEF ChainNext
<1> QED
  BY <1>1, <1>2

\* What can be reached from a is a, and what can be reached from the next.
LEMMA ReachedStep ==
  ASSUME mem \in Memory, NEW a \in Nat
  PROVE  Reached(a) = {a} \cup IF ChainNext(a) = 0 THEN {} ELSE Reached(ChainNext(a))
<1>1. PICK n \in Nat : n = ChainNext(a)
  BY NextIsNat
<1>2. PICK U : U = {a} \cup IF n = 0 THEN {} ELSE Reached(n)
  OBVIOUS
<1>3. U \subseteq Reached(a)
  <2>1. a \in Reached(a)
    BY DEF Reached
  <2>2. ASSUME n # 0, NEW x \in Reached(n) PROVE x \in Reached(a)
    <3>1. ASSUME NEW T \in SUBSET Nat, a \in T, Closed(T) PROVE x \in T
      <4>1. n \in T
        BY <1>1, <2>2, <3>1 DEF Closed
      <4> QED
        BY <3>1, <4>1, <2>2 DEF Reached
    <3> QED
      BY <3>1, <2>2 DEF Reached
  <2> QED
    BY <1>2, <2>1, <2>2
<1>4. Reached(a) \subseteq U
  <2>1. U \in SUBSET Nat /\ a \in U
    BY <1>2 DEF Reached
  <2>2. ASSUME n # 0, NEW y \in Reached(n), ChainNext(y) # 0 PROVE ChainNext(y) \in Reached(n)
    <3>1. y \in Nat
      BY DEF Reached
    <3>2. PICK m \in Nat : m = ChainNext(y)
      BY <3>1, NextIsNat
    <3>3. ASSUME NEW T \in SUBSET Nat, n \in T, Closed(T) PROVE m \in T
      <4>1. y \in T
        BY <3>3 DEF Reached
      <4> QED
        BY <2>2, <3>2, <3>3, <4>1 DEF Closed
    <3> QED
      BY <3>2, <3>3 DEF Reached
  <2>3. n # 0 => n \in Reached(n)
    BY DEF Reached
  <2>4. Closed(U)
    <3>1. ASSUME NEW y \in U, ChainNext(y) # 0 PROVE ChainNext(y) \in U
      <4>1. CASE y = a
        BY <1>1, <1>2, <2>3, <3>1, <4>1
      <4>2. CASE y # a
        <5>1. n # 0 /\ y \in Reached(n)
          BY <1>2, <4>2
        <5> QED
          BY <1>2, <2>2, <3>1, <5>1
      <4> QED
        BY <4>1, <4>2
    <3> QED
      BY <3>1 DEF Closed
  <2> QED
    BY <2>1, <2>4 DEF Reached
<1> QED
  BY <1>1, <1>2, <1>3, <1>4

\* The recursion of the chain has a solution, so that Chain is one.
LEMMA ChainFollows ==
  ASSUME mem \in Memory
  PROVE  \E f : /\ \A a \in Nat :
                     f[a] = {a} \cup IF ChainNext(a) = 0 THEN {} ELSE f[ChainNext(a)]
                /\ Chain = f[First]
<1> DEFINE P(from) == from = [a \in Nat |->
                                {a} \cup IF ChainNext(a) = 0 THEN {} ELSE from[ChainNext(a)]]
<1>1. \E from : P(from)
  <2>1. PICK r : r = [a \in Nat |-> Reached(a)]
    OBVIOUS
  <2>2. ASSUME NEW a \in Nat
        PROVE  Reached(a) = {a} \cup IF ChainNext(a) = 0 THEN {} ELSE r[ChainNext(a)]
    <3>1. r[ChainNext(a)] = Reached(ChainNext(a))
      BY <2>1, NextIsNat
    <3> QED
      BY <3>1, ReachedStep
  <2>3. P(r)
    BY <2>1, <2>2
  <2> QED
    BY <2>3
<1>2. PICK f : f = CHOOSE from : P(from)
  OBVIOUS
<1>3. P(f)
  BY <1>1, <1>2
<1>4. Chain = f[First]
  BY <1>2 DEF Chain
<1> HIDE DEF P
<1>5. ASSUME NEW a \in Nat
      PROVE  f[a] = {a} \cup IF ChainNext(a) = 0 THEN {} ELSE f[ChainNext(a)]
  <2>1. f = [x \in Nat |-> {x} \cup IF ChainNext(x) = 0 THEN {} ELSE f[ChainNext(x)]]
    BY <1>3 DEF P
  <2> QED
    BY <2>1
<1> QED
  BY <1>4, <1>5

\* Linked blocks are the chain: what is wrong at an address is wrong at the next.
LEMMA ChainIsLinked ==
  ASSUME StoreFits, NEW C, Store(C), Linked(C, C \ {END})
  PROVE  Chain = C
<1>1. mem \in Memory /\ Chained(C)
  BY DEF Store
<1>2. PICK f : /\ \A a \in Nat :
                     f[a] = {a} \cup IF ChainNext(a) = 0 THEN {} ELSE f[ChainNext(a)]
               /\ Chain = f[First]
  BY <1>1, ChainFollows
<1> DEFINE From(a) == {x \in C : x >= a}
<1>3. First \in C /\ END \in C /\ END \in Nat /\ First \in Nat
  BY <1>1, Constants DEF Chained
<1>4. f[END] = From(END)
  <2>1. ChainNext(END) = 0
    BY Constants DEF ChainNext
  <2>2. \A x \in C : x \in Nat /\ x <= END
    BY <1>1, BlockType
  <2>3. From(END) = {END}
    <3>1. \A x \in C : x >= END <=> x = END
      BY <1>3, <2>2
    <3> QED
      BY <1>3, <3>1
  <2> QED
    BY <1>2, <1>3, <2>1, <2>3
<1>5. ASSUME NEW a \in C \ {END}, NEW n \in C, n = a + SizeAt(a), f[n] = From(n)
      PROVE  f[a] = From(a)
  <2>1. a \in Nat /\ First <= a /\ a + HEADER <= END /\ a < END /\ START <= a
    BY <1>1, BlockType, Constants
  <2>2. Leads(C, a)
    BY DEF Linked
  <2>3. PICK z \in Nat : z = SizeAt(a) /\ z >= 2 /\ Reaches(C, a, a + z) /\ n = a + z
    BY <1>1, <1>5, <2>2, SizeFits DEF Leads
  <2>4. SizeOf(Fetch(a, HEADER)) = z /\ CanFetch(a, HEADER)
    BY <1>1, <2>1, <2>3, ReadBack
  <2>5. a \in First .. END - 1
    BY <1>3, <2>1
  <2>6. ChainNext(a) = n /\ n # 0
    BY <2>1, <2>3, <2>4, <2>5 DEF ChainNext
  <2>7. f[a] = {a} \cup From(n)
    BY <1>2, <1>5, <2>1, <2>6
  <2>8. \A x \in C : x \in Nat /\ (x <= a \/ x >= n)
    BY <1>1, <2>3, BlockType DEF Reaches
  <2>9. {a} \cup From(n) = From(a)
    <3>1. n \in Nat /\ n >= a
      BY <2>1, <2>3
    <3>2. \A x \in C : x >= a <=> x = a \/ x >= n
      BY <2>1, <2>8, <3>1
    <3> QED
      BY <3>2
  <2> QED
    BY <2>7, <2>9
<1>6. \A a \in C : f[a] = From(a)
  <2> DEFINE Wrong == {k \in Nat : \E a \in C : k = END - a /\ f[a] # From(a)}
  <2>1. SUFFICES ASSUME Wrong # {} PROVE FALSE
    <3>1. ASSUME NEW a \in C, Wrong = {} PROVE f[a] = From(a)
      <4>1. END - a \in Nat
        BY <1>1, <1>3, BlockType
      <4> QED
        BY <3>1, <4>1
    <3> QED
      BY <3>1
  <2>2. PICK k \in Wrong : \A m \in Wrong : k <= m
    <3>1. Wrong \subseteq Nat
      OBVIOUS
    <3>2. \A T : T \subseteq Nat /\ T # {} => \E k \in T : \A m \in T : k <= m
      BY NatMinimum
    <3> HIDE DEF Wrong
    <3> QED
      BY <2>1, <3>1, <3>2
  <2>3. PICK a \in C : k = END - a /\ f[a] # From(a)
    BY <2>2
  <2>4. a # END
    BY <1>4, <2>3
  <2>5. a \in Nat /\ Leads(C, a)
    BY <1>1, <2>4, BlockType DEF Linked
  <2>6. PICK n \in C : n = a + SizeAt(a) /\ n \in Nat /\ n > a /\ n <= END
    <3>1. SizeAt(a) \in Nat /\ SizeAt(a) >= 2 /\ a + SizeAt(a) \in C /\ a + SizeAt(a) <= END
      BY <1>1, <2>4, <2>5, SizeFits
    <3> QED
      BY <2>5, <3>1
  <2>7. f[n] # From(n)
    BY <1>5, <2>3, <2>4, <2>6
  <2>8. END - n \in Wrong
    BY <1>3, <2>6, <2>7
  <2>9. k <= END - n
    BY <2>2, <2>8
  <2> QED
    BY <1>3, <2>3, <2>5, <2>6, <2>9
<1>7. From(First) = C
  BY <1>1, BlockType
<1> QED
  BY <1>2, <1>3, <1>6, <1>7

-----------------------------------------------------------------------------
(* What the invariant says to a client.                                    *)

\* Of what a client saved and has not freed, only the last bytes are ever lost,
\* as many as a header has, whatever was saved, split, joined and freed since and
\* wherever power failed but between two writes that belong together, until a block
\* of one byte is split.
THEOREM SavedIsKept ==
  ASSUME StoreFits
  PROVE  Spec => []DataKept
<1>1. StoreInv => DataKept
  <2>1. ASSUME NEW C, Formatted(C) PROVE DataKept
    BY <2>1 DEF Formatted, Store, SavedKept, Keeps, DataKept
  <2> QED
    BY <2>1 DEF StoreInv, Unformatted, DataKept
<1> QED
  BY <1>1, StoreInvariant, PTL

\* The chain leads from the first block to the end of the store, and the blocks
\* of the client are on it, in use and large enough, and so is a save's walk; with
\* the exceptions that StoreInvariant names.
THEOREM ChainKept ==
  ASSUME StoreFits
  PROVE  Spec => []ChainIntact
<1>1. ASSUME StoreInv, pc \notin {"boot", "format", "split"}, Sound
      PROVE  /\ First + FirstSize \in Chain
             /\ Max(Chain) = First + FirstSize
             /\ \A s \in saved :
                  /\ s.addr \in Chain
                  /\ ~IsFree(Fetch(s.addr, HEADER))
                  /\ SizeOf(Fetch(s.addr, HEADER)) >= Len(s.data)
             /\ pc = "walk" => cur \in Chain
  <2>1. PICK C : Store(C) /\ Linked(C, C \ {END}) /\ (pc = "walk" => cur \in C)
    BY <1>1 DEF StoreInv, Unformatted, Formatted, Idle, Walking, Committing, Splitting
  <2>2. Chain = C /\ mem \in Memory /\ Chained(C) /\ SavedKept(C)
    BY <2>1, ChainIsLinked DEF Store
  <2>3. First + FirstSize = END /\ END \in C /\ END \in Nat
    BY <2>2, Constants DEF StoreFits, Chained
  <2>4. Max(C) = END
    <3>1. \A x \in C : x \in Nat /\ END >= x
      BY <2>2, <2>3, BlockType
    <3>2. PICK m \in C : m = Max(C) /\ \A x \in C : m >= x
      <4>1. \E m \in C : \A x \in C : m >= x
        BY <2>3, <3>1
      <4> QED
        BY <4>1 DEF Max
    <3> QED
      BY <2>3, <3>1, <3>2
  <2>5. ASSUME NEW s \in saved
        PROVE  /\ s.addr \in C
               /\ ~IsFree(Fetch(s.addr, HEADER))
               /\ SizeOf(Fetch(s.addr, HEADER)) >= Len(s.data)
    <3>1. Keeps(C, s)
      BY <2>2 DEF SavedKept
    <3>2. PICK a \in C \ {END} : a = s.addr
      BY <3>1 DEF Keeps
    <3>3. a \in Nat /\ START <= a /\ a + HEADER <= END
      BY <2>2, BlockType, Constants
    <3>4. SizeOf(Fetch(a, HEADER)) = SizeAt(a) /\ (IsFree(Fetch(a, HEADER)) <=> FreeAt(a))
      BY <2>2, <3>3, ReadBack
    <3> QED
      BY <3>1, <3>2, <3>4 DEF Keeps
  <2> QED
    BY <2>1, <2>2, <2>3, <2>4, <2>5
<1>2. StoreInv => ChainIntact
  BY <1>1 DEF ChainIntact
<1> QED
  BY <1>2, StoreInvariant, PTL

\* A save takes a free block of the chain, and no smaller one is large enough; and
\* it fails only when each that is large enough is as large as the size the search
\* begins with (nvmem.c:91-102).
THEOREM BestFitFound ==
  ASSUME StoreFits
  PROVE  Spec => []BestFitTaken
<1>1. ASSUME NEW C, Store(C), Linked(C, C \ {END}), NEW a \in C \ {END}
      PROVE  /\ SizeOf(Fetch(a, HEADER)) = SizeAt(a) /\ SizeAt(a) \in Nat
             /\ IsFree(Fetch(a, HEADER)) <=> FreeAt(a)
             /\ a \in Chain /\ a < END
  <2>1. mem \in Memory /\ Chained(C) /\ Chain = C
    BY <1>1, ChainIsLinked DEF Store
  <2>2. a \in Nat /\ START <= a /\ a + HEADER <= END /\ a < END
    BY <2>1, BlockType, Constants
  <2> QED
    BY <2>1, <2>2, ReadBack
<1>2. ASSUME NEW C, Store(C), Linked(C, C \ {END}), req \in Datas, NEW z \in Fitting
      PROVE  \E a \in C \ {END} : /\ a < END /\ FreeAt(a) /\ z = SizeAt(a) /\ z \in Nat
                                  /\ z >= AllocSize(Len(req))
  <2>1. Chain = C
    BY <1>2, ChainIsLinked
  <2>2. PICK a \in C : a < END /\ IsFree(Fetch(a, HEADER)) /\ z = SizeOf(Fetch(a, HEADER))
    BY <2>1 DEF Fitting
  <2>3. a \in C \ {END}
    BY <2>2, Constants
  <2>4. z = SizeAt(a) /\ z \in Nat /\ FreeAt(a)
    BY <1>1, <1>2, <2>2, <2>3
  <2>5. z \notin 0 .. AllocSize(Len(req)) - 1
    BY DEF Fitting
  <2>6. PICK s \in Nat : s = AllocSize(Len(req))
    BY <1>2, DataType, AllocHolds
  <2>7. z >= s
    BY <2>4, <2>5, <2>6
  <2> QED
    BY <2>2, <2>3, <2>4, <2>6, <2>7
<1>3. ASSUME StoreInv, Sound, pc = "commit"
      PROVE  /\ best.addr \in Chain /\ IsFree(Fetch(best.addr, HEADER))
             /\ best.size = SizeOf(Fetch(best.addr, HEADER)) /\ best.size \in Fitting
             /\ \A z \in Fitting : best.size <= z
  <2>1. PICK C : Store(C) /\ Committing(C)
    BY <1>3 DEF StoreInv, Unformatted, Formatted, Idle, Walking, Splitting
  <2>2. /\ Linked(C, C \ {END}) /\ req \in Datas /\ BestFits(C) /\ NoneBetter(C, END)
    BY <2>1 DEF Committing
  <2>3. PICK a \in C \ {END} : a = best.addr
    BY <2>2 DEF BestFits
  <2>4. /\ SizeOf(Fetch(a, HEADER)) = SizeAt(a) /\ SizeAt(a) \in Nat
        /\ IsFree(Fetch(a, HEADER)) <=> FreeAt(a)
        /\ a \in Chain /\ a < END
    BY <1>1, <2>1, <2>2
  <2>5. best.size = SizeAt(a) /\ FreeAt(a) /\ best.size >= AllocSize(Len(req))
    BY <2>2, <2>3 DEF BestFits
  <2>6. best.size \notin 0 .. AllocSize(Len(req)) - 1
    <3>1. PICK s \in Nat : s = AllocSize(Len(req))
      BY <2>2, DataType, AllocHolds
    <3> QED
      BY <2>4, <2>5, <3>1
  <2>7. best.size \in Fitting
    BY <2>4, <2>5, <2>6 DEF Fitting
  <2>8. ASSUME NEW z \in Fitting PROVE best.size <= z
    BY <1>2, <2>1, <2>2 DEF NoneBetter
  <2> QED
    BY <2>3, <2>4, <2>5, <2>7, <2>8
<1>4. ASSUME StoreInv, Sound, thrown = "NVMEM_OUT_OF_MEMORY", NEW z \in Fitting
      PROVE  z >= BestSize0
  <2>1. PICK C : Store(C) /\ Idle(C)
    BY <1>4 DEF StoreInv, Unformatted, Formatted, Walking, Committing, Splitting
  <2>2. /\ Linked(C, C \ {END}) /\ req \in Datas
        /\ best.size = BestSize0 /\ NoneBetter(C, END)
    BY <1>4, <2>1 DEF Idle
  <2>3. PICK a \in C \ {END} : /\ a < END /\ FreeAt(a) /\ z = SizeAt(a) /\ z \in Nat
                               /\ z >= AllocSize(Len(req))
    BY <1>2, <2>1, <2>2
  <2>4. BestSize0 <= z
    BY <2>2, <2>3 DEF NoneBetter
  <2> QED
    BY <2>3, <2>4, BestSizeType
<1>5. StoreInv => BestFitTaken
  BY <1>3, <1>4 DEF BestFitTaken
<1> QED
  BY <1>5, StoreInvariant, PTL

\* In a sound store the walk of a save meets no header of size zero, so that it goes
\* on (nvmem.c:99): the part of CallsReturn that is not about fairness.
THEOREM WalkGoesOn ==
  ASSUME StoreFits
  PROVE  Spec => [](Sound => ~Stuck)
<1>1. ASSUME StoreInv, Sound, Stuck PROVE FALSE
  <2>1. PICK C : Store(C) /\ Walking(C)
    BY <1>1 DEF Stuck, StoreInv, Unformatted, Formatted, Idle, Committing, Splitting
  <2>2. PICK a \in C \ {END} : a = cur
    BY <1>1, <2>1, Constants DEF Stuck, Walking
  <2>3. a \in Nat /\ START <= a /\ a + HEADER <= END
    BY <2>1, BlockType, Constants DEF Store
  <2>4. SizeOf(Fetch(a, HEADER)) = SizeAt(a) /\ SizeAt(a) >= 2
    BY <2>1, <2>3, ReadBack DEF Store, Walking, Linked, Leads
  <2>5. SizeAt(a) = 0
    BY <1>1, <2>2, <2>4 DEF Stuck
  <2> QED
    BY <2>4, <2>5
<1>2. StoreInv => (Sound => ~Stuck)
  BY <1>1
<1> QED
  BY <1>2, StoreInvariant, PTL

-----------------------------------------------------------------------------
(* The program's own store.                                                *)

\* A new store has one block, which is not below the size the search begins with:
\* a zero header, where power failed before it was written, or all of the store.
NewStore ==
  /\ mem \in Memory /\ block \in Headers /\ saved = {} /\ best = NoBest
  /\ pc \in {"boot", "format", "idle", "walk"}
  /\ SizeAt(First) = FirstSize \/ (SizeAt(First) = 0 /\ ~FreeAt(First))
  /\ pc = "walk" => cur \in {First, END}

\* Where the first block is as large as the size the search begins with, as it is in
\* the program (255 and 24760), nothing is ever saved: each save ends out of memory,
\* or never, in a store that is all free (nvmem.c:91).
THEOREM NothingSaved ==
  ASSUME StoreFits, BestSize0 <= FirstSize
  PROVE  Spec => [](saved = {})
<1>1. Init => NewStore
  <2>1. SUFFICES ASSUME Init PROVE NewStore
    OBVIOUS
  <2>2. mem \in Memory /\ block \in Headers
    BY <2>1 DEF Init, Memory, Byte, Blank, Headers
  <2>3. First \in START .. END - 1 /\ First + 1 \in START .. END - 1
    BY Constants
  <2>4. mem[First] = 0 /\ mem[First + 1] = 0
    BY <2>1, <2>3 DEF Init
  <2>5. SizeAt(First) = 0 /\ ~FreeAt(First)
    BY <2>4 DEF SizeAt, FreeAt
  <2> QED
    BY <2>1, <2>2, <2>5 DEF Init, NewStore
<1>2. ASSUME NewStore, [Next]_vars PROVE NewStore'
  <2>1. /\ mem \in Memory /\ First \in Nat /\ START <= First /\ First + HEADER <= END
        /\ First # 0 /\ START \in Nat /\ END \in Nat /\ First < END
    BY <1>2, Constants DEF NewStore
  <2>2. ASSUME UNCHANGED mem
        PROVE  /\ mem' \in Memory
               /\ (SizeAt(First) = FirstSize \/ (SizeAt(First) = 0 /\ ~FreeAt(First)))'
    BY <1>2, <2>1, <2>2 DEF NewStore, SizeAt, FreeAt, First, FirstSize, Memory, Byte
  <2>3. Blank \in Headers
    BY DEF Blank, Headers, Byte
  <2>4. CASE Boot
    <3>1. CASE UNCHANGED mem
      BY <1>2, <2>2, <2>4, <3>1 DEF Boot, NewStore, call, Headers, Byte, NoBest, BestSize0
    <3>2. CASE nvmem_set(START, Magic) /\ pc' = "format"
      <4>1. MAGIC \in Nat /\ START + MAGIC = First /\ Magic \in [1 .. MAGIC -> Byte]
        BY Constants DEF Magic, Byte
      <4>2. /\ mem' \in Memory
            /\ \A x \in START .. END - 1 : x >= First => mem'[x] = mem[x]
        BY <2>1, <3>2, <4>1, WriteBytes
      <4>3. First \in START .. END - 1 /\ First + 1 \in START .. END - 1
        BY Constants
      <4>4. mem'[First] = mem[First] /\ mem'[First + 1] = mem[First + 1]
        BY <2>1, <4>2, <4>3
      <4>5. SizeAt(First)' = SizeAt(First) /\ (FreeAt(First)' <=> FreeAt(First))
        BY <4>4 DEF SizeAt, FreeAt, First
      <4> QED
        BY <1>2, <2>4, <3>2, <4>2, <4>5
        DEF Boot, NewStore, call, Memory, Headers, Byte, NoBest, BestSize0, FirstSize
    <3> QED
      BY <2>4, <3>1, <3>2 DEF Boot
  <2>5. CASE Format
    <3>1. FirstSize \in Sizes /\ 1 \in Bit
      BY Constants DEF StoreFits, Sizes, Bit
    <3>2. mem' \in Memory /\ SizeAt(First)' = FirstSize
      BY <2>1, <2>3, <2>5, <3>1, WriteHeader DEF Format
    <3>3. (mem \in Memory)' /\ (SizeAt(First) = FirstSize)'
      BY <3>2 DEF Memory, Byte, FirstSize
    <3>4. pc' = "idle" /\ UNCHANGED <<block, best, saved>>
      BY <2>5 DEF Format, call
    <3> QED
      BY <1>2, <3>3, <3>4 DEF NewStore, Headers, Byte, NoBest, BestSize0
  <2>6. CASE Walk
    <3>1. cur = First /\ pc = "walk"
      BY <1>2, <2>1, <2>6 DEF Walk, NewStore
    <3>2. PICK b \in Headers : b = Fetch(First, HEADER)
      BY <2>1, ReadBack
    <3>3. CanFetch(First, HEADER) /\ SizeOf(b) = SizeAt(First) /\ (IsFree(b) <=> FreeAt(First))
      BY <2>1, <3>2, ReadBack
    <3>4. FirstSize \in Int /\ First + FirstSize = END
      BY Constants DEF StoreFits
    <3>5. ~ (Fits(b, AllocSize(Len(req))) /\ best.size > SizeOf(b))
      <4>1. best.size = BestSize0
        BY <1>2 DEF NewStore, NoBest
      <4>2. CASE SizeAt(First) = FirstSize
        BY <3>3, <3>4, <4>1, <4>2, BestSizeType
      <4>3. CASE ~FreeAt(First)
        BY <3>3, <4>3 DEF Fits
      <4> QED
        BY <1>2, <4>2, <4>3 DEF NewStore
    <3>6. /\ block' = b /\ best' = best /\ cur' = First + SizeAt(First) /\ pc' = pc
          /\ UNCHANGED <<mem, saved>>
      BY <2>6, <3>1, <3>2, <3>3, <3>5 DEF Walk, Better, Stride
    <3>7. cur' \in {First, END}
      BY <1>2, <2>1, <3>4, <3>6 DEF NewStore
    <3> QED
      BY <1>2, <2>2, <3>6, <3>7 DEF NewStore, Headers, Byte, NoBest, BestSize0, First
  <2>7. CASE WriteData
    <3>1. /\ pc' = "idle" /\ block' = Blank /\ best' = NoBest /\ UNCHANGED <<mem, saved>>
      BY <1>2, <2>7 DEF WriteData, NewStore, NoBest, Leave
    <3> QED
      BY <1>2, <2>2, <2>3, <3>1 DEF NewStore, Headers, Byte, NoBest, BestSize0
  <2>8. CASE Commit \/ Split
    BY <1>2, <2>8 DEF NewStore, Commit, Split
  <2>9. ASSUME NEW n \in Lens, NEW x \in Fills, Save([i \in 1 .. n |-> x]) PROVE NewStore'
    BY <1>2, <2>2, <2>9 DEF NewStore, Save, Headers, Byte, NoBest, BestSize0, First
  <2>10. ASSUME NEW s \in saved, Free(s) PROVE NewStore'
    BY <1>2, <2>10 DEF NewStore
  <2>11. CASE Crash
    BY <1>2, <2>2, <2>3, <2>11 DEF NewStore, Crash, Headers, Byte, NoBest, BestSize0
  <2>12. CASE UNCHANGED vars
    BY <1>2, <2>2, <2>12 DEF NewStore, vars, call, Headers, Byte, NoBest, BestSize0, First
  <2> QED
    BY <1>2, <2>4, <2>5, <2>6, <2>7, <2>8, <2>9, <2>10, <2>11, <2>12 DEF Next, Work
<1>3. NewStore => saved = {}
  BY DEF NewStore
<1> QED
  BY <1>1, <1>2, <1>3, PTL DEF Spec

=============================================================================
