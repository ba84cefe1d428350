---------------------------- MODULE Multistring ----------------------------
(***************************************************************************)
(* The string of list.c that grows a character at a time: a list of        *)
(* buffers of equal size, of which the last is filled up first.  A reader  *)
(* goes through it with ms_iterchar while a writer adds to it.             *)
(***************************************************************************)
EXTENDS Integers, Sequences, SequencesExt, FiniteSetsExt

CONSTANTS
  Chars,    \* the characters, as numbers
  BUFSIZE,  \* MULTISTRING_BUFSIZE
  MaxLen    \* bound of the model: the length of the string

VARIABLES
  stringbufs,  \* the buffers of the list, in order
  totallen, bufpos,
  char_index, buf,  \* the reader's two variables: a count, and a buffer's place
  text,   \* what was written
  got     \* what the reader was given since it began

ms == <<stringbufs, totallen, bufpos>>
reader == <<char_index, buf, got>>
msvars == <<ms, reader, text>>

\* What is in a buffer that was not written to: the arena's old bytes, of
\* which the model knows no more than that they are no character of a text.
Garbage == -2

NoBuf == 0

\* list_append and the write are one call; where the arena has no room it
\* throws before either.
ms_writechar(ch) ==
  LET fresh == bufpos = BUFSIZE
      bufs == IF fresh THEN Append(stringbufs, [i \in 0 .. BUFSIZE - 1 |-> Garbage])
              ELSE stringbufs
      pos == IF fresh THEN 0 ELSE bufpos
  IN /\ totallen < MaxLen
     /\ stringbufs' = [bufs EXCEPT ![Len(bufs)][pos] = ch]
     /\ bufpos' = pos + 1
     /\ totallen' = totallen + 1
     /\ text' = Append(text, ch)
     /\ UNCHANGED reader

\* Fault: the next buffer is gone to when the last one was read, there or not.
TurnsPageEarly(index) == index % BUFSIZE = BUFSIZE - 1

TurnsPage(index) == index % BUFSIZE = 0

\* At the end of what was written so far the reader gets -1, and is told no
\* more until more is written.
ms_iterchar ==
  /\ char_index < totallen
  /\ LET first == buf = NoBuf
         at == IF first THEN 1 ELSE IF TurnsPage(char_index) THEN buf + 1 ELSE buf
         pos == IF first THEN 0 ELSE char_index % BUFSIZE
     IN /\ buf' = at
        /\ char_index' = (IF first THEN 0 ELSE char_index) + 1
        /\ got' = Append(got, IF at \in DOMAIN stringbufs THEN stringbufs[at][pos]
                              ELSE Garbage)
  /\ UNCHANGED <<ms, text>>

MsInit ==
  /\ stringbufs = <<>> /\ totallen = 0 /\ bufpos = BUFSIZE
  /\ char_index = 0 /\ buf = NoBuf
  /\ text = <<>> /\ got = <<>>

MsNext == (\E ch \in Chars : ms_writechar(ch)) \/ ms_iterchar

MsSpec == MsInit /\ [][MsNext]_msvars

-----------------------------------------------------------------------------
(* The functions that only read.                                           *)

InBuf(i) == stringbufs[(i \div BUFSIZE) + 1][i % BUFSIZE]

\* How many characters ms_assemble copies from a buffer, to place pos on.
Copied(pos) == Min({BUFSIZE, totallen - pos})

ms_assemble ==
  LET from[itr \in 1 .. Len(stringbufs) + 1] ==
        [pos \in 0 .. totallen |->
           IF itr > Len(stringbufs) THEN <<>>
           ELSE [i \in 1 .. Copied(pos) |-> stringbufs[itr][i - 1]]
                  \o from[itr + 1][pos + Copied(pos)]]
  IN from[1][0]

\* The characters ms_hash passes to the hash function, a buffer at a time.  It
\* goes by the length alone: where no buffer is left it would read through NULL.
Hashed ==
  LET from[itr \in 1 .. Len(stringbufs) + 1] ==
        [len \in 0 .. totallen |->
           IF len = 0 THEN <<>>
           ELSE IF itr > Len(stringbufs) THEN <<Garbage>>
           ELSE LET buflen == Min({len, BUFSIZE}) IN
                [i \in 1 .. buflen |-> stringbufs[itr][i - 1]] \o from[itr + 1][len - buflen]]
  IN from[1][totallen]

Sign(i) == IF i < 0 THEN -1 ELSE IF i > 0 THEN 1 ELSE 0

\* ms_strncmp(ms, strb, n): a buffer's loop ends after n characters, or after
\* BUFSIZE.  The first way leaves n at -1, which the next buffer's does not
\* end at, so every character of the buffers after it is compared.
ComparedWith(n) ==
  LET nodes == Len(stringbufs)
      stop == (n \div BUFSIZE) + 1    \* the buffer in whose loop n ends it
  IN IF stop >= nodes THEN 0 .. Min({n, nodes * BUFSIZE}) - 1
     ELSE (0 .. n - 1) \cup (n .. n + (nodes - stop) * BUFSIZE - 1)

\* Fault: n is taken for a buffer's place, not the string's.
FacingFromStart(n, i) == InBuf(i % BUFSIZE)

\* The character that place i of strb is compared with.
Facing(n, i) ==
  LET stop == (n \div BUFSIZE) + 1 IN
  IF i < n THEN InBuf(i) ELSE InBuf(stop * BUFSIZE + i - n)

ms_strncmp(strb, n) ==
  LET differ == {i \in ComparedWith(n) : Facing(n, i) # strb[i + 1]} IN
  IF differ = {} THEN 0 ELSE Sign(Facing(n, Min(differ)) - strb[Min(differ) + 1])

-----------------------------------------------------------------------------
\* The reader gets the characters in the order they were written, none
\* twice and none that was not, however its calls and the writer's fall.
ReadsInOrder == got = SubSeq(text, 1, Len(got)) /\ Len(got) = char_index

\* The functions that take the string as one piece see what was written: the
\* one that puts it together, the one that hashes it buffer by buffer, and a
\* comparison of n characters that ends in the last buffer.  (One that ends
\* before it goes on into the buffers after it.)
TextAsOnePiece ==
  /\ ms_assemble = text /\ Hashed = text
  /\ \A n \in 1 .. totallen : \A strb \in [1 .. n -> Chars] :
       n > (Len(stringbufs) - 1) * BUFSIZE =>
         LET differ == {i \in 1 .. n : text[i] # strb[i]} IN
         ms_strncmp(strb, n)
           = IF differ = {} THEN 0 ELSE Sign(text[Min(differ)] - strb[Min(differ)])

=============================================================================
