----------------------------- MODULE ReplProofs -----------------------------
(***************************************************************************)
(* The order of the read-eval-print loop, proved for every input, every    *)
(* arena and every size of the structs: no character is asked for between  *)
(* the end of a line and the prompt that answers it.                       *)
(***************************************************************************)
EXTENDS Repl, TLAPS

\* The reader is in reader_read.
Reads ==
  pc \in {"comment", "cell_comment", "next_non_ws", "next_cell",
          "symbol_context", "integer_context"}

\* As long as the end of a line is not answered, one of these keeps main from
\* the next character: the input is over; an error has to be recovered from;
\* the next call of mygetc answers -1; main is at the prompt; or main is done
\* with the line, shows what is missing and reads on no more.
PromptInv ==
  /\ pos \in Nat
  /\ ~answered =>
       \/ is_done
       \/ pc = "thrown"
       \/ Pauses
       \/ AtPrompt
       \/ LineEnds /\ pc \in {"idle", "put_missing"}

-----------------------------------------------------------------------------
(* The reader's steps and the stream.                                      *)

\* A character comes from the stream only when none was put back, and then
\* the stream has moved.
LEMMA TakeMoves ==
  ASSUME pos \in Nat, NEW c, NEW back, Take(c, back)
  PROVE  /\ pos' \in Nat
         /\ unget # <<>> => pos' = pos
         /\ unget = <<>> => pos' # pos
<1>1. pos + 1 \in Nat /\ pos + 1 # pos
  OBVIOUS
<1> QED
  BY <1>1 DEF Take

\* The reader stalls by a return, or by the error of an unlucky padding bit.
LEMMA NoCellStops ==
  ASSUME NoCell
  PROVE  pc' \in {"idle", "thrown"}
  BY DEF NoCell, Return, Throw

\* What one step of reader_read does to the stream and to the control.
Reading ==
  \/ pos' = pos /\ pc' \in {"idle", "thrown"}
  \/ \E c, back : Take(c, back)

\* A step in a comment.
LEMMA CommentReads ==
  ASSUME Comment
  PROVE  Reads /\ Reading
<1>1. CASE /\ IF pc = "comment" THEN Return("read", FALSE) ELSE NoCell
           /\ UNCHANGED stream
  BY <1>1, NoCellStops DEF Comment, Return, stream, Reads, Reading
<1>2. CASE \E c \in Getc : Take(c, <<>>)
  BY <1>2 DEF Comment, Reads, Reading
<1> QED
  BY <1>1, <1>2 DEF Comment

\* A step in white space.
LEMMA NextNonWsReads ==
  ASSUME NextNonWs
  PROVE  Reads /\ Reading
<1>1. CASE NoCell /\ UNCHANGED stream
  BY <1>1, NoCellStops DEF NextNonWs, stream, Reads, Reading
<1>2. CASE \E c \in Getc : Take(c, <<>>) \/ Take(c, <<c>>)
  BY <1>2 DEF NextNonWs, Reads, Reading
<1> QED
  BY <1>1, <1>2 DEF NextNonWs

\* A step at the beginning of a cell.
LEMMA NextCellReads ==
  ASSUME NextCell
  PROVE  Reads /\ Reading
<1>1. CASE /\ IF Len(chars_read) <= UngetLimit
                THEN NoCell ELSE Throw("READER_STATE_ERROR")
           /\ pos' = pos
  BY <1>1, NoCellStops DEF NextCell, Throw, Reads, Reading
<1>2. CASE \E c \in Getc : NextCellChar(c)
  <2>1. PICK c \in Getc : NextCellChar(c)
    BY <1>2
  <2>2. Take(c, <<>>) \/ Take(c, <<c>>) \/ Take(c, Bare(c))
    BY <2>1 DEF NextCellChar, EnterWith, EnterBare
  <2> QED
    BY <2>2 DEF NextCell, Reads, Reading
<1>3. CASE \E c \in Getc : Take(c, <<>>)
  BY <1>3 DEF NextCell, Reads, Reading
<1> QED
  BY <1>1, <1>2, <1>3 DEF NextCell

\* A step in a symbol.
LEMMA SymbolContextReads ==
  ASSUME SymbolContext
  PROVE  Reads /\ Reading
<1>1. CASE Return("read", FALSE) /\ UNCHANGED stream
  BY <1>1 DEF SymbolContext, Return, stream, Reads, Reading
<1>2. CASE \E c \in Getc : Take(c, <<>>) \/ Take(c, <<c>>)
  BY <1>2 DEF SymbolContext, Reads, Reading
<1> QED
  BY <1>1, <1>2 DEF SymbolContext, SymbolChar

\* A step in an integer.
LEMMA IntegerContextReads ==
  ASSUME IntegerContext
  PROVE  Reads /\ Reading
<1>1. CASE Return("read", FALSE) /\ UNCHANGED stream
  BY <1>1 DEF IntegerContext, Return, stream, Reads, Reading
<1>2. CASE \E c \in Getc : Take(c, <<>>) \/ Take(c, <<c>>)
  BY <1>2 DEF IntegerContext, Reads, Reading
<1> QED
  BY <1>1, <1>2 DEF IntegerContext, IntegerChar

\* put_missing asks for nothing, and with main's putc it goes through to its
\* end, or throws.
LEMMA PutWorks ==
  ASSUME Putc \/ PutDone, myputc
  PROVE  /\ pc = "put_missing" /\ pos' = pos /\ ~Reads
         /\ pc' \in {"idle", "put_missing", "thrown"}
         /\ pc' = "idle" => result' = <<"put", TRUE>>
<1>1. pc = "put_missing" /\ pos' = pos /\ ~Reads
  BY DEF Putc, PutDone, stream, Reads
<1>2. result' # <<"put", FALSE>>
  BY <1>1 DEF myputc
<1>3. CASE Putc
  BY <1>1, <1>2, <1>3 DEF Putc, Return, Go
<1>4. CASE PutDone
  BY <1>1, <1>4 DEF PutDone, Return, Throw
<1> QED
  BY <1>1, <1>3, <1>4

\* put_missing, from the call to the first character.
LEMMA PutMissingWorks ==
  ASSUME PutMissing
  PROVE  /\ pos' = pos
         /\ pc' \in {"idle", "put_missing", "thrown"}
         /\ pc' = "idle" => result' = <<"put", TRUE>>
  BY DEF PutMissing, Return, stream

-----------------------------------------------------------------------------
(* Each step keeps the invariant.                                          *)

\* A step of reader_read, with what mygetc has of it.
LEMMA ReadingStep ==
  ASSUME PromptInv, Reads, Reading, mygetc
  PROVE  PromptInv' /\ (Delivers => answered)
<1>0. /\ pos \in Nat /\ pc \notin {"idle", "put_missing", "thrown"}
      /\ ~answered => is_done \/ Pauses
  BY DEF PromptInv, Reads, AtPrompt
<1>1. CASE unget # <<>>
  <2>1. pos' = pos
    BY <1>0, <1>1, TakeMoves DEF Reading
  <2>2. UNCHANGED input
    BY <1>1 DEF mygetc, AsksStream
  <2> QED
    BY <1>0, <2>1, <2>2 DEF PromptInv, input, Delivers, Pauses
<1>2. CASE unget = <<>> /\ pos' = pos
  <2>1. pc' \in {"idle", "thrown"}
    BY <1>0, <1>2, TakeMoves DEF Reading
  <2>2. AsksStream /\ ~Delivers
    BY <1>2 DEF AsksStream, Reads, Delivers
  <2>3. CASE Pauses
    <3>1. last_char' = "\n"
      BY <2>2, <2>3 DEF mygetc, Pauses
    <3> QED
      BY <1>0, <1>2, <2>1, <2>2, <3>1 DEF PromptInv, LineEnds
  <2>4. CASE ~Pauses
    <3>1. is_done'
      BY <2>2, <2>4 DEF mygetc
    <3> QED
      BY <1>0, <1>2, <2>2, <3>1 DEF PromptInv
  <2> QED
    BY <2>3, <2>4
<1>3. CASE unget = <<>> /\ pos' # pos
  <2>1. pos' \in Nat
    BY <1>0, <1>3, TakeMoves DEF Reading
  <2>2. AsksStream /\ Delivers
    BY <1>3 DEF AsksStream, Reads, Delivers
  <2>3. /\ ~Pauses /\ ~is_done /\ is_paused' = FALSE
        /\ answered' = (last_char' # "\n")
    BY <2>2 DEF mygetc
  <2>4. ~answered' => Pauses'
    BY <2>3 DEF Pauses
  <2> QED
    BY <1>0, <2>1, <2>3, <2>4 DEF PromptInv
<1> QED
  BY <1>1, <1>2, <1>3

\* The reader takes a character from the stream only when the line before it is answered.
LEMMA ReaderWorksStep ==
  ASSUME PromptInv, ReaderWorks
  PROVE  PromptInv' /\ (Delivers => answered)
<1>1. CASE Reads /\ Reading
  BY <1>1, ReadingStep DEF ReaderWorks
<1>2. CASE Putc \/ PutDone
  <2>1. /\ pc = "put_missing" /\ pos' = pos /\ ~Reads
        /\ pc' \in {"idle", "put_missing", "thrown"}
        /\ pc' = "idle" => result' = <<"put", TRUE>>
    BY <1>2, PutWorks DEF ReaderWorks
  <2>2. UNCHANGED input
    BY <2>1 DEF ReaderWorks, mygetc, AsksStream, Reads
  <2>3. ~answered => is_done \/ Pauses \/ LineEnds
    BY <2>1 DEF PromptInv, AtPrompt
  <2> QED
    BY <2>1, <2>2, <2>3 DEF PromptInv, input, Pauses, LineEnds, AtPrompt, ReadFailed,
       Delivers
<1> QED
  BY <1>1, <1>2, CommentReads, NextNonWsReads, NextCellReads, SymbolContextReads,
     IntegerContextReads DEF ReaderWorks, Work

\* main prompts and reads.
LEMMA PromptStep ==
  ASSUME PromptInv, Prompt
  PROVE  PromptInv' /\ ~Delivers
  BY DEF PromptInv, Prompt, Read, stream, Delivers

\* Main does not read on at the end of a line.
LEMMA ReadOnStep ==
  ASSUME PromptInv, ReadOn
  PROVE  PromptInv' /\ ~Delivers
<1>1. pc = "idle" /\ ReadFailed /\ ~LineEnds /\ pos' = pos /\ UNCHANGED input
  BY DEF ReadOn, Read, stream
<1>2. ~answered => is_done
  BY <1>1 DEF PromptInv, Pauses, LineEnds, AtPrompt
<1> QED
  BY <1>1, <1>2 DEF PromptInv, input, Delivers

\* main shows what is missing.
LEMMA ShowMissingStep ==
  ASSUME PromptInv, ShowMissing
  PROVE  PromptInv' /\ ~Delivers
<1>1. LineEnds /\ UNCHANGED input
  BY DEF ShowMissing
<1>2. pos' = pos /\ pc' \in {"idle", "put_missing", "thrown"}
  BY PutMissingWorks DEF ShowMissing
<1> QED
  BY <1>1, <1>2 DEF PromptInv, input, LineEnds, Delivers

\* main recovers from an error.
LEMMA RestartStep ==
  ASSUME PromptInv, Restart
  PROVE  PromptInv' /\ ~Delivers
<1>1. /\ pos' = pos /\ pc = "thrown"
      /\ pc' = "thrown" \/ (pc' = "idle" /\ result' = <<"none", TRUE>>)
  BY DEF Restart, Recover
<1>2. pc' = "idle" => AtPrompt'
  <2>1. <<"none", TRUE>> # <<"read", FALSE>>
    OBVIOUS
  <2> QED
    BY <1>1, <2>1 DEF AtPrompt, ReadFailed
<1> QED
  BY <1>1, <1>2 DEF PromptInv, Delivers

\* Nothing happens.
LEMMA StutterStep ==
  ASSUME PromptInv, UNCHANGED all
  PROVE  PromptInv' /\ ~Delivers
<1>1. UNCHANGED <<pos, pc, result>> /\ UNCHANGED input
  BY DEF all, vars, stream
<1> QED
  BY <1>1 DEF PromptInv, input, Pauses, AtPrompt, ReadFailed, LineEnds, Delivers

\* Whatever is typed, and whatever goes wrong in the middle of a line, main
\* prompts before it waits for the next line.
THEOREM PromptedFirst == ReplSpec => PromptFirst
<1>1. ReplInit => PromptInv
  <2> SUFFICES ASSUME ReplInit PROVE PromptInv
    OBVIOUS
  <2>1. answered
    BY DEF ReplInit
  <2>2. pos = 0
    BY DEF ReplInit, InitOn
  <2> QED
    BY <2>1, <2>2 DEF PromptInv
<1>2. PromptInv /\ [ReplNext]_all => PromptInv'
  BY PromptStep, ReadOnStep, ShowMissingStep, ReaderWorksStep, RestartStep, StutterStep
     DEF ReplNext
<1>3. PromptInv /\ [ReplNext]_all => [Delivers => answered]_all
  BY PromptStep, ReadOnStep, ShowMissingStep, ReaderWorksStep, RestartStep, StutterStep
     DEF ReplNext
<1> QED
  BY <1>1, <1>2, <1>3, PTL DEF ReplSpec, PromptFirst

=============================================================================
