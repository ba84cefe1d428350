-------------------------------- MODULE Repl --------------------------------
(***************************************************************************)
(* The read-eval-print loop of READER_MAIN in reader.c, without the eval   *)
(* that is still to come: the Reader, driven by a main that prompts, reads *)
(* until the list at the prompt is closed or the line ends, and then has   *)
(* reader_put_missing show what is still to be closed; and its mygetc,     *)
(* which turns the end of a line and the end of the input into the -1 that *)
(* makes the reader return.  The reader's own steps are those of Reader.   *)
(***************************************************************************)
EXTENDS Reader

VARIABLES
  is_done,    \* INPUT_STREAM.is_done: the input has ended
  last_char,  \* INPUT_STREAM.last_char
  is_paused,  \* INPUT_STREAM.is_paused
  answered    \* has main prompted since the last line ended?

input == <<is_done, last_char, is_paused, answered>>
all   == <<vars, input>>

EOF == "EOF"

-----------------------------------------------------------------------------
(* mygetc.                                                                 *)

\* Fault: the end of a line is not told from any other character.
PausesNever == FALSE

\* The call after the one that gave the end of a line answers -1.
Pauses == ~is_paused /\ last_char = "\n"

AsksStream ==
  /\ pc \in {"comment", "cell_comment", "next_non_ws", "next_cell",
             "symbol_context", "integer_context"}
  /\ unget = <<>>

Delivers == pos' # pos

\* What a step of the reader that asks for a character finds in the stream.
\* A character is typed at any time, the input ends at any time and for good.
mygetc ==
  IF ~AsksStream THEN UNCHANGED input
  ELSE IF Delivers
    THEN /\ ~Pauses /\ ~is_done
         /\ last_char' = Last(text')
         /\ is_paused' = FALSE
         /\ answered' = (last_char' # "\n")
         /\ UNCHANGED is_done
  ELSE IF Pauses
    THEN is_paused' = TRUE /\ UNCHANGED <<is_done, last_char, answered>>
  ELSE /\ is_done' = TRUE
       /\ last_char' = EOF
       /\ is_paused' = FALSE
       /\ UNCHANGED answered

-----------------------------------------------------------------------------
(* main.                                                                   *)

ReadFailed == result = <<"read", FALSE>>

\* Fault: main reads on at the end of a line.
LineEndsNever == FALSE

LineEnds == last_char = "\n"

\* The head of the loop, where main prompts or is through.
AtPrompt == pc = "idle" /\ ~ReadFailed

Ended == AtPrompt /\ is_done

Prompt ==
  /\ AtPrompt /\ ~is_done
  /\ Read
  /\ answered' = TRUE
  /\ UNCHANGED <<is_done, last_char, is_paused>>

\* The read that returned FALSE is repeated, also where the input has ended.
ReadOn ==
  /\ pc = "idle" /\ ReadFailed /\ ~LineEnds
  /\ Read
  /\ UNCHANGED input

ShowMissing ==
  /\ pc = "idle" /\ ReadFailed /\ LineEnds
  /\ PutMissing
  /\ UNCHANGED input

\* myputc takes every character.
myputc == pc = "put_missing" => result' # <<"put", FALSE>>

ReaderWorks ==
  /\ Work
  /\ myputc
  /\ mygetc

\* The setjmp in main: the streams start over, but for the end of the input.
Restart ==
  /\ Recover
  /\ is_paused' = TRUE
  /\ last_char' = " "
  /\ UNCHANGED <<is_done, answered>>

\* main calls reader_init for the reader that reader_new has made: the root
\* context that reader_new made is lost under the one in use.
ReplInit ==
  /\ InitOn(new_reader_context(HostArena, "AST_LIST", "AST_NOPREFIX").bs)
  /\ is_done = FALSE /\ last_char = " " /\ is_paused = TRUE /\ answered = TRUE

ReplNext == Prompt \/ ReadOn \/ ShowMissing \/ ReaderWorks \/ Restart

ReplSpec == ReplInit /\ [][ReplNext]_all

\* getchar waits for someone to type, or to end the input.
Waits == AsksStream /\ ~Pauses /\ ~is_done

\* The program runs on but where it waits; nobody has to type.
RunsOn == ~Waits /\ ReplNext

FairReplSpec == ReplSpec /\ WF_all(RunsOn)

-----------------------------------------------------------------------------
\* Main never waits for the next line before it has prompted for it: neither
\* the reader's look ahead, nor an open list or string, nor a comment, nor an
\* error in the middle of the line makes it ask for a character too many.
PromptFirst == [][Delivers => answered]_all

\* A line is answered with a prompt, however it ends, without another
\* character being typed.
LineAnswered == ~answered ~> answered \/ Exhausted

\* When the input ends at the root main returns.  (With a list, a string or a
\* comment open it reads on for ever, and this does not claim otherwise.)
EndsWithInput ==
  is_done /\ Len(open) = 1 /\ ~in_comment ~> Ended \/ Exhausted

=============================================================================
