---------------------------- MODULE ReaderProofs ----------------------------
(***************************************************************************)
(* The reader, proved for every text, every script of the host's getc and  *)
(* putc, every size of the structs and every arena.                        *)
(*                                                                         *)
(* StreamInv: what was put back, and the characters that a function holds  *)
(* in its locals where it pauses, are the end of the text read so far.     *)
(* CloseInv: the contexts are a chain that begins with a list, and while   *)
(* put_missing is not done, what it has written and what its frames have   *)
(* still to write are together the closers of that chain.                  *)
(* Neither needs to know where in the arena a context or a cell lies.      *)
(***************************************************************************)
EXTENDS Reader, SequenceTheorems, TLAPS

-----------------------------------------------------------------------------
(* Sequences read backward.                                                *)

\* Reverse, element by element.
LEMMA ReverseIsSeq ==
  ASSUME NEW S, NEW s \in Seq(S)
  PROVE  /\ Reverse(s) \in Seq(S) /\ Len(Reverse(s)) = Len(s)
         /\ \A i \in 1 .. Len(s) : Reverse(s)[i] = s[(Len(s) - i) + 1]
<1>1. PICK n \in Nat : n = Len(s)
  OBVIOUS
<1>2. \A i \in 1 .. n : s[(n - i) + 1] \in S
  BY <1>1
<1>3. Reverse(s) \in [1 .. n -> S]
  BY <1>1, <1>2 DEF Reverse
<1>4. Reverse(s) \in Seq(S) /\ Len(Reverse(s)) = n
  BY <1>3
<1>5. \A i \in 1 .. Len(s) : Reverse(s)[i] = s[(Len(s) - i) + 1]
  BY DEF Reverse
<1> QED
  BY <1>1, <1>4, <1>5

\* Reversing twice changes nothing.
LEMMA ReverseReverse ==
  ASSUME NEW S, NEW s \in Seq(S)
  PROVE  Reverse(Reverse(s)) = s
<1>1. PICK n \in Nat : n = Len(s)
  OBVIOUS
<1>2. PICK r \in Seq(S) : r = Reverse(s) /\ Len(r) = n
  BY <1>1, ReverseIsSeq
<1>3. \A i \in 1 .. n : r[i] = s[(n - i) + 1]
  BY <1>1, <1>2, ReverseIsSeq
<1>4. PICK q \in Seq(S) : q = Reverse(r) /\ Len(q) = n
  BY <1>2, ReverseIsSeq
<1>5. \A i \in 1 .. n : q[i] = r[(n - i) + 1]
  BY <1>2, <1>4, ReverseIsSeq
<1>6. ASSUME NEW i \in 1 .. n PROVE q[i] = s[i]
  <2>1. (n - i) + 1 \in 1 .. n /\ (n - ((n - i) + 1)) + 1 = i
    OBVIOUS
  <2> QED
    BY <1>3, <1>5, <2>1
<1> QED
  BY <1>1, <1>2, <1>4, <1>6, SeqEqual

\* The reverse of a concatenation.
LEMMA ReverseConcat ==
  ASSUME NEW S, NEW s \in Seq(S), NEW t \in Seq(S)
  PROVE  Reverse(s \o t) = Reverse(t) \o Reverse(s)
<1>1. PICK m \in Nat : m = Len(s)
  OBVIOUS
<1>2. PICK n \in Nat : n = Len(t)
  OBVIOUS
<1>3. PICK c \in Seq(S) : c = s \o t
  BY ConcatProperties
<1>4. Len(c) = m + n /\ \A i \in 1 .. m + n : c[i] = IF i <= m THEN s[i] ELSE t[i - m]
  BY <1>1, <1>2, <1>3, ConcatProperties
<1>5. PICK a \in Seq(S) : a = Reverse(c) /\ Len(a) = m + n
  BY <1>3, <1>4, ReverseIsSeq
<1>6. \A i \in 1 .. m + n : a[i] = c[(m + n - i) + 1]
  BY <1>4, <1>5 DEF Reverse
<1>7. PICK p \in Seq(S) : p = Reverse(s) /\ Len(p) = m
  BY <1>1, ReverseIsSeq
<1>8. \A i \in 1 .. m : p[i] = s[(m - i) + 1]
  BY <1>1, <1>7 DEF Reverse
<1>9. PICK q \in Seq(S) : q = Reverse(t) /\ Len(q) = n
  BY <1>2, ReverseIsSeq
<1>10. \A i \in 1 .. n : q[i] = t[(n - i) + 1]
  BY <1>2, <1>9 DEF Reverse
<1>11. PICK b \in Seq(S) : b = q \o p
  BY ConcatProperties
<1>12. Len(b) = n + m /\ \A i \in 1 .. n + m : b[i] = IF i <= n THEN q[i] ELSE p[i - n]
  <2>1. Len(q) = n /\ Len(p) = m
    BY <1>7, <1>9
  <2>2. /\ Len(q \o p) = n + m
        /\ \A i \in 1 .. n + m : (q \o p)[i] = IF i <= n THEN q[i] ELSE p[i - n]
    BY <2>1, ConcatProperties
  <2> QED
    BY <1>11, <2>2
<1>13. ASSUME NEW i \in 1 .. m + n PROVE a[i] = b[i]
  <2>1. CASE i <= n
    <3>1. /\ (m + n - i) + 1 \in 1 .. m + n /\ ~((m + n - i) + 1 <= m)
          /\ ((m + n - i) + 1) - m = (n - i) + 1 /\ i \in 1 .. n /\ i \in 1 .. n + m
      BY <2>1
    <3>2. a[i] = t[(n - i) + 1]
      BY <1>4, <1>6, <3>1
    <3>3. b[i] = t[(n - i) + 1]
      BY <1>10, <1>12, <2>1, <3>1
    <3> QED
      BY <3>2, <3>3
  <2>2. CASE ~(i <= n)
    <3>1. /\ (m + n - i) + 1 \in 1 .. m + n /\ (m + n - i) + 1 <= m
          /\ (m - (i - n)) + 1 = (m + n - i) + 1 /\ i - n \in 1 .. m /\ i \in 1 .. n + m
      BY <2>2
    <3>2. a[i] = s[(m + n - i) + 1]
      BY <1>4, <1>6, <3>1
    <3>3. b[i] = s[(m + n - i) + 1]
      BY <1>8, <1>12, <2>2, <3>1
    <3> QED
      BY <3>2, <3>3
  <2> QED
    BY <2>1, <2>2
<1>14. a = b
  BY <1>5, <1>11, <1>12, <1>13, SeqEqual
<1> QED
  BY <1>3, <1>5, <1>7, <1>9, <1>11, <1>14

\* One element, and none.
LEMMA ReverseSmall ==
  /\ Reverse(<<>>) = <<>>
  /\ \A c : Reverse(<<c>>) = <<c>>
<1>1. Reverse(<<>>) = <<>>
  BY DEF Reverse
<1>2. ASSUME NEW c PROVE Reverse(<<c>>) = <<c>>
  <2>1. <<c>> \in Seq({c}) /\ Len(<<c>>) = 1
    OBVIOUS
  <2>2. PICK r \in Seq({c}) : r = Reverse(<<c>>) /\ Len(r) = 1
    BY <2>1, ReverseIsSeq
  <2>3. r[1] = c
    BY <2>2
  <2> QED
    BY <2>1, <2>2, <2>3
<1> QED
  BY <1>1, <1>2

-----------------------------------------------------------------------------
(* What is held is the end of the text.                                    *)

Ends(s, t) == \E p \in Seq(Chars) : t = p \o s

\* The same, as PushbackInOrder says it.
LEMMA EndsIsSubSeq ==
  ASSUME NEW s \in Seq(Chars), NEW t \in Seq(Chars), Ends(s, t)
  PROVE  Len(s) <= Len(t) /\ s = SubSeq(t, Len(t) - Len(s) + 1, Len(t))
<1>1. PICK p \in Seq(Chars) : t = p \o s
  BY DEF Ends
<1>2. PICK m \in Nat : m = Len(p)
  OBVIOUS
<1>3. PICK n \in Nat : n = Len(s)
  OBVIOUS
<1>4. Len(t) = m + n /\ \A i \in 1 .. m + n : t[i] = IF i <= m THEN p[i] ELSE s[i - m]
  BY <1>1, <1>2, <1>3, ConcatProperties
<1>5. PICK lo \in Int : lo = m + 1
  OBVIOUS
<1>6. PICK hi \in Int : hi = m + n
  OBVIOUS
<1>7. PICK u : u = SubSeq(t, lo, hi)
  OBVIOUS
<1>8. /\ u \in Seq(Chars) /\ Len(u) = IF lo <= hi THEN hi - lo + 1 ELSE 0
      /\ \A i \in 1 .. hi - lo + 1 : u[i] = t[lo + i - 1]
  <2>1. \A i \in lo .. hi : t[i] \in Chars
    BY <1>4, <1>5, <1>6, ElementOfSeq
  <2>2. /\ SubSeq(t, lo, hi) \in Seq(Chars)
        /\ Len(SubSeq(t, lo, hi)) = IF lo <= hi THEN hi - lo + 1 ELSE 0
        /\ \A i \in 1 .. hi - lo + 1 : SubSeq(t, lo, hi)[i] = t[lo + i - 1]
    BY <2>1, SubSeqProperties
  <2> QED
    BY <1>7, <2>2
<1>9. Len(u) = n
  BY <1>5, <1>6, <1>8
<1>10. ASSUME NEW i \in 1 .. n PROVE u[i] = s[i]
  <2>1. u[i] = t[m + i]
    <3>1. i \in 1 .. hi - lo + 1 /\ lo + i - 1 = m + i
      BY <1>5, <1>6
    <3> QED
      BY <1>8, <3>1
  <2>2. m + i \in 1 .. m + n /\ ~(m + i <= m) /\ (m + i) - m = i
    OBVIOUS
  <2> QED
    BY <1>4, <2>1, <2>2
<1>11. u = s
  BY <1>3, <1>8, <1>9, <1>10, SeqEqual
<1>12. lo = Len(t) - Len(s) + 1 /\ hi = Len(t)
  BY <1>3, <1>4, <1>5, <1>6
<1> QED
  BY <1>3, <1>4, <1>7, <1>11, <1>12

\* What is read, or put aside, leaves the end of what was held.
LEMMA EndsTail ==
  ASSUME NEW a \in Seq(Chars), NEW s \in Seq(Chars), NEW t \in Seq(Chars), Ends(a \o s, t)
  PROVE  Ends(s, t)
<1>1. PICK p \in Seq(Chars) : t = p \o (a \o s)
  BY DEF Ends
<1>2. t = (p \o a) \o s /\ p \o a \in Seq(Chars)
  BY <1>1, ConcatAssociative, ConcatProperties
<1> QED
  BY <1>2 DEF Ends

-----------------------------------------------------------------------------
(* The stream and what is put back.                                        *)

\* The prefix characters are in AST_TYPE as well as in chars_read_buffer, and
\* only while reader_next_cell runs, or after it threw.
StreamType ==
  /\ unget \in Seq(Chars) /\ Len(unget) <= UngetLimit
  /\ chars_read \in Seq(PrefixChars) /\ Len(chars_read) <= PrefixLimit
  /\ text \in Seq(Chars) /\ pos \in Nat
  /\ asttype \in AstPrefixes
  /\ asttype = "AST_NOPREFIX" => chars_read = <<>>
  /\ pc \notin {"next_cell", "thrown"} => asttype = "AST_NOPREFIX"

StreamInv ==
  /\ StreamType
  /\ pc # "thrown" => Ends(chars_read \o Reverse(unget), text)

\* A sequence of prefix characters is one of characters.
LEMMA PrefixesAreChars ==
  ASSUME StreamType
  PROVE  chars_read \in Seq(Chars)
<1>1. PrefixChars \subseteq Chars
  BY DEF Chars
<1> QED
  BY <1>1, SeqMonotonic DEF StreamType

\* The smaller of two numbers.
LEMMA MinOfTwo ==
  ASSUME NEW a \in Int, NEW b \in Int
  PROVE  Min({a, b}) \in {a, b} /\ Min({a, b}) <= a /\ Min({a, b}) <= b
<1>1. \E x \in {a, b} : \A y \in {a, b} : x <= y
  <2>1. CASE a <= b
    BY <2>1
  <2>2. CASE b <= a
    BY <2>2
  <2> QED
    BY <2>1, <2>2
<1>2. Min({a, b}) \in {a, b} /\ \A y \in {a, b} : Min({a, b}) <= y
  BY <1>1 DEF Min
<1> QED
  BY <1>2

\* The put-back buffer keeps its size, and all that fits in it.
LEMMA HeldChars ==
  ASSUME NEW s \in Seq(Chars)
  PROVE  /\ Held(s) \in Seq(Chars) /\ Len(Held(s)) <= UngetLimit
         /\ Len(s) <= UngetLimit => Held(s) = s
<1>1. PICK n \in Nat : n = Len(s)
  OBVIOUS
<1>2. PICK k : k = Min({n, UngetLimit})
  OBVIOUS
<1>3. k \in {n, 4} /\ k <= n /\ k <= 4
  <2>1. k = Min({n, 4})
    BY <1>2 DEF UngetLimit
  <2>2. n \in Int /\ 4 \in Int
    BY <1>1
  <2>3. Min({n, 4}) \in {n, 4} /\ Min({n, 4}) <= n /\ Min({n, 4}) <= 4
    BY <2>2, MinOfTwo
  <2> QED
    BY <2>1, <2>3
<1>4. \A i \in 1 .. k : s[i] \in Chars
  BY <1>1, <1>3
<1>5. Held(s) = [i \in 1 .. k |-> s[i]]
  BY <1>1, <1>2 DEF Held
<1>6. Held(s) \in Seq(Chars) /\ Len(Held(s)) = k
  BY <1>3, <1>4, <1>5
<1>7. ASSUME n <= 4 PROVE Held(s) = s
  <2>1. k = n
    BY <1>3, <1>7
  <2> QED
    BY <1>1, <1>5, <1>6, <2>1, SeqEqual
<1> QED
  BY <1>1, <1>3, <1>6, <1>7 DEF UngetLimit

\* The put-back buffer without the character that is read next.
LEMMA RestChars ==
  ASSUME unget \in Seq(Chars), Len(unget) <= UngetLimit
  PROVE  /\ Rest \in Seq(Chars) /\ Len(Rest) <= UngetLimit
         /\ unget # <<>> => /\ Last(unget) \in Chars
                            /\ Reverse(unget) = <<Last(unget)>> \o Reverse(Rest)
<1>1. CASE unget = <<>>
  BY <1>1 DEF Rest, UngetLimit
<1>2. CASE unget # <<>>
  <2>1. PICK k \in Nat : Len(unget) = k + 1
    <3>1. Len(unget) \in Nat /\ Len(unget) # 0
      BY <1>2
    <3>2. Len(unget) - 1 \in Nat /\ Len(unget) = (Len(unget) - 1) + 1
      BY <3>1
    <3> QED
      BY <3>2
  <2>2. PICK r : r = SubSeq(unget, 1, k)
    OBVIOUS
  <2>3. r \in Seq(Chars) /\ Len(r) = k /\ \A i \in 1 .. k : r[i] = unget[i]
    <3>1. 1 \in Int /\ k \in Int /\ \A i \in 1 .. k : unget[i] \in Chars
      BY <2>1
    <3> QED
      BY <2>1, <2>2, <3>1, SubSeqProperties
  <2>4. Rest = r
    BY <1>2, <2>1, <2>2 DEF Rest, Front
  <2>5. Last(unget) = unget[k + 1] /\ Last(unget) \in Chars
    BY <2>1 DEF Last
  <2>6. PICK c \in Chars : c = Last(unget)
    BY <2>5
  <2>7. unget = r \o <<c>>
    <3>1. <<c>> \in Seq(Chars) /\ Len(<<c>>) = 1 /\ <<c>>[1] = c
      BY <2>6
    <3>2. PICK u \in Seq(Chars) : u = r \o <<c>>
      BY <2>3, <3>1, ConcatProperties
    <3>3. Len(u) = k + 1 /\ \A i \in 1 .. k + 1 : u[i] = IF i <= k THEN r[i] ELSE <<c>>[i - k]
      BY <2>3, <3>1, <3>2, ConcatProperties
    <3>4. ASSUME NEW i \in 1 .. k + 1 PROVE u[i] = unget[i]
      <4>1. CASE i <= k
        BY <2>3, <3>3, <4>1
      <4>2. CASE i = k + 1
        BY <2>5, <2>6, <3>1, <3>3, <4>2
      <4> QED
        BY <4>1, <4>2
    <3> QED
      BY <2>1, <3>2, <3>3, <3>4, SeqEqual
  <2>8. Reverse(unget) = Reverse(<<c>>) \o Reverse(r)
    <3>1. <<c>> \in Seq(Chars)
      BY <2>6
    <3> QED
      BY <2>3, <2>7, <3>1, ReverseConcat
  <2>9. Len(r) <= UngetLimit
    BY <2>1, <2>3 DEF UngetLimit
  <2> QED
    BY <2>3, <2>4, <2>5, <2>6, <2>8, <2>9, ReverseSmall
<1> QED
  BY <1>1, <1>2

\* reader_getc returns a character.
LEMMA GetcChars ==
  ASSUME StreamType, NEW c \in Getc
  PROVE  c \in Chars
<1>1. CASE unget # <<>>
  BY <1>1, RestChars DEF StreamType, Getc
<1>2. CASE unget = <<>>
  <2>1. PICK script \in Scripts : Follows(script) /\ c \in script[pos + 1]
    BY <1>2 DEF Getc
  <2>2. script \in Seq(SUBSET Chars) /\ pos \in Nat /\ pos < Len(script)
    BY <2>1, ReaderAssumption DEF StreamType, Follows
  <2>3. script[pos + 1] \in SUBSET Chars
    <3>1. pos + 1 \in 1 .. Len(script)
      BY <2>2
    <3> QED
      BY <2>2, <3>1, ElementOfSeq
  <2> QED
    BY <2>1, <2>3
<1> QED
  BY <1>1, <1>2

\* Reading and putting back keep the types.
LEMMA TakeType ==
  ASSUME StreamType, NEW c \in Getc, NEW back \in Seq(Chars), Take(c, back)
  PROVE  /\ unget' \in Seq(Chars) /\ Len(unget') <= UngetLimit
         /\ text' \in Seq(Chars) /\ pos' \in Nat
         /\ UngetFits(back) => unget' = Rest \o back
<1>1. /\ unget \in Seq(Chars) /\ Len(unget) <= UngetLimit /\ text \in Seq(Chars)
      /\ pos \in Nat
  BY DEF StreamType
<1>2. c \in Chars
  BY GetcChars
<1>3. Rest \in Seq(Chars)
  BY <1>1, RestChars
<1>4. Rest \o back \in Seq(Chars) /\ Len(Rest \o back) = Len(Rest) + Len(back)
  BY <1>3, ConcatProperties
<1>5. unget' = Held(Rest \o back)
  BY DEF Take
<1>6. text' \in Seq(Chars)
  BY <1>1, <1>2, AppendProperties DEF Take
<1>7. pos' \in Nat
  BY <1>1 DEF Take
<1> QED
  BY <1>4, <1>5, <1>6, <1>7, HeldChars DEF UngetFits

\* The character read stood between the prefix characters and what else was
\* put back, or came next in the stream.
LEMMA TakeOrder ==
  ASSUME StreamInv, pc # "thrown", NEW c \in Getc, NEW back \in Seq(Chars), Take(c, back)
  PROVE  Ends(chars_read \o (<<c>> \o Reverse(Rest)), text')
<1>1. /\ unget \in Seq(Chars) /\ Len(unget) <= UngetLimit /\ text \in Seq(Chars)
      /\ chars_read \in Seq(Chars)
  BY PrefixesAreChars DEF StreamInv, StreamType
<1>2. c \in Chars
  BY GetcChars DEF StreamInv
<1>3. PICK p \in Seq(Chars) : text = p \o (chars_read \o Reverse(unget))
  BY DEF StreamInv, Ends
<1>4. CASE unget # <<>>
  <2>1. c = Last(unget) /\ text' = text
    BY <1>4 DEF Getc, Take
  <2>2. Reverse(unget) = <<c>> \o Reverse(Rest)
    BY <1>1, <1>4, <2>1, RestChars
  <2> QED
    BY <1>3, <2>1, <2>2 DEF Ends
<1>5. CASE unget = <<>>
  <2>1. text' = Append(text, c) /\ Rest = <<>>
    BY <1>5 DEF Take, Rest
  <2>2. text = p \o chars_read
    <3>1. Reverse(unget) = <<>>
      BY <1>5, ReverseSmall
    <3> QED
      BY <1>1, <1>3, <3>1, ConcatEmptySeq
  <2>3. <<c>> \in Seq(Chars)
    BY <1>2
  <2>4. text' = (p \o chars_read) \o <<c>>
    BY <1>1, <1>2, <2>1, <2>2, AppendIsConcat
  <2>5. (p \o chars_read) \o <<c>> = p \o (chars_read \o <<c>>)
    BY <1>1, <2>3, ConcatAssociative
  <2>6. <<c>> \o Reverse(Rest) = <<c>>
    BY <2>1, <2>3, ReverseSmall, ConcatEmptySeq
  <2> QED
    BY <2>4, <2>5, <2>6 DEF Ends
<1> QED
  BY <1>4, <1>5

\* What stands once the locals of a call are cleared, or are left behind by
\* an error: each step but the one of a prefix character ends so.
LocalsDone ==
  \/ asttype' = "AST_NOPREFIX" /\ chars_read' = <<>>
  \/ pc' = "thrown" /\ UNCHANGED <<asttype, chars_read>>

\* The part of the invariant that such a step leaves to show.
LEMMA DoneStep ==
  ASSUME StreamInv, LocalsDone,
         unget' \in Seq(Chars), Len(unget') <= UngetLimit,
         text' \in Seq(Chars), pos' \in Nat,
         pc' # "thrown" => Ends(Reverse(unget'), text')
  PROVE  StreamInv'
<1>1. <<>> \in Seq(PrefixChars) /\ Len(<<>>) <= PrefixLimit
  BY DEF PrefixLimit
<1>2. "AST_NOPREFIX" \in AstPrefixes
  BY DEF AstPrefixes
<1>3. StreamType'
  BY <1>1, <1>2 DEF StreamInv, StreamType, LocalsDone
<1>4. ASSUME pc' # "thrown" PROVE Ends(chars_read' \o Reverse(unget'), text')
  <2>1. chars_read' = <<>>
    BY <1>4 DEF LocalsDone
  <2>2. Reverse(unget') \in Seq(Chars)
    BY ReverseIsSeq
  <2>3. chars_read' \o Reverse(unget') = Reverse(unget')
    BY <2>1, <2>2, ConcatEmptySeq
  <2> QED
    BY <1>4, <2>3
<1> QED
  BY <1>3, <1>4 DEF StreamInv

\* Outside reader_next_cell the locals are already clear.
LEMMA SameLocals ==
  ASSUME StreamInv, pc \notin {"next_cell", "thrown"}, UNCHANGED <<asttype, chars_read>>
  PROVE  LocalsDone
  BY DEF StreamInv, StreamType, LocalsDone

\* A step that reads nothing; the prefix characters, if any, are dropped.
LEMMA KeepStep ==
  ASSUME StreamInv, pc # "thrown", LocalsDone, UNCHANGED stream
  PROVE  StreamInv'
<1>1. unget' = unget /\ text' = text /\ pos' = pos
  BY DEF stream
<1>2. /\ unget \in Seq(Chars) /\ Len(unget) <= UngetLimit /\ text \in Seq(Chars)
      /\ pos \in Nat /\ chars_read \in Seq(Chars) /\ Reverse(unget) \in Seq(Chars)
  BY PrefixesAreChars, ReverseIsSeq DEF StreamInv, StreamType
<1>3. Ends(Reverse(unget), text)
  BY <1>2, EndsTail DEF StreamInv
<1> QED
  BY <1>1, <1>2, <1>3, DoneStep

\* A step that reads a character and is through with it.
LEMMA DropStep ==
  ASSUME StreamInv, pc # "thrown", LocalsDone, NEW c \in Getc, Take(c, <<>>)
  PROVE  StreamInv' /\ unget' = Rest
<1>1. /\ Rest \in Seq(Chars) /\ Len(Rest) <= UngetLimit /\ <<>> \in Seq(Chars)
      /\ chars_read \in Seq(Chars) /\ Reverse(Rest) \in Seq(Chars)
  BY RestChars, PrefixesAreChars, ReverseIsSeq DEF StreamInv, StreamType
<1>2. Rest \o <<>> = Rest
  BY <1>1, ConcatEmptySeq
<1>3. UngetFits(<<>>)
  BY <1>1 DEF UngetFits, UngetLimit
<1>4. /\ unget' \in Seq(Chars) /\ Len(unget') <= UngetLimit
      /\ text' \in Seq(Chars) /\ pos' \in Nat /\ unget' = Rest
  BY <1>1, <1>2, <1>3, TakeType DEF StreamInv
<1>5. <<c>> \in Seq(Chars) /\ <<c>> \o Reverse(Rest) \in Seq(Chars)
  BY <1>1, GetcChars, ConcatProperties DEF StreamInv
<1>6. Ends(chars_read \o (<<c>> \o Reverse(Rest)), text')
  BY <1>1, TakeOrder
<1>7. Ends(<<c>> \o Reverse(Rest), text')
  BY <1>1, <1>4, <1>5, <1>6, EndsTail
<1>8. Ends(Reverse(Rest), text')
  BY <1>1, <1>4, <1>5, <1>7, EndsTail
<1> QED
  BY <1>4, <1>8, DoneStep

\* A step that reads a character and puts it back.
LEMMA BackStep ==
  ASSUME StreamInv, pc # "thrown", LocalsDone, NEW c \in Getc, Take(c, <<c>>),
         UngetFits(<<c>>) \/ pc' = "thrown"
  PROVE  StreamInv'
<1>1. /\ Rest \in Seq(Chars) /\ <<c>> \in Seq(Chars) /\ chars_read \in Seq(Chars)
      /\ Reverse(Rest) \in Seq(Chars)
  BY RestChars, GetcChars, PrefixesAreChars, ReverseIsSeq DEF StreamInv, StreamType
<1>2. /\ unget' \in Seq(Chars) /\ Len(unget') <= UngetLimit
      /\ text' \in Seq(Chars) /\ pos' \in Nat
      /\ UngetFits(<<c>>) => unget' = Rest \o <<c>>
  BY <1>1, TakeType DEF StreamInv
<1>3. ASSUME pc' # "thrown" PROVE Ends(Reverse(unget'), text')
  <2>1. unget' = Rest \o <<c>>
    BY <1>2, <1>3
  <2>2. Reverse(unget') = <<c>> \o Reverse(Rest)
    BY <1>1, <2>1, ReverseConcat, ReverseSmall
  <2>3. Ends(chars_read \o (<<c>> \o Reverse(Rest)), text')
    BY <1>1, TakeOrder
  <2>4. <<c>> \o Reverse(Rest) \in Seq(Chars)
    BY <1>1, ConcatProperties
  <2> QED
    BY <1>1, <1>2, <2>2, <2>3, <2>4, EndsTail
<1> QED
  BY <1>2, <1>3, DoneStep

\* The prefix characters and the one after them.
LEMMA PrefixAppend ==
  ASSUME StreamInv, NEW c \in Chars
  PROVE  /\ Append(chars_read, c) \in Seq(Chars) /\ Bare(c) \in Seq(Chars)
         /\ Reverse(Bare(c)) = Append(chars_read, c)
         /\ Append(chars_read, c) = chars_read \o <<c>>
<1>1. chars_read \in Seq(Chars)
  BY PrefixesAreChars DEF StreamInv
<1>2. Append(chars_read, c) \in Seq(Chars)
  BY <1>1, AppendProperties
<1>3. Append(chars_read, c) = chars_read \o <<c>>
  BY <1>1, AppendIsConcat
<1> QED
  BY <1>2, <1>3, ReverseIsSeq, ReverseReverse DEF Bare

\* A space after prefix characters: they are all put back.
LEMMA BareStep ==
  ASSUME StreamInv, pc # "thrown", LocalsDone, NEW c \in Getc, Take(c, Bare(c)),
         UngetFits(Bare(c)) \/ pc' = "thrown"
  PROVE  StreamInv'
<1>1. /\ Rest \in Seq(Chars) /\ <<c>> \in Seq(Chars) /\ chars_read \in Seq(Chars)
      /\ Reverse(Rest) \in Seq(Chars) /\ c \in Chars
  BY RestChars, GetcChars, PrefixesAreChars, ReverseIsSeq DEF StreamInv, StreamType
<1>2. /\ Bare(c) \in Seq(Chars) /\ Reverse(Bare(c)) = chars_read \o <<c>>
  BY <1>1, PrefixAppend
<1>3. /\ unget' \in Seq(Chars) /\ Len(unget') <= UngetLimit
      /\ text' \in Seq(Chars) /\ pos' \in Nat
      /\ UngetFits(Bare(c)) => unget' = Rest \o Bare(c)
  BY <1>2, TakeType DEF StreamInv
<1>4. ASSUME pc' # "thrown" PROVE Ends(Reverse(unget'), text')
  <2>1. Reverse(unget') = (chars_read \o <<c>>) \o Reverse(Rest)
    BY <1>1, <1>2, <1>3, <1>4, ReverseConcat
  <2>2. Reverse(unget') = chars_read \o (<<c>> \o Reverse(Rest))
    BY <1>1, <2>1, ConcatAssociative
  <2> QED
    BY <1>2, <2>2, TakeOrder
<1> QED
  BY <1>3, <1>4, DoneStep

\* A prefix character joins the ones before it.
LEMMA PrefixStep ==
  ASSUME StreamInv, pc = "next_cell", pc' = pc, Len(chars_read) < PrefixLimit,
         NEW c \in Getc, c \in PrefixChars, Take(c, <<>>),
         asttype' = PrefixAfter(asttype, c), chars_read' = Append(chars_read, c)
  PROVE  StreamInv'
<1>1. /\ Rest \in Seq(Chars) /\ Len(Rest) <= UngetLimit /\ <<>> \in Seq(Chars)
      /\ chars_read \in Seq(Chars) /\ Reverse(Rest) \in Seq(Chars)
      /\ c \in Chars /\ <<c>> \in Seq(Chars)
  BY RestChars, GetcChars, PrefixesAreChars, ReverseIsSeq DEF StreamInv, StreamType
<1>2. Rest \o <<>> = Rest
  BY <1>1, ConcatEmptySeq
<1>3. UngetFits(<<>>)
  BY <1>1 DEF UngetFits, UngetLimit
<1>4. /\ unget' \in Seq(Chars) /\ Len(unget') <= UngetLimit
      /\ text' \in Seq(Chars) /\ pos' \in Nat /\ unget' = Rest
  BY <1>1, <1>2, <1>3, TakeType DEF StreamInv
<1>5. asttype' \in AstPrefixes \ {"AST_NOPREFIX"}
  BY DEF PrefixAfter, PrefixChars, AstPrefixes, Backquote
<1>6. chars_read' \in Seq(PrefixChars) /\ Len(chars_read') <= PrefixLimit
  <2>1. chars_read \in Seq(PrefixChars) /\ Len(chars_read) \in Nat
    BY DEF StreamInv, StreamType
  <2>2. chars_read' \in Seq(PrefixChars) /\ Len(chars_read') = Len(chars_read) + 1
    BY <2>1, AppendProperties
  <2> QED
    BY <2>1, <2>2 DEF PrefixLimit
<1>7. Ends(chars_read' \o Reverse(unget'), text')
  <2>1. chars_read' \o Reverse(unget') = chars_read \o (<<c>> \o Reverse(Rest))
    BY <1>1, <1>4, PrefixAppend, ConcatAssociative
  <2> QED
    BY <1>1, <2>1, TakeOrder
<1> QED
  BY <1>4, <1>5, <1>6, <1>7 DEF StreamInv, StreamType

\* The stream stalls after prefix characters: they are all put back.
LEMMA StallStep ==
  ASSUME StreamInv, pc = "next_cell", MayStall, LocalsDone,
         unget' = Held(Reverse(chars_read)), text' = text, pos' = pos
  PROVE  StreamInv'
<1>1. /\ chars_read \in Seq(Chars) /\ Len(chars_read) <= UngetLimit
      /\ text \in Seq(Chars) /\ pos \in Nat /\ unget = <<>>
  BY PrefixesAreChars DEF StreamInv, StreamType, UngetLimit, PrefixLimit, MayStall
<1>2. /\ Reverse(chars_read) \in Seq(Chars) /\ Len(Reverse(chars_read)) <= UngetLimit
      /\ Reverse(Reverse(chars_read)) = chars_read
  BY <1>1, ReverseIsSeq, ReverseReverse
<1>3. unget' = Reverse(chars_read)
  BY <1>2, HeldChars
<1>4. Ends(chars_read \o Reverse(unget), text)
  BY DEF StreamInv
<1>5. chars_read \o Reverse(unget) = chars_read
  BY <1>1, ReverseSmall, ConcatEmptySeq
<1> QED
  BY <1>1, <1>2, <1>3, <1>4, <1>5, DoneStep

-----------------------------------------------------------------------------
(* What each operation leaves of the locals.                               *)

\* Returning ends the locals of the function.
LEMMA ReturnDone ==
  ASSUME NEW call, NEW r, Return(call, r)
  PROVE  LocalsDone
  BY DEF Return, ClearLocals, LocalsDone

\* So does returning without a cell.
LEMMA NoCellDone ==
  ASSUME NoCell
  PROVE  LocalsDone
<1>1. PICK bit \in Padding :
        IF bit = 0 THEN Return("read", Len(open) = 1)
                   ELSE pc' = "thrown" /\ UNCHANGED locals
  BY DEF NoCell, Throw
<1> QED
  BY <1>1, ReturnDone DEF LocalsDone, locals

\* So does opening a context.
LEMMA EnterDone ==
  ASSUME NEW type, NEW prefix, Enter(type, prefix)
  PROVE  LocalsDone
  BY DEF Enter, Throw, ClearLocals, LocalsDone, locals

\* So does closing one.
LEMMA LeaveDone ==
  ASSUME NEW b, Leave(b)
  PROVE  LocalsDone
  BY DEF Leave, ClearLocals, LocalsDone

\* So does adding a character to a symbol.
LEMMA KeepDone ==
  ASSUME StreamInv, pc = "symbol_context", NEW c, Keep(c)
  PROVE  LocalsDone
<1>1. UNCHANGED <<asttype, chars_read>>
  BY DEF Keep, locals
<1> QED
  BY <1>1, SameLocals

\* So does finishing a symbol.
LEMMA FinishSymbolDone ==
  ASSUME FinishSymbol
  PROVE  LocalsDone
<1>1. CASE CanAlloc(bs, Header.length)
  BY <1>1, LeaveDone DEF FinishSymbol
<1>2. CASE ~CanAlloc(bs, Header.length)
  BY <1>2 DEF FinishSymbol, Throw, locals, LocalsDone
<1> QED
  BY <1>1, <1>2

-----------------------------------------------------------------------------
(* Each action keeps the invariant.                                        *)

\* Nothing is read and nothing put back at first.
LEMMA InitStream ==
  ASSUME Init
  PROVE  StreamInv
<1>1. /\ unget = <<>> /\ text = <<>> /\ pos = 0 /\ asttype = "AST_NOPREFIX"
      /\ chars_read = <<>> /\ pc = "idle"
  BY DEF Init, InitOn
<1>2. StreamType
  BY <1>1 DEF StreamType, UngetLimit, PrefixLimit, AstPrefixes
<1>3. chars_read \o Reverse(unget) = <<>>
  BY <1>1, ReverseSmall, ConcatEmptySeq, EmptySeq
<1>4. <<>> \in Seq(Chars) /\ <<>> = <<>> \o <<>>
  BY EmptySeq, ConcatEmptySeq
<1>5. Ends(<<>>, <<>>)
  BY <1>4 DEF Ends
<1> QED
  BY <1>1, <1>2, <1>3, <1>5 DEF StreamInv

\* reader_read begins.
LEMMA ReadStream ==
  ASSUME StreamInv, Read
  PROVE  StreamInv'
<1>1. pc = "idle" /\ UNCHANGED stream /\ UNCHANGED <<asttype, chars_read>>
  BY DEF Read
<1> QED
  BY <1>1, SameLocals, KeepStep

\* A comment is skipped.
LEMMA CommentStream ==
  ASSUME StreamInv, Comment
  PROVE  StreamInv'
<1>1. pc \notin {"next_cell", "thrown"}
  BY DEF Comment
<1>2. CASE /\ IF pc = "comment" THEN Return("read", FALSE) ELSE NoCell
           /\ UNCHANGED stream
  BY <1>1, <1>2, ReturnDone, NoCellDone, KeepStep
<1>3. CASE \E c \in Getc : Take(c, <<>>) /\ UNCHANGED locals
  BY <1>1, <1>3, SameLocals, DropStep DEF locals
<1> QED
  BY <1>2, <1>3 DEF Comment

\* White space is skipped.
LEMMA NextNonWsStream ==
  ASSUME StreamInv, NextNonWs
  PROVE  StreamInv'
<1>1. pc \notin {"next_cell", "thrown"}
  BY DEF NextNonWs
<1>2. CASE NoCell /\ UNCHANGED stream
  BY <1>1, <1>2, NoCellDone, KeepStep
<1>3. CASE \E c \in Getc :
             /\ UNCHANGED locals
             /\ \/ Take(c, <<>>)
                \/ /\ Take(c, <<c>>)
                   /\ lassert(UngetFits(<<c>>), "READER_STATE_ERROR", "next_cell")
  <2>1. PICK c \in Getc :
          \/ Take(c, <<>>)
          \/ /\ Take(c, <<c>>)
             /\ lassert(UngetFits(<<c>>), "READER_STATE_ERROR", "next_cell")
    BY <1>3
  <2>2. LocalsDone
    BY <1>1, <1>3, SameLocals DEF locals
  <2>3. CASE Take(c, <<>>)
    BY <1>1, <2>2, <2>3, DropStep
  <2>4. CASE /\ Take(c, <<c>>)
             /\ lassert(UngetFits(<<c>>), "READER_STATE_ERROR", "next_cell")
    <3>1. UngetFits(<<c>>) \/ pc' = "thrown"
      BY <2>4 DEF lassert, Throw
    <3> QED
      BY <1>1, <2>2, <2>4, <3>1, BackStep
  <2> QED
    BY <2>1, <2>3, <2>4
<1> QED
  BY <1>2, <1>3 DEF NextNonWs

\* The character that begins an atom is put back for the function that reads it.
LEMMA EnterWithStream ==
  ASSUME StreamInv, pc = "next_cell", NEW c \in Getc, NEW type, EnterWith(c, type)
  PROVE  StreamInv'
<1>1. CASE UngetFits(<<c>>)
  BY <1>1, EnterDone, BackStep DEF EnterWith
<1>2. CASE ~UngetFits(<<c>>)
  <2>1. Take(c, <<c>>) /\ LocalsDone /\ pc' = "thrown"
    BY <1>2 DEF EnterWith, Throw, LocalsDone, locals
  <2> QED
    BY <2>1, BackStep
<1> QED
  BY <1>1, <1>2

\* A prefix without anything after it is put back, and what follows it.
LEMMA EnterBareStream ==
  ASSUME StreamInv, pc = "next_cell", NEW c \in Getc, EnterBare(c)
  PROVE  StreamInv'
<1>1. CASE UngetFits(Bare(c))
  BY <1>1, EnterDone, BareStep DEF EnterBare
<1>2. CASE ~UngetFits(Bare(c))
  <2>1. Take(c, Bare(c)) /\ LocalsDone /\ pc' = "thrown"
    BY <1>2 DEF EnterBare, Throw, LocalsDone, locals
  <2> QED
    BY <2>1, BareStep
<1> QED
  BY <1>1, <1>2

\* The nine things that reader_next_cell does with a character.
LEMMA NextCellCharStream ==
  ASSUME StreamInv, pc = "next_cell", Len(chars_read) < PrefixLimit,
         NEW c \in Getc, NextCellChar(c)
  PROVE  StreamInv'
<1>1. CASE Take(c, <<>>) /\ Enter("AST_SYMBOL", "AST_DOUBLEQUOTE")
  BY <1>1, EnterDone, DropStep
<1>2. CASE /\ c \in PrefixChars /\ Take(c, <<>>) /\ asttype' = PrefixAfter(asttype, c)
           /\ chars_read' = Append(chars_read, c) /\ Go(pc)
  BY <1>2, PrefixStep DEF Go
<1>3. CASE Take(c, <<>>) /\ Enter("AST_LIST", asttype)
  BY <1>3, EnterDone, DropStep
<1>4. CASE asttype = "AST_NOPREFIX" /\ Take(c, <<>>) /\ UNCHANGED locals
  <2>1. LocalsDone
    BY <1>4 DEF StreamInv, StreamType, LocalsDone, locals
  <2> QED
    BY <1>4, <2>1, DropStep
<1>5. CASE Take(c, <<>>) /\ Leave(bs)
  BY <1>5, LeaveDone, DropStep
<1>6. CASE Take(c, <<>>) /\ pc' = "thrown" /\ UNCHANGED locals
  <2>1. LocalsDone
    BY <1>6 DEF LocalsDone, locals
  <2> QED
    BY <1>6, <2>1, DropStep
<1>7. CASE EnterBare(c)
  BY <1>7, EnterBareStream
<1>8. CASE EnterWith(c, "AST_INTEGER") \/ EnterWith(c, "AST_SYMBOL")
  BY <1>8, EnterWithStream
<1> QED
  BY <1>1, <1>2, <1>3, <1>4, <1>5, <1>6, <1>7, <1>8 DEF NextCellChar, Throw

\* The next cell is begun.
LEMMA NextCellStream ==
  ASSUME StreamInv, NextCell
  PROVE  StreamInv'
<1>0. pc = "next_cell"
  BY DEF NextCell
<1>1. CASE /\ MayStall /\ unget' = Held(Reverse(chars_read))
           /\ IF Len(chars_read) <= UngetLimit
                THEN NoCell ELSE pc' = "thrown" /\ UNCHANGED locals
           /\ UNCHANGED <<text, pos>>
  <2>1. LocalsDone
    BY <1>1, NoCellDone DEF LocalsDone, locals
  <2> QED
    BY <1>0, <1>1, <2>1, StallStep
<1>2. CASE Len(chars_read) < PrefixLimit /\ \E c \in Getc : NextCellChar(c)
  BY <1>0, <1>2, NextCellCharStream
<1>3. CASE (\E c \in Getc : Take(c, <<>>)) /\ pc' = "thrown" /\ UNCHANGED locals
  <2>1. LocalsDone
    BY <1>3 DEF LocalsDone, locals
  <2> QED
    BY <1>0, <1>3, <2>1, DropStep
<1> QED
  BY <1>1, <1>2, <1>3 DEF NextCell, Throw

\* A character of a symbol is taken, or put back where it ends the symbol.
LEMMA SymbolCharStream ==
  ASSUME StreamInv, pc = "symbol_context", NEW c \in Getc, SymbolChar(c)
  PROVE  StreamInv'
<1>1. CASE Take(c, <<>>) /\ UNCHANGED locals
  BY <1>1, SameLocals, DropStep DEF locals
<1>2. CASE Take(c, <<>>) /\ Keep(c)
  BY <1>2, KeepDone, DropStep
<1>3. CASE /\ Take(c, <<c>>)
           /\ IF UngetFits(<<c>>) THEN FinishSymbol
                                  ELSE pc' = "thrown" /\ UNCHANGED locals
  <2>1. LocalsDone
    BY <1>3, FinishSymbolDone DEF LocalsDone, locals
  <2> QED
    BY <1>3, <2>1, BackStep
<1>4. CASE Take(c, <<>>) /\ FinishSymbol
  BY <1>4, FinishSymbolDone, DropStep
<1> QED
  BY <1>1, <1>2, <1>3, <1>4 DEF SymbolChar, Throw

\* A symbol is read.
LEMMA SymbolContextStream ==
  ASSUME StreamInv, SymbolContext
  PROVE  StreamInv'
<1>0. pc = "symbol_context"
  BY DEF SymbolContext
<1>1. CASE Return("read", FALSE) /\ UNCHANGED stream
  BY <1>0, <1>1, ReturnDone, KeepStep
<1>2. CASE \E c \in Getc : SymbolChar(c)
  BY <1>0, <1>2, SymbolCharStream
<1> QED
  BY <1>1, <1>2 DEF SymbolContext

\* An integer is read.
LEMMA IntegerContextStream ==
  ASSUME StreamInv, IntegerContext
  PROVE  StreamInv'
<1>0. pc = "integer_context"
  BY DEF IntegerContext
<1>1. CASE Return("read", FALSE) /\ UNCHANGED stream
  BY <1>0, <1>1, ReturnDone, KeepStep
<1>2. ASSUME NEW c \in Getc, IntegerChar(c) PROVE StreamInv'
  <2>1. CASE Take(c, <<>>) /\ UNCHANGED <<asttype, chars_read>>
    BY <1>0, <2>1, SameLocals, DropStep
  <2>2. CASE /\ Take(c, <<c>>)
             /\ IF UngetFits(<<c>>) THEN Leave(bs)
                                    ELSE pc' = "thrown" /\ UNCHANGED locals
    <3>1. LocalsDone
      BY <2>2, LeaveDone DEF LocalsDone, locals
    <3> QED
      BY <1>0, <2>2, <3>1, BackStep
  <2> QED
    BY <1>2, <2>1, <2>2 DEF IntegerChar, Throw, locals
<1> QED
  BY <1>1, <1>2 DEF IntegerContext

\* reader_put_missing reads nothing.
LEMMA PutStream ==
  ASSUME StreamInv, PutMissing \/ Putc \/ PutDone
  PROVE  StreamInv'
<1>1. pc \notin {"next_cell", "thrown"} /\ UNCHANGED stream
  BY DEF PutMissing, Putc, PutDone
<1>2. (\E r \in BOOLEAN : Return("put", r)) \/ UNCHANGED locals
  BY DEF PutMissing, Putc, PutDone
<1> QED
  BY <1>1, <1>2, ReturnDone, SameLocals, KeepStep DEF locals

\* After an error the reader goes on with what has not been read.
LEMMA RecoverStream ==
  ASSUME StreamInv, Recover
  PROVE  StreamInv'
<1>1. /\ pc = "thrown" /\ asttype' = "AST_NOPREFIX" /\ chars_read' = <<>> /\ pos' = pos
      /\ \/ unget' = <<>> /\ text' = <<>> /\ pc' = "idle"
         \/ UNCHANGED <<unget, text, pc>>
  BY DEF Recover, ClearLocals
<1>2. LocalsDone
  BY <1>1 DEF LocalsDone
<1>3. /\ unget' \in Seq(Chars) /\ Len(unget') <= UngetLimit
      /\ text' \in Seq(Chars) /\ pos' \in Nat
  <2>1. /\ <<>> \in Seq(Chars) /\ Len(<<>>) <= UngetLimit
        /\ unget \in Seq(Chars) /\ Len(unget) <= UngetLimit
        /\ text \in Seq(Chars) /\ pos \in Nat
    BY DEF StreamInv, StreamType, UngetLimit
  <2> QED
    BY <1>1, <2>1
<1>4. ASSUME pc' # "thrown" PROVE Ends(Reverse(unget'), text')
  <2>1. Reverse(unget') = <<>> /\ text' = <<>>
    BY <1>1, <1>4, ReverseSmall
  <2>2. <<>> \in Seq(Chars) /\ <<>> = <<>> \o <<>>
    BY EmptySeq, ConcatEmptySeq
  <2> QED
    BY <2>1, <2>2 DEF Ends
<1> QED
  BY <1>2, <1>3, <1>4, DoneStep

\* Nothing happens.
LEMMA StutterStream ==
  ASSUME StreamInv, UNCHANGED vars
  PROVE  StreamInv'
<1>1. UNCHANGED <<unget, text, pos, asttype, chars_read, pc>>
  BY DEF vars, stream, locals
<1> QED
  BY <1>1 DEF StreamInv, StreamType, Ends

\* Nothing of the stream is lost, doubled or swapped between the host's getc
\* and the reader's functions, whatever the scripts, the sizes of the structs
\* and the memory are.
THEOREM StreamInOrder == Spec => []PushbackInOrder
<1>1. Init => StreamInv
  BY InitStream
<1>2. StreamInv /\ [Next]_vars => StreamInv'
  BY ReadStream, CommentStream, NextNonWsStream, NextCellStream, SymbolContextStream,
     IntegerContextStream, PutStream, RecoverStream, StutterStream DEF Next, Work
<1>3. StreamInv => PushbackInOrder
  <2> SUFFICES ASSUME StreamInv, pc # "thrown" PROVE PushbackInOrder
    BY DEF PushbackInOrder
  <2>1. chars_read \o Reverse(unget) \in Seq(Chars) /\ text \in Seq(Chars)
    BY PrefixesAreChars, ReverseIsSeq, ConcatProperties DEF StreamInv, StreamType
  <2> QED
    BY <2>1, EndsIsSubSeq DEF StreamInv, PushbackInOrder
<1> QED
  BY <1>1, <1>2, <1>3, PTL DEF Spec

-----------------------------------------------------------------------------
(* The chain of contexts, as far as the control depends on it.             *)

\* Where the reader reads: everywhere but between two calls, in put_missing
\* and after an error.
Reading == {"comment", "cell_comment", "next_non_ws", "next_cell", "symbol_context",
            "integer_context"}

ContextOf(V) == [type : Types, prefix : V, mark : V, cell : V, is_escaped : V]

Nested(contexts) ==
  /\ \E V : contexts \in Seq(ContextOf(V))
  /\ contexts # <<>>
  /\ contexts[1].type = "AST_LIST"

\* The root is a list, and an atom is read where the innermost context is one:
\* there is always a list for its cell to be counted in.
NestInv ==
  /\ Nested(open)
  /\ pc = "symbol_context"  => Current.type = "AST_SYMBOL"
  /\ pc = "integer_context" => Current.type = "AST_INTEGER"

\* A chain that is not empty has a last context, of one of the three types.
LEMMA NestedLast ==
  ASSUME NEW o, Nested(o)
  PROVE  /\ Len(o) \in Nat \ {0} /\ Last(o) = o[Len(o)] /\ Last(o).type \in Types
         /\ Last(o).type # "AST_LIST" => Len(o) > 1
<1>1. PICK V : o \in Seq(ContextOf(V))
  BY DEF Nested
<1>2. Len(o) \in Nat \ {0} /\ Last(o) = o[Len(o)]
  BY <1>1 DEF Nested, Last
<1>3. o[Len(o)] \in ContextOf(V)
  BY <1>1, <1>2
<1>4. o[Len(o)].type \in Types
  BY <1>3 DEF ContextOf
<1>5. ASSUME Last(o).type # "AST_LIST" PROVE Len(o) > 1
  <2>1. PICK n \in Nat \ {0} : n = Len(o)
    BY <1>2
  <2>2. n # 1
    BY <1>2, <1>5, <2>1 DEF Nested
  <2>3. n > 1
    BY <2>2
  <2> QED
    BY <2>1, <2>3
<1>6. Last(o).type \in Types
  BY <1>2, <1>4
<1> QED
  BY <1>2, <1>5, <1>6

\* The reader resumes in the function of the innermost context's type.
LEMMA ResumeType ==
  ASSUME NEW o, Nested(o)
  PROVE  /\ Resume(o) \in Reading
         /\ Resume(o) = "symbol_context"  => Last(o).type = "AST_SYMBOL"
         /\ Resume(o) = "integer_context" => Last(o).type = "AST_INTEGER"
<1>1. Last(o).type \in {"AST_SYMBOL", "AST_INTEGER", "AST_LIST"}
  BY NestedLast DEF Types
<1>2. CASE Last(o).type = "AST_LIST"
  BY <1>2 DEF Resume, Reading
<1>3. CASE Last(o).type = "AST_SYMBOL"
  BY <1>3 DEF Resume, Reading
<1>4. CASE Last(o).type = "AST_INTEGER"
  BY <1>4 DEF Resume, Reading
<1> QED
  BY <1>1, <1>2, <1>3, <1>4

\* A context joins the chain, ...
LEMMA NestedAppend ==
  ASSUME NEW o, Nested(o), NEW b, NEW type \in Types, NEW prefix, NEW n
  PROVE  Nested(Append(o, Context(b, type, prefix, n)))
<1>1. PICK V : o \in Seq(ContextOf(V))
  BY DEF Nested
<1>2. PICK W : W = V \cup {prefix, StackTop(b), n, FALSE}
  OBVIOUS
<1>3. PICK c : c = Context(b, type, prefix, n)
  OBVIOUS
<1>4. c \in ContextOf(W)
  <2>1. prefix \in W /\ StackTop(b) \in W /\ n \in W /\ FALSE \in W
    BY <1>2
  <2> QED
    BY <1>3, <2>1 DEF Context, ContextOf
<1>5. ContextOf(V) \subseteq ContextOf(W)
  BY <1>2 DEF ContextOf
<1>6. o \in Seq(ContextOf(W)) /\ Len(o) \in Nat \ {0}
  BY <1>1, <1>5, SeqMonotonic DEF Nested
<1>7. /\ Append(o, c) \in Seq(ContextOf(W)) /\ Append(o, c)[1] = o[1]
      /\ Append(o, c) # <<>>
  BY <1>4, <1>6, AppendProperties
<1> QED
  BY <1>3, <1>7 DEF Nested

\* ... leaves it, ...
LEMMA NestedFront ==
  ASSUME NEW o, Nested(o), Len(o) > 1
  PROVE  Nested(Front(o))
<1>1. PICK V : o \in Seq(ContextOf(V))
  BY DEF Nested
<1>2. PICK k \in Nat \ {0} : Len(o) = k + 1
  <2>1. Len(o) - 1 \in Nat \ {0} /\ Len(o) = (Len(o) - 1) + 1
    BY NestedLast
  <2> QED
    BY <2>1
<1>3. PICK f : f = SubSeq(o, 1, k)
  OBVIOUS
<1>4. f \in Seq(ContextOf(V)) /\ Len(f) = k /\ f[1] = o[1]
  <2>1. 1 \in Int /\ k \in Int /\ \A i \in 1 .. k : o[i] \in ContextOf(V)
    BY <1>1, <1>2
  <2> QED
    BY <1>2, <1>3, <2>1, SubSeqProperties
<1>5. Front(o) = f
  BY <1>2, <1>3 DEF Front
<1>6. f # <<>>
  BY <1>2, <1>4
<1> QED
  BY <1>4, <1>5, <1>6 DEF Nested

\* ... or escapes the character that comes next.
LEMMA NestedEscape ==
  ASSUME NEW o, Nested(o), NEW e
  PROVE  /\ Nested([o EXCEPT ![Len(o)].is_escaped = e])
         /\ Last([o EXCEPT ![Len(o)].is_escaped = e]).type = Last(o).type
<1>1. PICK V : o \in Seq(ContextOf(V))
  BY DEF Nested
<1>2. PICK W : W = V \cup {e}
  OBVIOUS
<1>3. ContextOf(V) \subseteq ContextOf(W)
  BY <1>2 DEF ContextOf
<1>4. o \in Seq(ContextOf(W)) /\ Len(o) \in Nat \ {0}
  BY <1>1, <1>3, SeqMonotonic, NestedLast
<1>5. PICK n \in Nat \ {0} : n = Len(o)
  BY <1>4
<1>6. PICK c : c = [o[n] EXCEPT !.is_escaped = e]
  OBVIOUS
<1>7. o[n] \in ContextOf(W) /\ e \in W
  BY <1>2, <1>4, <1>5
<1>8. c \in ContextOf(W) /\ c.type = o[n].type
  BY <1>6, <1>7 DEF ContextOf
<1>9. PICK q : q = [o EXCEPT ![n] = c]
  OBVIOUS
<1>10. /\ q \in Seq(ContextOf(W)) /\ Len(q) = n /\ q[n] = c
       /\ \A i \in 1 .. n : i # n => q[i] = o[i]
  BY <1>4, <1>5, <1>8, <1>9
<1>11. q # <<>> /\ Last(q) = c
  BY <1>5, <1>10 DEF Last
<1>12. q[1].type = "AST_LIST"
  BY <1>5, <1>8, <1>10 DEF Nested
<1>13. q = [o EXCEPT ![Len(o)].is_escaped = e]
  BY <1>5, <1>6, <1>9
<1> QED
  BY <1>5, <1>8, <1>10, <1>11, <1>12, <1>13, NestedLast DEF Nested

-----------------------------------------------------------------------------
(* What put_missing has written and has still to write.                    *)

EndChars == {")", "#", "\"", "_"}

\* The frames are those of the contexts: nothing reads between the calls of
\* an unfinished put_missing.
MissingInv ==
  /\ \E V : missing \in [mark : V, frames : Seq(EndChars)]
  /\ written \in Seq(EndChars)
  /\ pc \in Reading =>
       written = <<>> /\ missing.mark = NULL /\ result = <<"none", TRUE>>
  /\ pc = "put_missing" => Len(open) > 1 /\ result = <<"none", TRUE>>
  /\ Len(open) = 1 => written = <<>>
  /\ missing.mark # NULL \/ pc = "put_missing" =>
       written \o missing.frames = Closers
  /\ result = <<"put", TRUE>> => written = Closers

CloseInv == NestInv /\ MissingInv

\* What a step of reader_read does to the control.
ReadsOn ==
  \/ pc' \in Reading \cup {"thrown"} /\ UNCHANGED result
  \/ pc' = "idle" /\ \E r : result' = <<"read", r>>

\* Reading leaves put_missing alone.
LEMMA ReadsOnMissing ==
  ASSUME CloseInv, pc \in Reading, UNCHANGED output, ReadsOn
  PROVE  MissingInv'
<1>1. /\ written' = <<>> /\ missing' = missing /\ missing.mark = NULL
      /\ result = <<"none", TRUE>>
  <2>1. missing' = missing /\ written' = written
    BY DEF output
  <2>2. written = <<>> /\ missing.mark = NULL /\ result = <<"none", TRUE>>
    BY DEF CloseInv, MissingInv
  <2> QED
    BY <2>1, <2>2
<1>2. pc' # "put_missing" /\ result' # <<"put", TRUE>>
  <2>1. \A a, r : a # "put" => <<a, r>> # <<"put", TRUE>>
    OBVIOUS
  <2>2. pc' # "put_missing"
    BY DEF ReadsOn, Reading
  <2>3. (\E r : result' = <<"read", r>>) \/ result' = <<"none", TRUE>>
    BY <1>1 DEF ReadsOn
  <2> QED
    BY <2>1, <2>2, <2>3
<1>3. <<>> \in Seq(EndChars)
  OBVIOUS
<1>4. pc' \in Reading => result' = <<"none", TRUE>>
  BY <1>1 DEF ReadsOn, Reading
<1>5. \E V : missing' \in [mark : V, frames : Seq(EndChars)]
  BY <1>1 DEF CloseInv, MissingInv
<1> QED
  BY <1>1, <1>2, <1>3, <1>4, <1>5 DEF MissingInv

\* The ways in which a step of the reader leaves the chain.
LEMMA SameChain ==
  ASSUME NestInv, open' = open,
         pc' \in {"symbol_context", "integer_context"} => pc' = pc
  PROVE  NestInv'
  BY DEF NestInv, Current

\* Reading goes on in the function of the innermost context.
LEMMA ResumeChain ==
  ASSUME Nested(open'), pc' = Resume(open')
  PROVE  NestInv' /\ pc' \in Reading
  BY ResumeType DEF NestInv, Current

\* reader_read returns, with the contexts as they are.
LEMMA ReturnChain ==
  ASSUME NestInv, open' = open, NEW r, Return("read", r)
  PROVE  NestInv' /\ ReadsOn
<1>1. pc' = "idle" /\ result' = <<"read", r>>
  BY DEF Return
<1>2. NestInv'
  BY <1>1, SameChain
<1> QED
  BY <1>1, <1>2 DEF ReadsOn

\* An error leaves the contexts as they are.
LEMMA ThrowChain ==
  ASSUME NestInv, open' = open, NEW err, Throw(err)
  PROVE  NestInv' /\ ReadsOn
<1>1. pc' = "thrown" /\ UNCHANGED result
  BY DEF Throw
<1>2. NestInv'
  BY <1>1, SameChain
<1> QED
  BY <1>1, <1>2 DEF ReadsOn

\* Going on inside reader_read leaves the contexts as they are.
LEMMA GoChain ==
  ASSUME NestInv, open' = open, NEW next \in Reading, Go(next),
         next \in {"symbol_context", "integer_context"} => next = pc
  PROVE  NestInv' /\ ReadsOn
<1>1. pc' = next /\ UNCHANGED result
  BY DEF Go
<1>2. NestInv'
  BY <1>1, SameChain
<1> QED
  BY <1>1, <1>2 DEF ReadsOn

\* Returning without a cell leaves the contexts as they are.
LEMMA NoCellChain ==
  ASSUME NestInv, NoCell
  PROVE  NestInv' /\ ReadsOn
<1>1. PICK bit \in Padding :
        IF bit = 0
          THEN Return("read", Len(open) = 1) /\ UNCHANGED tree
          ELSE /\ Throw(new_reader_context(bs, "AST_NONE", "AST_NOPREFIX").err)
               /\ UNCHANGED open
  BY DEF NoCell
<1> QED
  BY <1>1, ReturnChain, ThrowChain DEF tree

\* A context is opened inside the others.
LEMMA EnterChain ==
  ASSUME NestInv, NEW type \in Types, NEW prefix, Enter(type, prefix)
  PROVE  NestInv' /\ ReadsOn
<1>1. CASE /\ open' = Append(open, Context(bs, type, prefix, Len(cells) + 1))
           /\ Go(Resume(open'))
  <2>1. Nested(open')
    BY <1>1, NestedAppend DEF NestInv
  <2>2. pc' = Resume(open') /\ UNCHANGED result
    BY <1>1 DEF Go
  <2> QED
    BY <2>1, <2>2, ResumeChain DEF ReadsOn
<1>2. CASE open' = open /\ \E err : Throw(err)
  BY <1>2, ThrowChain
<1> QED
  BY <1>1, <1>2 DEF Enter

\* The innermost context is closed, and is not the root.
LEMMA LeaveChain ==
  ASSUME NestInv, Len(open) > 1, NEW b, Leave(b)
  PROVE  NestInv' /\ ReadsOn
<1>1. Nested(open')
  BY NestedFront DEF NestInv, Leave
<1>2. /\ UNCHANGED result
      /\ pc' = Resume(open') \/ pc' = "thrown"
  BY DEF Leave, lassert, Go, Throw
<1>3. CASE pc' = Resume(open')
  BY <1>1, <1>2, <1>3, ResumeChain DEF ReadsOn
<1>4. CASE pc' = "thrown"
  BY <1>1, <1>2, <1>4 DEF NestInv, ReadsOn
<1> QED
  BY <1>2, <1>3, <1>4

\* An escape in a symbol changes its context alone.
LEMMA EscapeChain ==
  ASSUME NestInv, pc = "symbol_context", NEW e, SetEscaped(e), Go(pc)
  PROVE  NestInv' /\ ReadsOn
<1>1. pc' = "symbol_context" /\ UNCHANGED result
  BY DEF Go
<1>2. Nested(open') /\ Last(open').type = Last(open).type
  BY NestedEscape DEF NestInv, SetEscaped
<1> QED
  BY <1>1, <1>2 DEF NestInv, Current, ReadsOn, Reading

\* A character more in a symbol leaves the contexts as they are.
LEMMA KeepChain ==
  ASSUME NestInv, pc = "symbol_context", NEW c, Keep(c)
  PROVE  NestInv' /\ ReadsOn
<1>1. CASE UNCHANGED tree /\ Go(pc)
  BY <1>1, GoChain DEF tree, Reading
<1>2. CASE EscapeUsed /\ Go(pc)
  BY <1>2, EscapeChain DEF EscapeUsed
<1>3. CASE Throw("overrun") /\ UNCHANGED tree
  BY <1>3, ThrowChain DEF tree
<1> QED
  BY <1>1, <1>2, <1>3 DEF Keep

\* The context of a symbol is closed with it.
LEMMA FinishSymbolChain ==
  ASSUME NestInv, Len(open) > 1, FinishSymbol
  PROVE  NestInv' /\ ReadsOn
<1>1. CASE Leave(bistack_allocf(bs, Header.length))
  BY <1>1, LeaveChain
<1>2. CASE Throw("BISTACK_OUT_OF_MEMORY") /\ UNCHANGED tree
  BY <1>2, ThrowChain DEF tree
<1> QED
  BY <1>1, <1>2 DEF FinishSymbol

-----------------------------------------------------------------------------
(* Each action keeps the chain and what put_missing promises.              *)

\* The root is open, and nothing is written.
LEMMA InitClose ==
  ASSUME Init
  PROVE  CloseInv
<1>1. PICK b : open = <<Context(b, "AST_LIST", "AST_NOPREFIX", 1)>>
  BY DEF Init, InitOn
<1>2. /\ missing = NotWriting /\ written = <<>> /\ pc = "idle"
      /\ result = <<"none", TRUE>>
  BY DEF Init, InitOn
<1>3. NestInv
  <2>1. PICK V : V = {"AST_NOPREFIX", StackTop(b), 1, FALSE}
    OBVIOUS
  <2>2. Context(b, "AST_LIST", "AST_NOPREFIX", 1) \in ContextOf(V)
    BY <2>1 DEF Context, ContextOf, Types
  <2>3. Context(b, "AST_LIST", "AST_NOPREFIX", 1).type = "AST_LIST"
    BY DEF Context
  <2>4. open \in Seq(ContextOf(V)) /\ open # <<>> /\ open[1].type = "AST_LIST"
    BY <1>1, <2>2, <2>3
  <2> QED
    BY <1>2, <2>4 DEF NestInv, Nested
<1>4. MissingInv
  <2>1. /\ missing \in [mark : {NULL}, frames : Seq(EndChars)] /\ missing.mark = NULL
        /\ <<>> \in Seq(EndChars) /\ <<"none", TRUE>> # <<"put", TRUE>>
    BY <1>2 DEF NotWriting
  <2> QED
    BY <1>2, <2>1 DEF MissingInv, Reading
<1> QED
  BY <1>3, <1>4 DEF CloseInv

\* reader_read begins, and what was written before is forgotten.
LEMMA ReadClose ==
  ASSUME CloseInv, Read
  PROVE  CloseInv'
<1>1. /\ pc = "idle" /\ missing.mark = NULL /\ pc' = Entry /\ result' = <<"none", TRUE>>
      /\ written' = <<>> /\ missing' = missing /\ open' = open
  BY DEF Read, tree
<1>2. NestInv' /\ pc' \in Reading
  <2>1. CASE pc' = "comment"
    BY <1>1, <2>1, SameChain DEF CloseInv, Reading
  <2>2. CASE pc' = Resume(open)
    BY <1>1, <2>2, ResumeChain DEF CloseInv, NestInv
  <2> QED
    BY <1>1, <2>1, <2>2 DEF Entry
<1>3. MissingInv'
  <2>1. <<>> \in Seq(EndChars) /\ <<"none", TRUE>> # <<"put", TRUE>>
    OBVIOUS
  <2>2. \E V : missing' \in [mark : V, frames : Seq(EndChars)]
    BY <1>1 DEF CloseInv, MissingInv
  <2>3. pc' # "put_missing"
    BY <1>2 DEF Reading
  <2> QED
    BY <1>1, <2>1, <2>2, <2>3 DEF MissingInv
<1> QED
  BY <1>2, <1>3 DEF CloseInv

\* A comment is skipped.
LEMMA CommentClose ==
  ASSUME CloseInv, Comment
  PROVE  CloseInv'
<1>1. /\ pc \in Reading /\ pc \notin {"symbol_context", "integer_context"}
      /\ UNCHANGED output
  BY DEF Comment, Reading
<1>2. NestInv' /\ ReadsOn
  <2>1. CASE IF pc = "comment" THEN Return("read", FALSE) /\ UNCHANGED tree ELSE NoCell
    BY <2>1, ReturnChain, NoCellChain DEF CloseInv, tree
  <2>2. CASE /\ Go("next_non_ws") \/ Go(pc)
             /\ UNCHANGED tree
    BY <1>1, <2>2, GoChain DEF CloseInv, tree, Reading
  <2> QED
    BY <2>1, <2>2 DEF Comment
<1> QED
  BY <1>1, <1>2, ReadsOnMissing DEF CloseInv

\* White space is skipped, or a list is closed.
LEMMA NextNonWsClose ==
  ASSUME CloseInv, NextNonWs
  PROVE  CloseInv'
<1>1. pc = "next_non_ws" /\ pc \in Reading /\ UNCHANGED output
  BY DEF NextNonWs, Reading
<1>2. NestInv' /\ ReadsOn
  <2>1. CASE NoCell
    BY <2>1, NoCellChain DEF CloseInv
  <2>2. CASE /\ Go(pc) \/ Go("next_cell") \/ Throw("READER_STATE_ERROR")
             /\ UNCHANGED tree
    BY <1>1, <2>2, GoChain, ThrowChain DEF CloseInv, tree, Reading
  <2> QED
    BY <2>1, <2>2 DEF NextNonWs, lassert
<1> QED
  BY <1>1, <1>2, ReadsOnMissing DEF CloseInv

\* The nine things that reader_next_cell does with a character.
LEMMA NextCellCharChain ==
  ASSUME NestInv, pc = "next_cell", NEW c, NextCellChar(c)
  PROVE  NestInv' /\ ReadsOn
<1>1. CASE \E type \in Types : \E prefix : Enter(type, prefix)
  BY <1>1, EnterChain
<1>2. CASE (Go(pc) \/ Go("cell_comment")) /\ UNCHANGED tree
  BY <1>2, GoChain DEF tree, Reading
<1>3. CASE Len(open) > 1 /\ Leave(bs)
  BY <1>3, LeaveChain
<1>4. CASE (\E err : Throw(err)) /\ UNCHANGED tree
  BY <1>4, ThrowChain DEF tree
<1>5. "AST_SYMBOL" \in Types /\ "AST_LIST" \in Types /\ "AST_INTEGER" \in Types
  BY DEF Types
<1> QED
  BY <1>1, <1>2, <1>3, <1>4, <1>5 DEF NextCellChar, EnterBare, EnterWith

\* The next cell is begun.
LEMMA NextCellClose ==
  ASSUME CloseInv, NextCell
  PROVE  CloseInv'
<1>1. pc = "next_cell" /\ pc \in Reading /\ UNCHANGED output
  BY DEF NextCell, Reading
<1>2. NestInv' /\ ReadsOn
  <2>1. CASE NoCell
    BY <2>1, NoCellChain DEF CloseInv
  <2>2. CASE Throw("READER_STATE_ERROR") /\ UNCHANGED tree
    BY <2>2, ThrowChain DEF CloseInv, tree
  <2>3. CASE \E c \in Getc : NextCellChar(c)
    BY <1>1, <2>3, NextCellCharChain DEF CloseInv
  <2> QED
    BY <2>1, <2>2, <2>3 DEF NextCell
<1> QED
  BY <1>1, <1>2, ReadsOnMissing DEF CloseInv

\* A symbol is read.
LEMMA SymbolContextClose ==
  ASSUME CloseInv, SymbolContext
  PROVE  CloseInv'
<1>1. /\ pc = "symbol_context" /\ pc \in Reading /\ UNCHANGED output
      /\ NestInv /\ Len(open) > 1
  BY NestedLast DEF SymbolContext, Reading, CloseInv, NestInv, Current
<1>2. NestInv' /\ ReadsOn
  <2>1. CASE Return("read", FALSE) /\ UNCHANGED tree
    BY <1>1, <2>1, ReturnChain DEF tree
  <2>2. CASE \E c \in Getc : SymbolChar(c)
    <3>1. PICK c \in Getc : SymbolChar(c)
      BY <2>2
    <3>2. CASE SetEscaped(TRUE) /\ Go(pc)
      BY <1>1, <3>2, EscapeChain
    <3>3. CASE Keep(c)
      BY <1>1, <3>3, KeepChain
    <3>4. CASE FinishSymbol
      BY <1>1, <3>4, FinishSymbolChain
    <3>5. CASE (Go(pc) \/ Throw("READER_STATE_ERROR")) /\ UNCHANGED tree
      BY <1>1, <3>5, GoChain, ThrowChain DEF tree
    <3> QED
      BY <3>1, <3>2, <3>3, <3>4, <3>5 DEF SymbolChar
  <2> QED
    BY <2>1, <2>2 DEF SymbolContext
<1> QED
  BY <1>1, <1>2, ReadsOnMissing DEF CloseInv

\* An integer is read.
LEMMA IntegerContextClose ==
  ASSUME CloseInv, IntegerContext
  PROVE  CloseInv'
<1>1. /\ pc = "integer_context" /\ pc \in Reading /\ UNCHANGED output
      /\ NestInv /\ Len(open) > 1
  BY NestedLast DEF IntegerContext, Reading, CloseInv, NestInv, Current
<1>2. NestInv' /\ ReadsOn
  <2>1. CASE Return("read", FALSE) /\ UNCHANGED tree
    BY <1>1, <2>1, ReturnChain DEF tree
  <2>2. CASE Leave(bs)
    BY <1>1, <2>2, LeaveChain
  <2>3. CASE (Go(pc) \/ Throw("READER_STATE_ERROR")) /\ open' = open
    BY <1>1, <2>3, GoChain, ThrowChain
  <2> QED
    BY <2>1, <2>2, <2>3 DEF IntegerContext, IntegerChar, tree
<1> QED
  BY <1>1, <1>2, ReadsOnMissing DEF CloseInv

\* What has to be written, as a sequence.
LEMMA ClosersAreChars ==
  ASSUME Nested(open)
  PROVE  /\ Closers \in Seq(EndChars)
         /\ Len(open) = 1 => Closers = <<>>
<1>1. PICK n \in Nat : Len(open) = n + 1
  <2>1. Len(open) - 1 \in Nat /\ Len(open) = (Len(open) - 1) + 1
    BY NestedLast
  <2> QED
    BY <2>1
<1>2. PICK V : open \in Seq(ContextOf(V))
  BY DEF Nested
<1>3. ASSUME NEW i \in 1 .. n PROVE EndChar(open[i + 1]) \in EndChars
  <2>1. i + 1 \in 1 .. Len(open)
    BY <1>1
  <2>2. open[i + 1] \in ContextOf(V)
    BY <1>2, <2>1
  <2>3. open[i + 1].type \in {"AST_SYMBOL", "AST_INTEGER", "AST_LIST"}
    BY <2>2 DEF ContextOf, Types
  <2> QED
    BY <2>3 DEF EndChar, EndChars
<1>4. PICK q : q = [i \in 1 .. n |-> EndChar(open[i + 1])]
  OBVIOUS
<1>5. q \in Seq(EndChars) /\ Len(q) = n
  BY <1>3, <1>4
<1>6. Closers = Reverse(q)
  BY <1>1, <1>4 DEF Closers
<1>7. ASSUME Len(open) = 1 PROVE Closers = <<>>
  <2>1. n = 0
    <3>1. n + 1 = 1
      BY <1>1, <1>7, Zenon
    <3> QED
      BY <3>1
  <2>3. Len(q) = 0
    BY <1>5, <2>1
  <2>2. q = <<>>
    BY <1>5, <2>3, EmptySeq
  <2> QED
    BY <1>6, <2>2, ReverseSmall
<1> QED
  BY <1>5, <1>6, <1>7, ReverseIsSeq

\* put_missing begins, or goes on where it was refused.
LEMMA PutMissingClose ==
  ASSUME CloseInv, PutMissing
  PROVE  CloseInv'
<1>0. /\ pc = "idle" /\ open' = open /\ Closers' = Closers
      /\ "put_missing" \notin Reading \cup {"symbol_context", "integer_context"}
      /\ "thrown" \notin Reading \cup {"symbol_context", "integer_context", "put_missing"}
      /\ "idle" \notin Reading \cup {"symbol_context", "integer_context", "put_missing"}
      /\ <<"none", TRUE>> # <<"put", TRUE>>
      /\ <<>> \in Seq(EndChars)
  BY DEF PutMissing, Closers, Reading
<1>1. Closers \in Seq(EndChars) /\ (Len(open) = 1 => Closers = <<>>)
  BY ClosersAreChars DEF CloseInv, NestInv
<1>2. CASE Len(open) = 1 /\ Return("put", TRUE) /\ UNCHANGED output
  <2>1. /\ pc' = "idle" /\ missing' = missing /\ written' = written
        /\ written = <<>>
    BY <1>2 DEF Return, output, CloseInv, MissingInv
  <2>2. NestInv'
    BY <1>0, <2>1, SameChain DEF CloseInv
  <2>3. MissingInv'
    BY <1>0, <1>1, <1>2, <2>1 DEF CloseInv, MissingInv
  <2> QED
    BY <2>2, <2>3 DEF CloseInv
<1>3. CASE /\ Len(open) > 1 /\ missing.mark # NULL
           /\ pc' = "put_missing" /\ result' = <<"none", TRUE>> /\ UNCHANGED output
  <2>1. missing' = missing /\ written' = written
    BY <1>3 DEF output
  <2>2. NestInv'
    BY <1>0, <1>3, SameChain DEF CloseInv
  <2>3. MissingInv'
    BY <1>0, <1>3, <2>1 DEF CloseInv, MissingInv
  <2> QED
    BY <2>2, <2>3 DEF CloseInv
<1>4. CASE /\ Len(open) > 1 /\ missing.mark = NULL
           /\ written' = <<>> /\ result' = <<"none", TRUE>>
           /\ \/ pc' = "thrown" /\ missing' = missing
              \/ /\ missing' = [mark |-> StackTop(bs), frames |-> Closers]
                 /\ pc' = "put_missing"
  <2>2. NestInv'
    BY <1>0, <1>4, SameChain DEF CloseInv
  <2>3. CASE pc' = "thrown" /\ missing' = missing
    <3>1. MissingInv'
      BY <1>0, <1>4, <2>3 DEF CloseInv, MissingInv
    <3> QED
      BY <2>2, <3>1 DEF CloseInv
  <2>4. CASE /\ missing' = [mark |-> StackTop(bs), frames |-> Closers]
             /\ pc' = "put_missing"
    <3>1. missing' \in [mark : {StackTop(bs)}, frames : Seq(EndChars)]
      BY <1>1, <2>4
    <3>2. written' \o missing'.frames = Closers
      BY <1>1, <1>4, <2>4, ConcatEmptySeq
    <3>3. ~(Len(open) = 1)
      BY <1>4
    <3>4. MissingInv'
      BY <1>0, <1>4, <2>4, <3>1, <3>2, <3>3 DEF MissingInv
    <3> QED
      BY <2>2, <3>4 DEF CloseInv
  <2> QED
    BY <1>4, <2>3, <2>4
<1> QED
  BY <1>2, <1>3, <1>4 DEF PutMissing, Closers

\* A character goes out, or is refused.
LEMMA PutcClose ==
  ASSUME CloseInv, Putc
  PROVE  CloseInv'
<1>0. /\ pc = "put_missing" /\ missing.frames # <<>> /\ open' = open /\ Closers' = Closers
      /\ Len(open) > 1 /\ result = <<"none", TRUE>>
      /\ "put_missing" \notin Reading \cup {"symbol_context", "integer_context"}
      /\ "idle" \notin Reading \cup {"symbol_context", "integer_context", "put_missing"}
      /\ written \o missing.frames = Closers /\ written \in Seq(EndChars)
  BY DEF Putc, Closers, Reading, tree, CloseInv, MissingInv
<1>1. PICK V : missing \in [mark : V, frames : Seq(EndChars)]
  BY DEF CloseInv, MissingInv
<1>2. CASE Return("put", FALSE) /\ UNCHANGED output
  <2>1. /\ pc' = "idle" /\ missing' = missing /\ written' = written
        /\ result' = <<"put", FALSE>> /\ <<"put", FALSE>> # <<"put", TRUE>>
    BY <1>2 DEF Return, output
  <2>2. NestInv'
    BY <1>0, <2>1, SameChain DEF CloseInv
  <2>3. MissingInv'
    BY <1>0, <2>1 DEF CloseInv, MissingInv
  <2> QED
    BY <2>2, <2>3 DEF CloseInv
<1>3. CASE /\ written' = Append(written, Head(missing.frames))
           /\ missing' = [missing EXCEPT !.frames = Tail(@)]
           /\ Go(pc)
  <2>1. pc' = "put_missing" /\ result' = <<"none", TRUE>> /\ result' # <<"put", TRUE>>
    BY <1>0, <1>3 DEF Go
  <2>2. PICK f \in Seq(EndChars) : f = missing.frames
    BY <1>1
  <2>3. /\ Head(f) \in EndChars /\ Tail(f) \in Seq(EndChars)
        /\ f = <<Head(f)>> \o Tail(f)
    <3>1. Head(f) \in EndChars /\ Tail(f) \in Seq(EndChars)
      BY <1>0, <2>2, HeadTailProperties
    <3>2. f = <<Head(f)>> \o Tail(f)
      BY <1>0, <2>2
    <3> QED
      BY <3>1, <3>2
  <2>4. Append(written, Head(f)) \in Seq(EndChars)
    BY <1>0, <2>3, AppendProperties
  <2>5. Append(written, Head(f)) \o Tail(f) = written \o f
    <3>1. Append(written, Head(f)) = written \o <<Head(f)>>
      BY <1>0, <2>3, AppendIsConcat
    <3>2. <<Head(f)>> \in Seq(EndChars)
      BY <2>3
    <3>3. PICK t \in Seq(EndChars) : t = Tail(f)
      BY <2>3
    <3>4. PICK h \in Seq(EndChars) : h = <<Head(f)>>
      BY <3>2
    <3>6. written \in Seq(EndChars)
      BY <1>0
    <3>5. (written \o h) \o t = written \o (h \o t)
      BY <3>6, ConcatAssociative
    <3> QED
      BY <2>3, <3>1, <3>3, <3>4, <3>5
  <2>6. /\ missing' \in [mark : V, frames : Seq(EndChars)]
        /\ missing'.frames = Tail(f)
    BY <1>1, <1>3, <2>2, <2>3
  <2>7. NestInv'
    BY <1>0, <2>1, SameChain DEF CloseInv
  <2>8. /\ written' \in Seq(EndChars)
        /\ written' \o missing'.frames = Closers
    <3>1. written' = Append(written, Head(f)) /\ missing'.frames = Tail(f)
      BY <1>3, <2>2, <2>6
    <3>2. written' \o missing'.frames = written \o f
      BY <2>5, <3>1
    <3>3. written \o f = Closers
      BY <1>0, <2>2
    <3> QED
      BY <2>4, <3>1, <3>2, <3>3
  <2>9. ~(Len(open) = 1)
    BY <1>0, NestedLast DEF CloseInv, NestInv
  <2>10. MissingInv'
    BY <1>0, <2>1, <2>6, <2>8, <2>9 DEF MissingInv
  <2> QED
    BY <2>7, <2>10 DEF CloseInv
<1> QED
  BY <1>2, <1>3 DEF Putc

\* All is written, or what put_missing allocated is not on top any more.
LEMMA PutDoneClose ==
  ASSUME CloseInv, PutDone
  PROVE  CloseInv'
<1>0. /\ pc = "put_missing" /\ missing.frames = <<>> /\ open' = open /\ Closers' = Closers
      /\ Len(open) > 1 /\ result = <<"none", TRUE>> /\ written' = written
      /\ "thrown" \notin Reading \cup {"symbol_context", "integer_context", "put_missing"}
      /\ "idle" \notin Reading \cup {"symbol_context", "integer_context", "put_missing"}
      /\ <<"none", TRUE>> # <<"put", TRUE>>
  BY DEF PutDone, Closers, Reading, CloseInv, MissingInv
<1>1. written \in Seq(EndChars) /\ written = Closers
  BY <1>0, ConcatEmptySeq DEF CloseInv, MissingInv
<1>2. CASE (\E err : Throw(err)) /\ missing' = missing
  <2>1. pc' = "thrown" /\ result' = result
    BY <1>2 DEF Throw
  <2>2. NestInv'
    BY <1>0, <2>1, SameChain DEF CloseInv
  <2>3. MissingInv'
    BY <1>0, <1>2, <2>1 DEF CloseInv, MissingInv
  <2> QED
    BY <2>2, <2>3 DEF CloseInv
<1>3. CASE Return("put", TRUE) /\ missing' = NotWriting
  <2>1. pc' = "idle" /\ result' = <<"put", TRUE>>
    BY <1>3 DEF Return
  <2>2. NestInv'
    BY <1>0, <2>1, SameChain DEF CloseInv
  <2>3. /\ missing' \in [mark : {NULL}, frames : Seq(EndChars)]
        /\ missing'.mark = NULL
    <3>1. <<>> \in Seq(EndChars)
      OBVIOUS
    <3> QED
      BY <1>3, <3>1 DEF NotWriting
  <2>4. ~(Len(open) = 1)
    BY <1>0, NestedLast DEF CloseInv, NestInv
  <2>5. MissingInv'
    BY <1>0, <1>1, <2>1, <2>3, <2>4 DEF MissingInv
  <2> QED
    BY <2>2, <2>5 DEF CloseInv
<1> QED
  BY <1>2, <1>3 DEF PutDone

\* reader_init begins with a root alone, or leaves the chain it found.
LEMMA RecoverClose ==
  ASSUME CloseInv, Recover
  PROVE  CloseInv'
<1>1. /\ pc = "thrown" /\ missing' = NotWriting /\ written' = <<>>
      /\ result' = <<"none", TRUE>>
      /\ \/ open' = <<Context(bs, "AST_LIST", "AST_NOPREFIX", 1)>> /\ pc' = "idle"
         \/ UNCHANGED <<open, pc>>
  BY DEF Recover
<1>2. NestInv'
  <2>1. CASE open' = <<Context(bs, "AST_LIST", "AST_NOPREFIX", 1)>> /\ pc' = "idle"
    <3>1. PICK V : V = {"AST_NOPREFIX", StackTop(bs), 1, FALSE}
      OBVIOUS
    <3>2. Context(bs, "AST_LIST", "AST_NOPREFIX", 1) \in ContextOf(V)
      BY <3>1 DEF Context, ContextOf, Types
    <3>3. Context(bs, "AST_LIST", "AST_NOPREFIX", 1).type = "AST_LIST"
      BY DEF Context
    <3>4. open' \in Seq(ContextOf(V)) /\ open' # <<>> /\ open'[1].type = "AST_LIST"
      BY <2>1, <3>2, <3>3
    <3> QED
      BY <2>1, <3>4 DEF NestInv, Nested
  <2>2. CASE UNCHANGED <<open, pc>>
    BY <2>2, SameChain DEF CloseInv
  <2> QED
    BY <1>1, <2>1, <2>2
<1>3. MissingInv'
  <2>1. /\ pc' \in {"idle", "thrown"} /\ missing'.mark = NULL
        /\ missing' \in [mark : {NULL}, frames : Seq(EndChars)]
        /\ <<>> \in Seq(EndChars) /\ <<"none", TRUE>> # <<"put", TRUE>>
    BY <1>1 DEF NotWriting
  <2> QED
    BY <1>1, <2>1 DEF MissingInv, Reading
<1> QED
  BY <1>2, <1>3 DEF CloseInv

\* Nothing happens.
LEMMA StutterClose ==
  ASSUME CloseInv, UNCHANGED vars
  PROVE  CloseInv'
<1>1. UNCHANGED <<open, pc, missing, written, result>>
  BY DEF vars, tree, output
<1> QED
  BY <1>1 DEF CloseInv, NestInv, MissingInv, Nested, Current, Closers

\* However often putc refuses and put_missing is called again, with any
\* number of open lists, each of them and the open token are closed once,
\* innermost first, and TRUE is the answer only when all of them are.
THEOREM EachClosedOnce == Spec => []MissingWrittenOnce
<1>1. Init => CloseInv
  BY InitClose
<1>2. CloseInv /\ [Next]_vars => CloseInv'
  BY ReadClose, CommentClose, NextNonWsClose, NextCellClose, SymbolContextClose,
     IntegerContextClose, PutMissingClose, PutcClose, PutDoneClose, RecoverClose,
     StutterClose DEF Next, Work
<1>3. CloseInv => MissingWrittenOnce
  BY DEF CloseInv, MissingInv, MissingWrittenOnce
<1> QED
  BY <1>1, <1>2, <1>3, PTL DEF Spec

=============================================================================
