------------------------------- MODULE RpcProofs -----------------------------
(*****************************************************************************)
(* What Rpc's parser has in common with a reader of JSON, for all depths and *)
(* words: the scans are where their depths and quotes say, and the parser    *)
(* refuses a text with the reader, except inside values.                     *)
(*                                                                           *)
(* The argument: each branch of a scan is one of a few moves (start a        *)
(* string, end it, pass over a symbol, count a bracket, refuse), and each    *)
(* move of the reader changes its stack at the end only.  Until one of them  *)
(* refuses the text, parser and reader are at the same place, and a value    *)
(* that is passed over by counting brackets ends when the reader's stack     *)
(* says so.                                                                  *)
(*****************************************************************************)
EXTENDS Rpc, SequenceTheorems, FiniteSetTheorems, TLAPS

Strings == {"string", "keystring"}
White == Blank \ {"formfeed"}
Brackets == {"{", "["}
Names == Fields \cup {"session_id"}
Marks == Contents \cup {"absent", "twice", "atom", "object", "array"}
Readers == [at : {"value", "element", "open", "key", "keystring", "colon", "string", "after",
                  "top", "ended", "cut", "error"},
            stack : Seq(Brackets), key : Contents, sub : Contents, text : Contents,
            odd : BOOLEAN, members : [Names -> Marks]]
TopText == <<"{">>
InParamsText == <<"{", "{">>

\* The reader's own state: a place within an object is behind a brace, one within an
\* array behind a bracket.
ReaderOK(j) ==
    /\ j \in Readers
    /\ j.at \in {"open", "key", "keystring", "colon"} => j.stack # <<>> /\ Last(j.stack) = "{"
    /\ j.at = "element" => j.stack # <<>> /\ Last(j.stack) = "["
    /\ j.at = "after" => j.stack # <<>>
    /\ j.at \in {"top", "ended"} => j.stack = <<>>
    /\ j.at \notin Strings => j.text = ""

Goes(j, at) == [j EXCEPT !.at = at]
Pushed(j, at, c) == [j EXCEPT !.at = at, !.stack = Append(@, c)]
Spelled(j, c) == [j EXCEPT !.text = IF Matters(j) THEN Extend(@, c) ELSE @,
                           !.odd = @ \/ Odd(j, c)]
Letter(c) == c \notin {"quote", "newline", "formfeed", "end"}

\* What a string holds after one more symbol, and what a key is taken for.
LEMMA ContentsAre ==
    /\ \A text \in Contents, c \in Symbols : Extend(text, c) \in Contents
    /\ \A text \in Contents : Name(text) \in Contents
    /\ "" \in Contents /\ "long" \in Contents
BY Zenon DEF Contents, Extend, Name, Words, Fields

\* What the reader does at each place.
LEMMA ReadAtIs ==
    ASSUME NEW j, NEW c
    PROVE  /\ j.at = "error" => ReadAt(j, c) = j
           /\ j.at = "value" => ReadAt(j, c) = ReadValue(j, c)
           /\ j.at = "element" => ReadAt(j, c) = IF c = "]" THEN Closed(j, "array") ELSE ReadValue(j, c)
           /\ j.at \in {"open", "key"} =>
                /\ c = "quote" => ReadAt(j, c) = Goes(j, "keystring")
                /\ c = "}" /\ j.at = "open" => ReadAt(j, c) = Closed(j, "object")
                /\ c = "end" /\ j.at = "key" => ReadAt(j, c) = Goes(j, "cut")
                /\ ~(c = "quote" \/ (c = "}" /\ j.at = "open") \/ (c = "end" /\ j.at = "key"))
                     => ReadAt(j, c) = Error(j)
           /\ j.at = "colon" => ReadAt(j, c) = IF c = ":" THEN Goes(j, "value") ELSE Error(j)
           /\ j.at = "after" => ReadAt(j, c) = Behind(j, c)
           /\ j.at = "top" => ReadAt(j, c) = IF c = "end" THEN Goes(j, "ended") ELSE Error(j)
<1>1. /\ j.at = "error" => ReadAt(j, c) = j
      /\ j.at = "value" => ReadAt(j, c) = ReadValue(j, c)
      /\ j.at = "element" => ReadAt(j, c) = IF c = "]" THEN Closed(j, "array") ELSE ReadValue(j, c)
      /\ j.at = "after" => ReadAt(j, c) = Behind(j, c)
  BY Zenon DEF ReadAt
<1>2. j.at = "colon" => ReadAt(j, c) = IF c = ":" THEN Goes(j, "value") ELSE Error(j)
  BY Zenon DEF ReadAt, Goes
<1>3. j.at = "top" => ReadAt(j, c) = IF c = "end" THEN Goes(j, "ended") ELSE Error(j)
  BY Zenon DEF ReadAt, Goes
<1>4. ASSUME j.at \in {"open", "key"}
      PROVE  ReadAt(j, c) = CASE c = "quote" -> Goes(j, "keystring")
                              [] c = "}" /\ j.at = "open" -> Closed(j, "object")
                              [] c = "end" /\ j.at = "key" -> Goes(j, "cut")
                              [] OTHER -> Error(j)
  BY <1>4, Zenon DEF ReadAt, Goes
<1>5. ASSUME j.at \in {"open", "key"}
      PROVE  /\ c = "quote" => ReadAt(j, c) = Goes(j, "keystring")
             /\ c = "}" /\ j.at = "open" => ReadAt(j, c) = Closed(j, "object")
             /\ c = "end" /\ j.at = "key" => ReadAt(j, c) = Goes(j, "cut")
             /\ ~(c = "quote" \/ (c = "}" /\ j.at = "open") \/ (c = "end" /\ j.at = "key"))
                  => ReadAt(j, c) = Error(j)
  BY <1>4, <1>5, Zenon
<1> QED
  BY <1>1, <1>2, <1>3, <1>5, Zenon

\* The reader inside a string.
LEMMA ReadStringIs ==
    ASSUME NEW j, NEW c
    PROVE  /\ c = "quote" => ReadString(j, c) = IF j.at = "keystring" THEN Keyed(j) ELSE Valued(j, j.text)
           /\ ~Letter(c) /\ c # "quote" => ReadString(j, c) = Error(j)
           /\ Letter(c) => ReadString(j, c) = Spelled(j, c)
BY Zenon DEF ReadString, Letter, Spelled

\* The reader at the first symbol of a value.
LEMMA ReadValueIs ==
    ASSUME NEW j, NEW c
    PROVE  /\ c = "quote" => ReadValue(j, c) = Goes(j, "string")
           /\ c = "{" => ReadValue(j, c) = Pushed(j, "open", c)
           /\ c = "[" => ReadValue(j, c) = Pushed(j, "element", c)
           /\ c \in {"atom", "2.0"} => ReadValue(j, c) = Valued(j, "atom")
           /\ c \notin {"quote", "{", "[", "atom", "2.0"} => ReadValue(j, c) = Error(j)
BY Zenon DEF ReadValue, Goes, Pushed

\* The reader behind a value.
LEMMA BehindIs ==
    ASSUME NEW j, NEW c
    PROVE  /\ c = "," /\ Last(j.stack) = "{" => Behind(j, c) = Goes(j, "key")
           /\ c = "," /\ Last(j.stack) = "[" => Behind(j, c) = Goes(j, "value")
           /\ c = "}" /\ Last(j.stack) = "{" => Behind(j, c) = Closed(j, "object")
           /\ c = "]" /\ Last(j.stack) = "[" => Behind(j, c) = Closed(j, "array")
           /\ c \notin {",", "}", "]"} => Behind(j, c) = Error(j)
           /\ c = "}" /\ Last(j.stack) # "{" => Behind(j, c) = Error(j)
           /\ c = "]" /\ Last(j.stack) # "[" => Behind(j, c) = Error(j)
BY Zenon DEF Behind, Goes

\* The reader reads on in strings, passes over white space and goes by its place else.
LEMMA ReadIs ==
    ASSUME NEW j, NEW c
    PROVE  /\ j.at \in Strings => Read(j, c) = ReadString(j, c)
           /\ j.at \notin Strings /\ c \in White => Read(j, c) = j
           /\ j.at \notin Strings /\ c \notin White => Read(j, c) = ReadAt(j, c)
BY Zenon DEF Read, Strings, White

\* The innermost bracket.
LEMMA LastIs ==
    ASSUME NEW stack \in Seq(Brackets), stack # <<>>
    PROVE  Last(stack) \in Brackets /\ Last(stack) = stack[Len(stack)] /\ Len(stack) \in Nat /\ Len(stack) >= 1
BY DEF Last

\* What the reader does with a symbol that it does not refuse.
Moves(j, c, k) ==
    \/ j.at \notin Strings /\ c \in White /\ k = j
    \/ j.at \in Strings /\ Letter(c) /\ k = Spelled(j, c)
    \/ j.at = "keystring" /\ c = "quote" /\ k = Keyed(j)
    \/ j.at = "string" /\ c = "quote" /\ k = Valued(j, j.text)
    \/ j.at \in {"value", "element"} /\ c = "quote" /\ k = Goes(j, "string")
    \/ j.at \in {"value", "element"} /\ c = "{" /\ k = Pushed(j, "open", c)
    \/ j.at \in {"value", "element"} /\ c = "[" /\ k = Pushed(j, "element", c)
    \/ j.at \in {"value", "element"} /\ c \in {"atom", "2.0"} /\ k = Valued(j, "atom")
    \/ j.at \in {"open", "after"} /\ c = "}" /\ Last(j.stack) = "{" /\ k = Closed(j, "object")
    \/ j.at \in {"element", "after"} /\ c = "]" /\ Last(j.stack) = "[" /\ k = Closed(j, "array")
    \/ j.at \in {"open", "key"} /\ c = "quote" /\ k = Goes(j, "keystring")
    \/ j.at = "key" /\ c = "end" /\ k = Goes(j, "cut")
    \/ j.at = "colon" /\ c = ":" /\ k = Goes(j, "value")
    \/ j.at = "after" /\ c = "," /\ Last(j.stack) = "{" /\ k = Goes(j, "key")
    \/ j.at = "after" /\ c = "," /\ Last(j.stack) = "[" /\ k = Goes(j, "value")
    \/ j.at = "top" /\ c = "end" /\ k = Goes(j, "ended")

\* What the reader does not refuse is one of its moves.
LEMMA ReadMoves ==
    ASSUME NEW j, ReaderOK(j), j.at \notin {"ended", "cut", "error"}, NEW c \in Symbols,
           Read(j, c).at # "error"
    PROVE  Moves(j, c, Read(j, c))
<1>1. Error(j).at = "error"
  BY DEF Error, Reader
<1>2. CASE j.at \in Strings
  <2>1. Read(j, c) = ReadString(j, c)
    BY <1>2, ReadIs
  <2>2. CASE c = "quote"
    BY <1>2, <2>1, <2>2, ReadStringIs DEF Moves, Strings
  <2>3. CASE c # "quote"
    BY <1>1, <1>2, <2>1, <2>3, ReadStringIs, Zenon DEF Moves
  <2> QED
    BY <2>2, <2>3
<1>3. CASE j.at \notin Strings /\ c \in White
  BY <1>3, ReadIs, Zenon DEF Moves
<1>4. ASSUME j.at \notin Strings, c \notin White PROVE Moves(j, c, ReadAt(j, c))
  <2>1. ReadAt(j, c).at # "error"
    BY <1>4, ReadIs
  <2>2. CASE j.at \in {"value", "element"}
    <3>1. CASE j.at = "element" /\ c = "]"
      <4>1. Last(j.stack) = "[" /\ ReadAt(j, c) = Closed(j, "array")
        BY <3>1, ReadAtIs DEF ReaderOK
      <4> QED
        BY <3>1, <4>1 DEF Moves
    <3>2. CASE ~(j.at = "element" /\ c = "]")
      <4>1. ReadAt(j, c) = ReadValue(j, c)
        BY <2>2, <3>2, ReadAtIs
      <4> QED
        BY <1>1, <2>1, <2>2, <4>1, ReadValueIs DEF Moves
    <3> QED
      BY <3>1, <3>2
  <2>3. CASE j.at \in {"open", "key"}
    <3>1. CASE c = "quote"
      <4>1. ReadAt(j, c) = Goes(j, "keystring")
        BY <2>3, <3>1, ReadAtIs, Zenon
      <4> QED
        BY <2>3, <3>1, <4>1, Zenon DEF Moves
    <3>2. CASE c = "}" /\ j.at = "open"
      <4>1. ReadAt(j, c) = Closed(j, "object")
        BY <3>2, ReadAtIs, Zenon
      <4>2. Last(j.stack) = "{"
        BY <3>2 DEF ReaderOK
      <4> QED
        BY <3>2, <4>1, <4>2, Zenon DEF Moves
    <3>3. CASE c = "end" /\ j.at = "key"
      <4>1. ReadAt(j, c) = Goes(j, "cut")
        BY <3>3, ReadAtIs, Zenon
      <4> QED
        BY <3>3, <4>1, Zenon DEF Moves
    <3>4. c = "quote" \/ (c = "}" /\ j.at = "open") \/ (c = "end" /\ j.at = "key")
      <4>1. ReadAt(j, c) # Error(j)
        BY <1>1, <2>1, Zenon
      <4> QED
        BY <2>3, <4>1, ReadAtIs, Zenon
    <3> QED
      BY <3>1, <3>2, <3>3, <3>4
  <2>4. CASE j.at = "after"
    <3>1. Last(j.stack) \in Brackets
      BY <2>4, LastIs DEF ReaderOK, Readers
    <3>2. ReadAt(j, c) = Behind(j, c)
      BY <2>4, ReadAtIs
    <3> QED
      BY <1>1, <2>1, <2>4, <3>1, <3>2, BehindIs DEF Moves, Brackets
  <2>5. CASE j.at \in {"colon", "top"}
    BY <1>1, <2>1, <2>5, ReadAtIs DEF Moves
  <2>6. j.at \in {"value", "element", "open", "key", "after", "colon", "top"}
    BY <1>4 DEF ReaderOK, Readers, Strings
  <2> QED
    BY <2>2, <2>3, <2>4, <2>5, <2>6
<1> QED
  BY <1>2, <1>3, <1>4, ReadIs

-----------------------------------------------------------------------------
(* What the moves change. *)

\* The stacks of the text and of its params.
LEMMA Words3 ==
    /\ TopText # <<>> /\ InParamsText # <<>> /\ TopText # InParamsText
    /\ Len(TopText) = 1 /\ Len(InParamsText) = 2
    /\ TopText \in Seq(Brackets) /\ InParamsText \in Seq(Brackets)
BY DEF TopText, InParamsText, Brackets

\* Small numbers.
LEMMA Numbers ==
    /\ 1 + 1 = 2 /\ 2 - 1 = 1 /\ 1 \in 1..1 /\ 1 \in 1..(2 - 1) /\ \A i \in 1..1 : i = 1
    /\ 2 <= 2 /\ 2 >= 2 /\ 2 \in Nat /\ 2 \in Nat \ {0} /\ 1 \in 1..2 /\ 2 \in 1..2 /\ 2 \in {2, 3}
    /\ 3 - 1 = 2 /\ 1 \in 1..(3 - 1) /\ 2 \in 1..(3 - 1) /\ \A i \in 1..2 : i = 1 \/ i = 2
    /\ 3 <= 3 /\ 3 >= 3 /\ 3 >= 2 /\ 3 \in Nat /\ 3 \in Nat \ {0} /\ 3 \in {2, 3}
    /\ 2 + 1 = 3 /\ 1 \in 1..3 /\ 2 \in 1..3 /\ 3 \in 1..3
OBVIOUS

\* Depths below a member of the text and below one of the params.
LEMMA Depths ==
    /\ \A n \in Nat : n >= 2 => n > 1 /\ n # 1 /\ n # 0
    /\ \A n \in Nat : n >= 3 => n > 2 /\ n # 2 /\ n >= 2
    /\ \A n \in Nat : n = 2 => n >= 2
OBVIOUS

\* A stack's length tells it from the text's and from the params'.
LEMMA StackFacts ==
    ASSUME NEW stack \in Seq(Brackets)
    PROVE  /\ Len(stack) \in Nat /\ (stack = <<>> <=> Len(stack) = 0)
           /\ Len(stack) >= 2 => /\ Len(stack) > 1 /\ Len(stack) # 1 /\ stack # <<>>
                                /\ stack # TopText
           /\ Len(stack) >= 3 => /\ Len(stack) > 2 /\ Len(stack) # 2 /\ Len(stack) >= 2
                                /\ stack # InParamsText
           /\ Len(stack) = 2 => Len(stack) >= 2
<1>1. Len(stack) \in Nat
  BY LenProperties
<1>2. stack = <<>> <=> Len(stack) = 0
  BY EmptySeq
<1> QED
  BY <1>1, <1>2, Depths, Words3

\* Which member of the text or of the params the reader is at.
LEMMA NotedIs ==
    ASSUME NEW j
    PROVE  /\ j.stack = TopText => Noted(j) = {j.key} \cap Fields
           /\ j.stack = InParamsText /\ j.key = "params" => Noted(j) = {j.sub} \cap {"session_id"}
           /\ j.stack # TopText /\ ~(j.stack = InParamsText /\ j.key = "params") => Noted(j) = {}
<1>1. TopText # InParamsText
  BY Words3
<1>2. Noted(j) = CASE j.stack = TopText -> {j.key} \cap Fields
                   [] j.stack = InParamsText /\ j.key = "params" -> {j.sub} \cap {"session_id"}
                   [] OTHER -> {}
  BY Zenon DEF Noted, TopText, InParamsText
<1>3. j.stack = TopText => Noted(j) = {j.key} \cap Fields
  BY <1>1, <1>2, Zenon
<1>4. j.stack = InParamsText /\ j.key = "params" => Noted(j) = {j.sub} \cap {"session_id"}
  BY <1>1, <1>2, Zenon
<1>5. j.stack # TopText /\ ~(j.stack = InParamsText /\ j.key = "params") => Noted(j) = {}
  BY <1>2, Zenon
<1> QED
  BY <1>3, <1>4, <1>5

\* Going to another place changes nothing else.
LEMMA GoesIs ==
    ASSUME NEW j \in Readers, NEW at
    PROVE  /\ Goes(j, at).at = at /\ Goes(j, at).stack = j.stack /\ Goes(j, at).key = j.key
           /\ Goes(j, at).sub = j.sub /\ Goes(j, at).text = j.text /\ Goes(j, at).odd = j.odd
           /\ Goes(j, at).members = j.members
           /\ at \in {"value", "element", "open", "key", "keystring", "colon", "string", "after",
                     "top", "ended", "cut", "error"} => Goes(j, at) \in Readers
BY DEF Goes, Readers

\* Opening a bracket changes the place and the stack's end.
LEMMA PushedIs ==
    ASSUME NEW j \in Readers, NEW at \in {"open", "element"}, NEW c \in Brackets
    PROVE  /\ Pushed(j, at, c).at = at /\ Pushed(j, at, c).stack = Append(j.stack, c)
           /\ Pushed(j, at, c).key = j.key /\ Pushed(j, at, c).sub = j.sub
           /\ Pushed(j, at, c).text = j.text /\ Pushed(j, at, c).odd = j.odd
           /\ Pushed(j, at, c).members = j.members
           /\ Pushed(j, at, c) \in Readers
<1>1. Append(j.stack, c) \in Seq(Brackets)
  BY DEF Readers
<1> QED
  BY <1>1 DEF Pushed, Readers

\* A symbol of a string changes its text, and whether the text is of a kind the
\* parser knows.
LEMMA SpelledIs ==
    ASSUME NEW j \in Readers, NEW c \in Symbols
    PROVE  /\ Spelled(j, c).at = j.at /\ Spelled(j, c).stack = j.stack
           /\ Spelled(j, c).key = j.key /\ Spelled(j, c).sub = j.sub
           /\ Spelled(j, c).text = IF Matters(j) THEN Extend(j.text, c) ELSE j.text
           /\ Spelled(j, c).odd = (j.odd \/ Odd(j, c))
           /\ Spelled(j, c).members = j.members
           /\ Spelled(j, c) \in Readers
<1>1. Extend(j.text, c) \in Contents
  BY ContentsAre DEF Readers
<1>2. (j.odd \/ Odd(j, c)) \in BOOLEAN
  OBVIOUS
<1> QED
  BY <1>1, <1>2 DEF Spelled, Readers

\* The end of a key changes the key of its depth.
LEMMA KeyedIs ==
    ASSUME NEW j \in Readers
    PROVE  /\ Keyed(j).at = "colon" /\ Keyed(j).stack = j.stack /\ Keyed(j).text = ""
           /\ Keyed(j).key = IF Len(j.stack) = 1 THEN Name(j.text) ELSE j.key
           /\ Keyed(j).sub = IF Len(j.stack) = 2 THEN Name(j.text) ELSE j.sub
           /\ Keyed(j).odd = j.odd /\ Keyed(j).members = j.members
           /\ Keyed(j) \in Readers
<1>1. Name(j.text) \in Contents /\ "" \in Contents
  BY ContentsAre DEF Readers
<1> QED
  BY <1>1 DEF Keyed, Depth, Readers

\* The mark a member gets for a value.
Marked(j, v) == [m \in Names |-> IF m \notin Noted(j) THEN j.members[m]
                                ELSE IF j.members[m] = "absent" THEN v
                                ELSE "twice"]

\* A value that ends is the one of the member that is being read.
LEMMA MarkedIs ==
    ASSUME NEW j \in Readers, NEW v \in Marks, NEW f \in Names
    PROVE  /\ f \notin Noted(j) => Marked(j, v)[f] = j.members[f]
           /\ f \in Noted(j) /\ j.members[f] = "absent" => Marked(j, v)[f] = v
           /\ f \in Noted(j) /\ j.members[f] # "absent" => Marked(j, v)[f] = "twice"
BY DEF Marked

\* The end of a value changes the marks, and drops the keys that are no longer open.
LEMMA ValuedIs ==
    ASSUME NEW j \in Readers, NEW v \in Marks
    PROVE  /\ j.stack = <<>> => Valued(j, v).at = "top"
           /\ j.stack # <<>> => Valued(j, v).at = "after"
           /\ Valued(j, v).stack = j.stack /\ Valued(j, v).text = ""
           /\ Valued(j, v).key = IF Len(j.stack) > 1 THEN j.key ELSE ""
           /\ Valued(j, v).sub = IF Len(j.stack) > 2 THEN j.sub ELSE ""
           /\ Valued(j, v).odd = j.odd /\ Valued(j, v).members = Marked(j, v)
           /\ Valued(j, v) \in Readers
<1>1. DOMAIN j.members = Names
  BY DEF Readers
<1>2. Marked(j, v) \in [Names -> Marks]
  BY DEF Marked, Readers, Marks
<1>3. "" \in Contents
  BY ContentsAre
<1>4. Valued(j, v) = [j EXCEPT !.at = IF j.stack = <<>> THEN "top" ELSE "after",
              !.text = "", !.key = IF Len(j.stack) > 1 THEN @ ELSE "",
              !.sub = IF Len(j.stack) > 2 THEN @ ELSE "",
              !.members = Marked(j, v)]
  BY <1>1 DEF Valued, Depth, Marked, Readers
<1>5. Valued(j, v) \in Readers
  BY <1>2, <1>3, <1>4 DEF Readers
<1> QED
  BY <1>4, <1>5 DEF Readers

\* Behind a value the reader is where its stack says.
LEMMA ValuedIsOK ==
    ASSUME NEW j \in Readers, NEW v \in Marks
    PROVE  ReaderOK(Valued(j, v))
<1> DEFINE k == Valued(j, v)
<1>1. k \in Readers
  BY ValuedIs
<1>2. k.text = "" /\ k.stack = j.stack
  BY ValuedIs
<1>3. (j.stack = <<>> => k.at = "top") /\ (j.stack # <<>> => k.at = "after")
  BY ValuedIs, Zenon
<1> HIDE DEF k
<1>4. ReaderOK(k)
  BY <1>1, <1>2, <1>3 DEF ReaderOK, Strings
<1> QED
  BY <1>4 DEF k

\* A stack without its innermost bracket.
LEMMA FrontIs ==
    ASSUME NEW stack \in Seq(Brackets), stack # <<>>
    PROVE  /\ Front(stack) \in Seq(Brackets) /\ Len(Front(stack)) = Len(stack) - 1
           /\ \A i \in 1..(Len(stack) - 1) : Front(stack)[i] = stack[i]
BY DEF Front

\* What is closed is the value of the member that the rest of the stack is at.
Under(j) == [j EXCEPT !.stack = Front(@)]

\* The reader under the innermost bracket.
LEMMA UnderIs ==
    ASSUME NEW j \in Readers, j.stack # <<>>
    PROVE  /\ Under(j) \in Readers /\ Under(j).stack = Front(j.stack) /\ Under(j).key = j.key
           /\ Under(j).sub = j.sub /\ Under(j).odd = j.odd /\ Under(j).members = j.members
BY FrontIs DEF Under, Readers

\* Closing a bracket ends a value under it.
LEMMA ClosedIs ==
    ASSUME NEW j \in Readers, j.stack # <<>>, NEW v \in Marks
    PROVE  Closed(j, v) = Valued(Under(j), v) /\ Under(j) \in Readers
BY UnderIs DEF Closed, Under

\* The moves keep the reader where its stack says.
LEMMA ReaderStays ==
    ASSUME NEW j, ReaderOK(j), NEW c \in Symbols, NEW k, Moves(j, c, k)
    PROVE  ReaderOK(k)
<1>1. j \in Readers
  BY DEF ReaderOK
<1>2. CASE k = j
  BY <1>2
<1>3. CASE j.at \in Strings /\ k = Spelled(j, c)
  <2>1. k.at = j.at /\ k.stack = j.stack /\ k \in Readers
    BY <1>1, <1>3, SpelledIs
  <2> QED
    BY <1>3, <2>1 DEF ReaderOK, Strings
<1>4. CASE j.at = "keystring" /\ k = Keyed(j)
  BY <1>1, <1>4, KeyedIs DEF ReaderOK, Strings
<1>5. CASE \E v \in Marks : k = Valued(j, v)
  BY <1>1, <1>5, ValuedIsOK
<1>6. CASE j.stack # <<>> /\ \E v \in Marks : k = Closed(j, v)
  <2>1. PICK v \in Marks : k = Closed(j, v)
    BY <1>6
  <2>2. PICK u \in Readers : k = Valued(u, v)
    BY <1>1, <1>6, <2>1, ClosedIs
  <2> QED
    BY <2>2, ValuedIsOK
<1>7. CASE j.at \in {"value", "element"} /\ c \in Brackets
           /\ k = Pushed(j, IF c = "{" THEN "open" ELSE "element", c)
  <2>1. Append(j.stack, c) # <<>> /\ Last(Append(j.stack, c)) = c
    BY <1>1 DEF Readers, Last
  <2> QED
    <3>1. k.text = j.text /\ k.stack = Append(j.stack, c) /\ k \in Readers
          /\ k.at = IF c = "{" THEN "open" ELSE "element"
      BY <1>1, <1>7, PushedIs
    <3> QED
      BY <1>7, <2>1, <3>1 DEF ReaderOK, Strings, Brackets
<1>8. CASE j.at \in {"value", "element", "open", "key", "colon", "after", "top"}
           /\ \E at \in {"string", "value", "cut"} : k = Goes(j, at)
  <2>1. PICK at \in {"string", "value", "cut"} : k = Goes(j, at)
    BY <1>8
  <2>2. k.at = at /\ k.stack = j.stack /\ k.text = j.text /\ k \in Readers
    BY <1>1, <2>1, GoesIs
  <2> QED
    BY <1>8, <2>1, <2>2 DEF ReaderOK, Strings
<1>9. CASE j.at \in {"open", "key"} /\ k = Goes(j, "keystring")
  <2>1. k.at = "keystring" /\ k.stack = j.stack /\ k.text = j.text /\ k \in Readers
    BY <1>1, <1>9, GoesIs
  <2> QED
    BY <1>9, <2>1 DEF ReaderOK, Strings
<1>10. CASE j.at = "after" /\ Last(j.stack) = "{" /\ k = Goes(j, "key")
  <2>1. k.at = "key" /\ k.stack = j.stack /\ k.text = j.text /\ k \in Readers
    BY <1>1, <1>10, GoesIs
  <2> QED
    BY <1>10, <2>1 DEF ReaderOK, Strings
<1>11. CASE j.at = "top" /\ k = Goes(j, "ended")
  <2>1. k.at = "ended" /\ k.stack = j.stack /\ k.text = j.text /\ k \in Readers
    BY <1>1, <1>11, GoesIs
  <2> QED
    BY <1>11, <2>1 DEF ReaderOK, Strings
<1>12. j.text \in Marks /\ "atom" \in Marks /\ "object" \in Marks /\ "array" \in Marks
  BY <1>1 DEF Readers, Marks
<1>13. j.at \in {"open", "element", "after"} => j.stack # <<>>
  BY DEF ReaderOK
<1> QED
  BY <1>2, <1>3, <1>4, <1>5, <1>6, <1>7, <1>8, <1>9, <1>10, <1>11, <1>12, <1>13 DEF Moves, Brackets

\* The moves from each place.
LEMMA MovesFrom ==
    ASSUME NEW j, NEW c, NEW k, Moves(j, c, k)
    PROVE  /\ j.at = "keystring" => (Letter(c) /\ k = Spelled(j, c)) \/ (c = "quote" /\ k = Keyed(j))
           /\ j.at = "string" => (Letter(c) /\ k = Spelled(j, c)) \/ (c = "quote" /\ k = Valued(j, j.text))
           /\ j.at \notin Strings /\ c \in White => k = j
           /\ j.at = "value" /\ c \notin White =>
                \/ c = "quote" /\ k = Goes(j, "string")
                \/ c \in Brackets /\ k = Pushed(j, IF c = "{" THEN "open" ELSE "element", c)
                \/ c \in {"atom", "2.0"} /\ k = Valued(j, "atom")
           /\ j.at \in {"open", "key"} /\ c \notin White =>
                \/ c = "quote" /\ k = Goes(j, "keystring")
                \/ j.at = "open" /\ c = "}" /\ k = Closed(j, "object")
                \/ j.at = "key" /\ c = "end" /\ k = Goes(j, "cut")
           /\ j.at = "colon" /\ c \notin White => c = ":" /\ k = Goes(j, "value")
           /\ j.at = "after" /\ c \notin White =>
                \/ c = "," /\ Last(j.stack) = "{" /\ k = Goes(j, "key")
                \/ c = "," /\ Last(j.stack) = "[" /\ k = Goes(j, "value")
                \/ c = "}" /\ Last(j.stack) = "{" /\ k = Closed(j, "object")
                \/ c = "]" /\ Last(j.stack) = "[" /\ k = Closed(j, "array")
           /\ j.at = "top" /\ c \notin White => c = "end" /\ k = Goes(j, "ended")
<1>1. j.at = "keystring" => (Letter(c) /\ k = Spelled(j, c)) \/ (c = "quote" /\ k = Keyed(j))
  BY DEF Moves, Strings
<1>2. j.at = "string" => (Letter(c) /\ k = Spelled(j, c)) \/ (c = "quote" /\ k = Valued(j, j.text))
  BY DEF Moves, Strings
<1>3. j.at \notin Strings /\ c \in White => k = j
  BY DEF Moves, Strings, White, Blank
<1>4. j.at = "value" /\ c \notin White =>
        \/ c = "quote" /\ k = Goes(j, "string")
        \/ c \in Brackets /\ k = Pushed(j, IF c = "{" THEN "open" ELSE "element", c)
        \/ c \in {"atom", "2.0"} /\ k = Valued(j, "atom")
  BY DEF Moves, Strings, Brackets
<1>5. j.at \in {"open", "key"} /\ c \notin White =>
        \/ c = "quote" /\ k = Goes(j, "keystring")
        \/ j.at = "open" /\ c = "}" /\ k = Closed(j, "object")
        \/ j.at = "key" /\ c = "end" /\ k = Goes(j, "cut")
  BY DEF Moves, Strings
<1>6. j.at = "colon" /\ c \notin White => c = ":" /\ k = Goes(j, "value")
  BY DEF Moves, Strings
<1>7. j.at = "after" /\ c \notin White =>
        \/ c = "," /\ Last(j.stack) = "{" /\ k = Goes(j, "key")
        \/ c = "," /\ Last(j.stack) = "[" /\ k = Goes(j, "value")
        \/ c = "}" /\ Last(j.stack) = "{" /\ k = Closed(j, "object")
        \/ c = "]" /\ Last(j.stack) = "[" /\ k = Closed(j, "array")
  BY DEF Moves, Strings
<1>8. j.at = "top" /\ c \notin White => c = "end" /\ k = Goes(j, "ended")
  BY DEF Moves, Strings
<1> QED
  BY <1>1, <1>2, <1>3, <1>4, <1>5, <1>6, <1>7, <1>8, Zenon

-----------------------------------------------------------------------------
(* The scans. *)
Places == {"start", "key", "colon", "value", "object", "array", "scalar",
           "next", "done", "accepted", "refused", "found"}
Placed(s) == /\ s \in Scans
             /\ s.nest > 0 <=> s.at \in {"object", "array"}
             /\ s.quoted => s.at \in {"key", "value", "object", "array"}

\* Bounds and depths that occur.
LEMMA Bounds == MaxDepth \in Nat /\ 0 \in 0..MaxDepth /\ 1 \in 0..MaxDepth /\ Values \subseteq Words
BY BoundsAssumption

\* Sizes that occur: what was counted does not go down, and a full buffer stays full.
LEMMA Sizes ==
    /\ MaxObject \in Nat /\ 0 \in 0..MaxObject
    /\ \A c \in Symbols, n \in 0..MaxObject : Grown(n, c) \in 0..MaxObject
    /\ \A c \in Symbols : Grown(MaxObject, c) = MaxObject
    /\ \A c \in Symbols, m \in 0..MaxObject, n \in 0..MaxObject :
          m <= n => Grown(m, c) <= Grown(n, c) /\ m <= Grown(n, c)
<1>1. MaxObject \in Nat /\ MaxObject > 0
  BY BoundsAssumption
<1>2. ASSUME NEW c \in Symbols PROVE Bytes[c] \in Nat
  BY BoundsAssumption
<1>3. 0 \in 0..MaxObject
  BY <1>1
<1>4. ASSUME NEW c \in Symbols, NEW m \in 0..MaxObject, NEW n \in 0..MaxObject
      PROVE  /\ Grown(n, c) \in 0..MaxObject
             /\ Grown(MaxObject, c) = MaxObject
             /\ m <= n => Grown(m, c) <= Grown(n, c) /\ m <= Grown(n, c)
  BY <1>1, <1>2, <1>4 DEF Grown
<1> QED
  BY <1>1, <1>3, <1>4

\* A scan that begins is where its depth and quotes say.
LEMMA ScanIsPlaced ==
    ASSUME NEW at \in Places \ {"object", "array"}
    PROVE  Placed(Scan(at)) /\ Scan(at).at = at /\ Scan(at).nest = 0 /\ ~Scan(at).quoted
<1>1. "" \in Contents
  BY DEF Contents
<1>2. FALSE \in BOOLEAN /\ ~(0 > 0)
  OBVIOUS
<1>3. Scan(at).at = at /\ Scan(at).nest = 0 /\ ~Scan(at).quoted
  BY DEF Scan
<1>4. Scan(at) \in [at : Places, key : Contents, quoted : BOOLEAN, text : Contents, nest : 0..MaxDepth,
                    size : 0..MaxObject]
  BY <1>1, <1>2, Bounds, Sizes DEF Scan
<1> QED
  BY <1>2, <1>3, <1>4 DEF Placed, Scans, Places

\* So is one that ends with a refusal (return -1, rpc.c).
LEMMA RefusedIsPlaced == Placed(Refused) /\ Refused.at = "refused" /\ ~Refused.quoted
BY ScanIsPlaced DEF Refused, Places

\* A scan that begins a string.
LEMMA QuoteIsPlaced ==
    ASSUME NEW s, Placed(s), s.at \in {"key", "value"}
    PROVE  Placed(Quote(s)) /\ Quote(s) = [s EXCEPT !.quoted = TRUE, !.text = ""]
BY ContentsAre DEF Placed, Quote, Scans

\* A scan behind a key.
LEMMA KeyedIsPlaced ==
    ASSUME NEW key \in Contents
    PROVE  Placed([Scan("colon") EXCEPT !.key = Name(key)])
<1>1. Placed(Scan("colon")) /\ Scan("colon").at = "colon" /\ ~Scan("colon").quoted
  BY ScanIsPlaced DEF Places
<1>2. Name(key) \in Contents
  BY ContentsAre
<1> QED
  BY <1>1, <1>2 DEF Placed, Scans

\* How a string ends.
LEMMA UnquoteCases ==
    ASSUME NEW s
    PROVE  /\ s.at = "key" => Unquote(s) = [Scan("colon") EXCEPT !.key = Name(s.text)]
           /\ s.at = "value" => Unquote(s) = Scan("next")
           /\ s.at \notin {"key", "value"} => Unquote(s) = [s EXCEPT !.quoted = FALSE]
BY Zenon DEF Unquote

\* A scan behind a string.
LEMMA UnquoteIsPlaced ==
    ASSUME NEW s, Placed(s)
    PROVE  Placed(Unquote(s))
<1>1. s.text \in Contents
  BY DEF Placed, Scans
<1>2. CASE s.at = "key"
  BY <1>1, <1>2, UnquoteCases, KeyedIsPlaced
<1>3. CASE s.at = "value"
  BY <1>3, UnquoteCases, ScanIsPlaced DEF Places
<1>4. CASE s.at \notin {"key", "value"}
  <2>1. Placed([s EXCEPT !.quoted = FALSE])
    BY DEF Placed, Scans
  <2> QED
    BY <1>4, <2>1, UnquoteCases
<1> QED
  BY <1>2, <1>3, <1>4

\* A scan that counts a symbol is as it was, but for the size of an object.
LEMMA CountedIs ==
    ASSUME NEW s, Placed(s), NEW c
    PROVE  /\ Counted(s, c).at = s.at /\ Counted(s, c).key = s.key /\ Counted(s, c).quoted = s.quoted
           /\ Counted(s, c).text = s.text /\ Counted(s, c).nest = s.nest
           /\ s.at # "object" => Counted(s, c) = s
           /\ s.at = "object" => Counted(s, c).size = Grown(s.size, c)
           /\ c \in Symbols => Placed(Counted(s, c))
<1>1. s.size \in 0..MaxObject /\ s \in Scans
  BY DEF Placed, Scans
<1>2. CASE s.at # "object"
  BY <1>2 DEF Counted
<1>3. CASE s.at = "object"
  <2>1. Counted(s, c) = [s EXCEPT !.size = Grown(s.size, c)]
    BY <1>3 DEF Counted
  <2>2. /\ Counted(s, c).at = s.at /\ Counted(s, c).key = s.key /\ Counted(s, c).quoted = s.quoted
        /\ Counted(s, c).text = s.text /\ Counted(s, c).nest = s.nest
        /\ Counted(s, c).size = Grown(s.size, c)
    BY <1>1, <2>1 DEF Scans
  <2>3. c \in Symbols => Grown(s.size, c) \in 0..MaxObject
    BY <1>1, Sizes, Zenon
  <2>4. c \in Symbols => Counted(s, c) \in Scans
    BY <1>1, <2>1, <2>3 DEF Scans
  <2> QED
    BY <1>3, <2>2, <2>4, Zenon DEF Placed
<1> QED
  BY <1>2, <1>3, Zenon

\* The branches inside a string (decode_json_string, skip_json_string).
LEMMA LiteralCases ==
    ASSUME NEW s, NEW c, NEW decode \in BOOLEAN
    PROVE  /\ c = "quote" => Literal(s, c, decode) = Unquote(Counted(s, c))
           /\ c \in {"unicode", "newline", "formfeed", "end"} => Literal(s, c, decode) = Refused
           /\ c \notin {"quote", "unicode", "newline", "formfeed", "end"} =>
                /\ decode => Literal(s, c, decode) = IF Extend(s.text, c) = "long" THEN Refused
                                                     ELSE [s EXCEPT !.text = Extend(s.text, c)]
                /\ ~decode => Literal(s, c, decode) = Counted(s, c)
<1>1. c \notin {"quote", "unicode", "newline", "formfeed", "end"} =>
         Literal(s, c, decode) = IF ~decode THEN Counted(s, c)
                                 ELSE IF Extend(s.text, c) = "long" THEN Refused
                                 ELSE [s EXCEPT !.text = Extend(s.text, c)]
  BY Zenon DEF Literal
<1>2. c = "quote" => Literal(s, c, decode) = Unquote(Counted(s, c))
  BY Zenon DEF Literal
<1>3. c \in {"unicode", "newline", "formfeed", "end"} => Literal(s, c, decode) = Refused
  BY Zenon DEF Literal
<1> QED
  BY <1>1, <1>2, <1>3, Zenon

\* A scan inside a string.
LEMMA LiteralIsPlaced ==
    ASSUME NEW s, Placed(s), NEW c \in Symbols, NEW decode \in BOOLEAN
    PROVE  Placed(Literal(s, c, decode))
<1>1. Extend(s.text, c) \in Contents
  BY ContentsAre DEF Placed, Scans
<1>2. Placed([s EXCEPT !.text = Extend(s.text, c)])
  BY <1>1 DEF Placed, Scans
<1>3. CASE c = "quote"
  <2>1. Literal(s, c, decode) = Unquote(Counted(s, c))
    BY <1>3, LiteralCases, Zenon
  <2> QED
    BY <2>1, CountedIs, UnquoteIsPlaced, Zenon
<1>4. CASE c \in {"unicode", "newline", "formfeed", "end"}
  BY <1>4, LiteralCases, RefusedIsPlaced, Zenon
<1>5. CASE c \notin {"quote", "unicode", "newline", "formfeed", "end"} /\ ~decode
  <2>1. Literal(s, c, decode) = Counted(s, c)
    BY <1>5, LiteralCases, Zenon
  <2> QED
    BY <2>1, CountedIs
<1>6. CASE c \notin {"quote", "unicode", "newline", "formfeed", "end"} /\ decode
  <2>1. Literal(s, c, decode) = IF Extend(s.text, c) = "long" THEN Refused
                                ELSE [s EXCEPT !.text = Extend(s.text, c)]
    BY <1>6, LiteralCases, Zenon
  <2> QED
    BY <1>2, <2>1, RefusedIsPlaced, Zenon
<1> QED
  BY <1>3, <1>4, <1>5, <1>6, Zenon

\* The branches inside an object or array (copy_json_object_raw, skip_json_value).
Branches(s, c, open, close) ==
    /\ c \in {"quote", "escquote"} => Raw(s, c, open, close) = [Counted(s, c) EXCEPT !.quoted = TRUE]
    /\ c = open => Raw(s, c, open, close) = [Counted(s, c) EXCEPT !.nest = @ + 1]
    /\ c = close /\ s.nest > 1 => Raw(s, c, open, close) = [Counted(s, c) EXCEPT !.nest = @ - 1]
    /\ c = close /\ s.nest = 1 =>
          Raw(s, c, open, close) = IF close = "}" /\ Counted(s, c).size = MaxObject THEN Refused
                                   ELSE Scan("next")
    /\ c = "end" => Raw(s, c, open, close) = Refused
    /\ c \notin {"quote", "escquote", "end", open, close} => Raw(s, c, open, close) = Counted(s, c)

\* They are those of the code, for brackets of either kind.
LEMMA RawCases ==
    ASSUME NEW s, NEW c, NEW open, NEW close, open # close,
           {open, close} \cap {"quote", "escquote", "end"} = {}, s.nest >= 1
    PROVE  Branches(s, c, open, close)
<1>1. c \in {"quote", "escquote"} => Raw(s, c, open, close) = [Counted(s, c) EXCEPT !.quoted = TRUE]
  BY Zenon DEF Raw
<1>2. c = open => c \notin {"quote", "escquote"} /\ Raw(s, c, open, close) = [Counted(s, c) EXCEPT !.nest = @ + 1]
  BY Zenon DEF Raw
<1>3. c = close => c \notin {"quote", "escquote", open}
  OBVIOUS
<1>4. c = close /\ s.nest > 1 => Raw(s, c, open, close) = [Counted(s, c) EXCEPT !.nest = @ - 1]
  <2>1. s.nest > 1 => ~(s.nest = 1)
    OBVIOUS
  <2> QED
    BY <1>3, <2>1, Zenon DEF Raw
<1>5. c = close /\ s.nest = 1 =>
          Raw(s, c, open, close) = IF close = "}" /\ Counted(s, c).size = MaxObject THEN Refused ELSE Scan("next")
  <2>1. s.nest = 1 => ~(s.nest > 1)
    OBVIOUS
  <2> QED
    BY <1>3, <2>1, Zenon DEF Raw
<1>6. c = "end" => Raw(s, c, open, close) = Refused
  <2>1. c = "end" => c \notin {"quote", "escquote", open, close}
    OBVIOUS
  <2> QED
    BY <2>1, Zenon DEF Raw
<1>7. c \notin {"quote", "escquote", "end", open, close} => Raw(s, c, open, close) = Counted(s, c)
  BY Zenon DEF Raw
<1> QED
  BY <1>1, <1>2, <1>4, <1>5, <1>6, <1>7, Zenon DEF Branches

\* Depths that can be counted up and down.
LEMMA DepthFacts ==
    \A n \in 0..MaxDepth :
        /\ n \in Int
        /\ n > 0 => n >= 1 /\ (n > 1 \/ n = 1)
        /\ n < MaxDepth => n + 1 \in 0..MaxDepth /\ n + 1 > 0
        /\ n > 1 => n - 1 \in 0..MaxDepth /\ n - 1 > 0
BY Bounds

\* A scan inside an object or array.
LEMMA RawIsPlaced ==
    ASSUME NEW s, Placed(s), s.at \in {"object", "array"}, NEW c \in Symbols,
           c \in {"{", "["} => s.nest < MaxDepth
    PROVE  Placed(RawOf(s, c))
<1>1. s.nest \in 0..MaxDepth /\ s.nest \in Int /\ s.nest >= 1
  <2>1. s.nest \in 0..MaxDepth
    BY DEF Placed, Scans
  <2>2. s.nest > 0
    BY DEF Placed
  <2> QED
    BY <2>1, <2>2, DepthFacts
<1> DEFINE u == Counted(s, c)
<1>9. Placed(u) /\ u.at = s.at /\ u.nest = s.nest
  BY CountedIs
<1> HIDE DEF u
<1>10. Placed([u EXCEPT !.quoted = TRUE])
  BY <1>9 DEF Placed, Scans
<1>2. Placed([Counted(s, c) EXCEPT !.quoted = TRUE])
  BY <1>10 DEF u
<1>3. c \in {"{", "["} => Placed([Counted(s, c) EXCEPT !.nest = @ + 1])
  <2>1. c \in {"{", "["} => s.nest + 1 \in 0..MaxDepth /\ s.nest + 1 > 0
    BY <1>1, DepthFacts, Zenon
  <2>2. c \in {"{", "["} => Placed([u EXCEPT !.nest = @ + 1])
    BY <1>9, <2>1 DEF Placed, Scans
  <2> QED
    BY <2>2 DEF u
<1>4. s.nest > 1 => Placed([Counted(s, c) EXCEPT !.nest = @ - 1])
  <2>1. s.nest > 1 => s.nest - 1 \in 0..MaxDepth /\ s.nest - 1 > 0
    BY <1>1, DepthFacts, Zenon
  <2>2. s.nest > 1 => Placed([u EXCEPT !.nest = @ - 1])
    BY <1>9, <2>1 DEF Placed, Scans
  <2> QED
    BY <2>2 DEF u
<1>5. Placed(Counted(s, c)) /\ Placed(Refused) /\ Placed(Scan("next"))
  BY CountedIs, RefusedIsPlaced, ScanIsPlaced DEF Places
<1>6. s.nest > 1 \/ s.nest = 1
  BY <1>1, DepthFacts DEF Placed
<1>7. ASSUME NEW open, NEW close, open # close, open \in {"{", "["},
             {open, close} \cap {"quote", "escquote", "end"} = {}
      PROVE  Placed(Raw(s, c, open, close))
  <2>1. Branches(s, c, open, close)
    BY <1>1, <1>7, RawCases
  <2> QED
    BY <1>2, <1>3, <1>4, <1>5, <1>6, <1>7, <2>1, Zenon DEF Branches
<1>8. Placed(Raw(s, c, "{", "}")) /\ Placed(Raw(s, c, "[", "]"))
  <2>1. /\ {"{", "}"} \cap {"quote", "escquote", "end"} = {} /\ "{" # "}"
        /\ {"[", "]"} \cap {"quote", "escquote", "end"} = {} /\ "[" # "]"
    OBVIOUS
  <2> QED
    BY <1>7, <2>1, Zenon
<1> QED
  BY <1>8, Zenon DEF RawOf

\* How a value that is passed over begins.
LEMMA SkipValueCases ==
    ASSUME NEW s, NEW c
    PROVE  /\ c = "quote" => SkipValue(s, c) = Quote(s)
           /\ c = "{" => SkipValue(s, c) = [s EXCEPT !.at = "object", !.nest = 1, !.size = Grown(0, c)]
           /\ c = "[" => SkipValue(s, c) = [s EXCEPT !.at = "array", !.nest = 1]
           /\ c \notin {"quote", "{", "["} => SkipValue(s, c) = [s EXCEPT !.at = "scalar"]
BY Zenon DEF SkipValue

\* A scan at the beginning of such a value.
LEMMA SkipValueIsPlaced ==
    ASSUME NEW s, Placed(s), s.at = "value", ~s.quoted, NEW c
    PROVE  Placed(SkipValue(s, c))
<1>1. /\ Placed([s EXCEPT !.at = "array", !.nest = 1])
      /\ c = "{" => Placed([s EXCEPT !.at = "object", !.nest = 1, !.size = Grown(0, c)])
  <2>1. 1 \in 0..MaxDepth /\ 1 > 0
    BY Bounds
  <2>2. c = "{" => Grown(0, c) \in 0..MaxObject
    <3>1. "{" \in Symbols
      BY DEF Symbols
    <3> QED
      BY <3>1, Sizes, Zenon
  <2>3. Placed([s EXCEPT !.at = "array", !.nest = 1])
    BY <2>1 DEF Placed, Scans
  <2>4. ASSUME NEW n \in 0..MaxObject
        PROVE  Placed([s EXCEPT !.at = "object", !.nest = 1, !.size = n])
    BY <2>1 DEF Placed, Scans
  <2> QED
    BY <2>2, <2>3, <2>4, Zenon
<1>2. Placed([s EXCEPT !.at = "scalar"])
  BY DEF Placed, Scans
<1>3. Placed(Quote(s))
  BY QuoteIsPlaced
<1> QED
  BY <1>1, <1>2, <1>3, SkipValueCases, Zenon

\* What may follow a value.
LEMMA AfterValueIs ==
    ASSUME NEW c
    PROVE  /\ c = "," => AfterValue(c) = Scan("key")
           /\ c = "}" => AfterValue(c) = Scan("done")
           /\ c \notin {",", "}"} => AfterValue(c) = Refused
BY Zenon DEF AfterValue

\* A scan behind a value.
LEMMA AfterValueIsPlaced ==
    ASSUME NEW c
    PROVE  Placed(AfterValue(c)) /\ ~AfterValue(c).quoted
<1>1. /\ Placed(Scan("key")) /\ ~Scan("key").quoted
      /\ Placed(Scan("done")) /\ ~Scan("done").quoted
  BY ScanIsPlaced DEF Places
<1> QED
  BY <1>1, AfterValueIs, RefusedIsPlaced, Zenon

\* Where strings, nested values and skipped values lead.
LEMMA PlacesAfter ==
    ASSUME NEW s, Placed(s), NEW c \in Symbols
    PROVE  /\ \A decode \in BOOLEAN : Literal(s, c, decode).at \in {s.at, "colon", "next", "refused"}
           /\ s.at \in {"object", "array"} => RawOf(s, c).at \in {s.at, "next", "refused"}
           /\ s.at = "value" => SkipValue(s, c).at \in {"value", "object", "array", "scalar"}
<1>1. \A at \in {"colon", "next", "refused"} : Scan(at).at = at
  BY DEF Scan
<1> DEFINE t == Counted(s, c)
<1>7. t.at = s.at /\ Placed(t)
  BY CountedIs
<1>2. Refused.at = "refused" /\ Counted(s, c).at = s.at /\ Quote(s).at = s.at
  BY <1>1, <1>7 DEF Refused, Quote, Placed, Scans
<1> HIDE DEF t
<1>3. Unquote(t).at \in {s.at, "colon", "next"}
  <2>1. [Scan("colon") EXCEPT !.key = Name(t.text)].at = "colon"
    BY DEF Scan
  <2>2. [t EXCEPT !.quoted = FALSE].at = t.at
    BY <1>7 DEF Placed, Scans
  <2> QED
    BY <1>1, <1>7, <2>1, <2>2, UnquoteCases, Zenon
<1>4. ASSUME NEW decode \in BOOLEAN
      PROVE  Literal(s, c, decode).at \in {s.at, "colon", "next", "refused"}
  <2>1. [s EXCEPT !.text = Extend(s.text, c)].at = s.at
    BY DEF Placed, Scans
  <2>2. CASE c = "quote"
    <3>1. Literal(s, c, decode) = Unquote(t)
      BY <2>2, LiteralCases, Zenon DEF t
    <3> QED
      BY <1>3, <3>1, Zenon
  <2>3. CASE c \in {"unicode", "newline", "formfeed", "end"}
    <3>1. Literal(s, c, decode) = Refused
      BY <2>3, LiteralCases, Zenon
    <3> QED
      BY <1>2, <3>1, Zenon
  <2>4. CASE c \notin {"quote", "unicode", "newline", "formfeed", "end"} /\ decode
    <3>1. Literal(s, c, decode) = IF Extend(s.text, c) = "long" THEN Refused
                                  ELSE [s EXCEPT !.text = Extend(s.text, c)]
      BY <2>4, LiteralCases, Zenon
    <3>2. Literal(s, c, decode) \in {Refused, [s EXCEPT !.text = Extend(s.text, c)]}
      BY <3>1, Zenon
    <3> QED
      BY <1>2, <2>1, <3>2, Zenon
  <2>5. CASE c \notin {"quote", "unicode", "newline", "formfeed", "end"} /\ ~decode
    <3>1. Literal(s, c, decode) = Counted(s, c)
      BY <2>5, LiteralCases, Zenon
    <3> QED
      BY <1>2, <3>1, Zenon
  <2> QED
    BY <2>2, <2>3, <2>4, <2>5, Zenon
<1>5. ASSUME NEW open, NEW close
      PROVE  Raw(s, c, open, close).at \in {s.at, "next", "refused"}
  <2>1. /\ [t EXCEPT !.quoted = TRUE].at = s.at
        /\ [t EXCEPT !.nest = @ + 1].at = s.at
        /\ [t EXCEPT !.nest = @ - 1].at = s.at
    BY <1>7 DEF Placed, Scans
  <2> QED
    BY <1>1, <1>2, <2>1, Zenon DEF Raw, t
<1>6. ASSUME s.at = "value" PROVE SkipValue(s, c).at \in {"value", "object", "array", "scalar"}
  <2>1. /\ [s EXCEPT !.at = "object", !.nest = 1, !.size = Grown(0, c)].at = "object"
        /\ [s EXCEPT !.at = "array", !.nest = 1].at = "array"
        /\ [s EXCEPT !.at = "scalar"].at = "scalar"
    BY DEF Placed, Scans
  <2>2. CASE c = "quote"
    <3>1. SkipValue(s, c) = Quote(s)
      BY <2>2, SkipValueCases, Zenon
    <3> QED
      BY <1>2, <1>6, <3>1, Zenon
  <2>3. CASE c = "{"
    <3>1. SkipValue(s, c) = [s EXCEPT !.at = "object", !.nest = 1, !.size = Grown(0, c)]
      BY <2>3, SkipValueCases, Zenon
    <3> QED
      BY <2>1, <3>1, Zenon
  <2>4. CASE c = "["
    <3>1. SkipValue(s, c) = [s EXCEPT !.at = "array", !.nest = 1]
      BY <2>4, SkipValueCases, Zenon
    <3> QED
      BY <2>1, <3>1, Zenon
  <2>5. CASE c \notin {"quote", "{", "["}
    <3>1. SkipValue(s, c) = [s EXCEPT !.at = "scalar"]
      BY <2>5, SkipValueCases, Zenon
    <3> QED
      BY <2>1, <3>1, Zenon
  <2> QED
    BY <2>2, <2>3, <2>4, <2>5, Zenon
<1> QED
  BY <1>4, <1>5, <1>6, Zenon DEF RawOf

\* The head of the loop that searches the params.
LEMMA MemberIs ==
    ASSUME NEW s, NEW c
    PROVE  /\ c = "," /\ s.at # "key" => Member(s, c) = Scan("key")
           /\ c = "quote" => Member(s, c) = Quote(Scan("key"))
           /\ ~(c = "," /\ s.at # "key") /\ c # "quote" => Member(s, c) = Refused
BY Zenon DEF Member

Searching(s) == Placed(s) /\ s.at \notin {"done", "accepted"}

\* The search goes on from there, or gives up.
LEMMA MemberIsSearching ==
    ASSUME NEW s, NEW c
    PROVE  Searching(Member(s, c))
<1>1. Searching(Scan("key")) /\ Searching(Refused)
  BY ScanIsPlaced, RefusedIsPlaced DEF Searching, Places
<1>2. Searching(Quote(Scan("key")))
  <2>1. Scan("key").at = "key"
    BY ScanIsPlaced DEF Places
  <2> QED
    BY <1>1, <2>1, QuoteIsPlaced DEF Searching, Quote, Placed, Scans
<1> QED
  BY <1>1, <1>2, MemberIs, Zenon

\* What the search does at each place.
LEMMA ExtractAtIs ==
    ASSUME NEW s, NEW c
    PROVE  /\ s.at \in {"found", "refused"} => ExtractAt(s, c) = s
           /\ s.at = "start" => ExtractAt(s, c) = Scan("key")
           /\ s.at = "colon" => ExtractAt(s, c) = IF c = ":" THEN [s EXCEPT !.at = "value"] ELSE Refused
           /\ InSession(s) => ExtractAt(s, c) = IF c = "quote" THEN Quote(s) ELSE Refused
           /\ s.at = "value" /\ ~InSession(s) =>
                 ExtractAt(s, c) = IF EndsScalar(c) THEN Member(s, c) ELSE SkipValue(s, c)
           /\ s.at \in {"object", "array"} => ExtractAt(s, c) = RawOf(s, c)
           /\ s.at = "scalar" => ExtractAt(s, c) = IF EndsScalar(c) THEN Member(s, c) ELSE s
           /\ s.at \in {"key", "next"} => ExtractAt(s, c) = Member(s, c)
BY Zenon DEF ExtractAt, InSession

\* The search stays where its depth and quotes say.
LEMMA ExtractIsSearching ==
    ASSUME NEW s, Searching(s), NEW c \in Symbols, c \in {"{", "["} => s.nest < MaxDepth
    PROVE  Searching(Extract(s, c))
<1>1. Placed(s) /\ s.at \notin {"done", "accepted"} /\ s.at \in Places
  BY DEF Searching, Placed, Scans, Places
<1>2. Searching(ExtractString(s, c))
  <2>1. Searching([Scan("found") EXCEPT !.text = s.text])
    <3>1. Placed(Scan("found")) /\ Scan("found").at = "found" /\ s.text \in Contents
      BY <1>1, ScanIsPlaced DEF Places, Placed, Scans
    <3> QED
      BY <3>1 DEF Searching, Placed, Scans
  <2>2. Searching(Literal(s, c, InSession(s) \/ s.at = "key"))
    BY <1>1, LiteralIsPlaced, PlacesAfter DEF Searching
  <2> QED
    BY <2>1, <2>2, Zenon DEF ExtractString
<1>3. ASSUME ~s.quoted PROVE Searching(ExtractAt(s, c))
  <2>1. CASE s.at \in {"found", "refused"}
    <3>1. ExtractAt(s, c) = s
      BY <2>1, ExtractAtIs, Zenon
    <3> QED
      BY <3>1, Zenon
  <2>2. CASE s.at = "start"
    <3>1. ExtractAt(s, c) = Scan("key")
      BY <2>2, ExtractAtIs, Zenon
    <3> QED
      BY <3>1, ScanIsPlaced DEF Searching, Places
  <2>3. CASE s.at = "colon"
    <3>1. Searching([s EXCEPT !.at = "value"])
      BY <1>1, <1>3, <2>3 DEF Searching, Placed, Scans
    <3>2. Searching(Refused)
      BY RefusedIsPlaced DEF Searching
    <3> QED
      BY <2>3, <3>1, <3>2, ExtractAtIs, Zenon
  <2>4. CASE InSession(s)
    <3>1. Searching(Quote(s))
      BY <1>1, <2>4, QuoteIsPlaced DEF InSession, Searching, Quote, Placed, Scans
    <3>2. Searching(Refused)
      BY RefusedIsPlaced DEF Searching
    <3> QED
      BY <2>4, <3>1, <3>2, ExtractAtIs, Zenon
  <2>5. CASE s.at = "value" /\ ~InSession(s)
    <3>1. Searching(SkipValue(s, c))
      BY <1>1, <1>3, <2>5, SkipValueIsPlaced, PlacesAfter DEF Searching
    <3> QED
      <4>1. ExtractAt(s, c) = IF EndsScalar(c) THEN Member(s, c) ELSE SkipValue(s, c)
        BY <2>5, ExtractAtIs
      <4> QED
        BY <3>1, <4>1, MemberIsSearching, Zenon
  <2>6. CASE s.at \in {"object", "array"}
    <3>1. ExtractAt(s, c) = RawOf(s, c)
      BY <2>6, ExtractAtIs
    <3>2. Placed(RawOf(s, c))
      BY <1>1, <2>6, RawIsPlaced
    <3>3. RawOf(s, c).at \in {s.at, "next", "refused"}
      BY <1>1, <2>6, PlacesAfter
    <3> QED
      BY <2>6, <3>1, <3>2, <3>3 DEF Searching
  <2>7. CASE s.at = "scalar"
    <3>1. ExtractAt(s, c) = IF EndsScalar(c) THEN Member(s, c) ELSE s
      BY <2>7, ExtractAtIs
    <3> QED
      BY <3>1, MemberIsSearching, Zenon
  <2>8. CASE s.at \in {"key", "next"}
    <3>1. ExtractAt(s, c) = Member(s, c)
      BY <2>8, ExtractAtIs
    <3> QED
      BY <3>1, MemberIsSearching
  <2> QED
    BY <1>1, <2>1, <2>2, <2>3, <2>4, <2>5, <2>6, <2>7, <2>8 DEF Places
<1> QED
  BY <1>2, <1>3, Zenon DEF Extract
-----------------------------------------------------------------------------
(* The scans with the rest of the state. *)

\* A string that is copied into a field fits it.
Fits(s) == s.quoted /\ (s.at = "key" \/ (s.at = "value" /\ s.key \in Required)) => s.text # "long"

TypeInv == /\ TypeOK
           /\ Placed(parser) /\ Fits(parser)
           /\ Searching(params)

\* Before the first symbol.
LEMMA InitIsTyped == Init => TypeInv
<1> SUFFICES ASSUME Init PROVE TypeInv
  OBVIOUS
<1>1. Placed(Scan("start")) /\ Scan("start").at = "start" /\ ~Scan("start").quoted
  BY ScanIsPlaced DEF Places
<1>2. request \in [{"id", "method"} -> Contents \ {"long"}]
  <2>1. "" \in Contents \ {"long"}
    BY DEF Contents
  <2> QED
    BY <2>1 DEF Init
<1>3. note \in [size : 0..MaxObject, big : BOOLEAN, lost : BOOLEAN]
  BY Sizes DEF Init
<1> QED
  BY <1>1, <1>2, <1>3 DEF Init, TypeInv, TypeOK, Fits, Searching, Placed

\* What the parser does at the first symbol of a value.
LEMMA ParseValueIs ==
    ASSUME NEW c, ParseValue(c)
    PROVE  /\ parser.at = "value" /\ ~parser.quoted /\ UNCHANGED <<seen, request>>
           /\ parser.key \in Required => parser' = IF c = "quote" THEN Quote(parser) ELSE Refused
           /\ parser.key = "params" => parser' = IF c = "{" THEN SkipValue(parser, c) ELSE Refused
           /\ parser.key \notin Fields =>
                 parser' = IF EndsScalar(c) THEN AfterValue(c) ELSE SkipValue(parser, c)
<1>1. "params" \notin Required
  BY DEF Required
<1> QED
  BY <1>1, Zenon DEF ParseValue, Fields

\* What the parser does at each place.
LEMMA ParseOtherIs ==
    ASSUME NEW c, ParseOther(c)
    PROVE  /\ ~parser.quoted /\ ~SkipsBlank(parser, c) /\ UNCHANGED <<seen, request>>
           /\ parser.at \in {"start", "key", "object", "array", "scalar", "next", "done",
                             "accepted", "refused"}
           /\ parser.at = "start" => parser' = IF c = "{" THEN Scan("key") ELSE Refused
           /\ parser.at = "key" =>
                /\ c = "quote" => parser' = Quote(parser)
                /\ c = "end" => parser' = Checked
                /\ c \notin {"quote", "end"} => parser' = Refused
           /\ parser.at \in {"object", "array"} => parser' = RawOf(parser, c)
           /\ parser.at = "scalar" => parser' = IF EndsScalar(c) THEN AfterValue(c) ELSE parser
           /\ parser.at = "next" => parser' = AfterValue(c)
           /\ parser.at = "done" => parser' = IF c = "end" THEN Checked ELSE Refused
           /\ parser.at \in {"accepted", "refused"} => parser' = parser
<1>1. parser.at = "key" => parser' = CASE c = "quote" -> Quote(parser)
                                       [] c = "end" -> Checked
                                       [] OTHER -> Refused
  BY DEF ParseOther
<1>2. parser.at = "key" /\ c = "quote" => parser' = Quote(parser)
  BY <1>1, Zenon
<1>3. parser.at = "key" /\ c = "end" => parser' = Checked
  BY <1>1, Zenon
<1>4. parser.at = "key" /\ c \notin {"quote", "end"} => parser' = Refused
  BY <1>1, Zenon
<1>5. /\ ~parser.quoted /\ ~SkipsBlank(parser, c) /\ UNCHANGED <<seen, request>>
      /\ parser.at \in {"start", "key", "object", "array", "scalar", "next", "done",
                        "accepted", "refused"}
  BY DEF ParseOther
<1>6. /\ parser.at = "start" => parser' = IF c = "{" THEN Scan("key") ELSE Refused
      /\ parser.at \in {"object", "array"} => parser' = RawOf(parser, c)
      /\ parser.at = "scalar" => parser' = IF EndsScalar(c) THEN AfterValue(c) ELSE parser
      /\ parser.at = "next" => parser' = AfterValue(c)
      /\ parser.at = "done" => parser' = IF c = "end" THEN Checked ELSE Refused
      /\ parser.at \in {"accepted", "refused"} => parser' = parser
  BY DEF ParseOther
<1> QED
  BY <1>2, <1>3, <1>4, <1>5, <1>6, Zenon

\* A string that grows too long for its field is refused.
LEMMA LiteralFits ==
    ASSUME NEW s, Placed(s), NEW c \in Symbols, s.quoted,
           NEW decode \in BOOLEAN, s.at = "key" \/ (s.at = "value" /\ s.key \in Required) => decode
    PROVE  Fits(Literal(s, c, decode))
<1> DEFINE t == Counted(s, c)
<1>6. Placed(t) /\ t.at = s.at /\ t.key = s.key
  BY CountedIs
<1> HIDE DEF t
<1>1. Fits(Refused) /\ Fits(Unquote(t))
  <2>1. ~Refused.quoted /\ ~Scan("next").quoted
    BY RefusedIsPlaced, ScanIsPlaced DEF Places
  <2>2. ~[t EXCEPT !.quoted = FALSE].quoted
    BY <1>6 DEF Placed, Scans
  <2>3. ~[Scan("colon") EXCEPT !.key = Name(t.text)].quoted
    BY DEF Scan
  <2> QED
    BY <2>1, <2>2, <2>3, UnquoteCases DEF Fits
<1>2. CASE c = "quote"
  <2>1. Literal(s, c, decode) = Unquote(t)
    BY <1>2, LiteralCases, Zenon DEF t
  <2> QED
    BY <1>1, <2>1
<1>3. CASE c \in {"unicode", "newline", "formfeed", "end"}
  BY <1>1, <1>3, LiteralCases, Zenon
<1>4. CASE c \notin {"quote", "unicode", "newline", "formfeed", "end"} /\ decode
  <2>1. Literal(s, c, decode) = IF Extend(s.text, c) = "long" THEN Refused
                                ELSE [s EXCEPT !.text = Extend(s.text, c)]
    BY <1>4, LiteralCases, Zenon
  <2>2. [s EXCEPT !.text = Extend(s.text, c)].text = Extend(s.text, c)
    BY DEF Placed, Scans
  <2> QED
    BY <1>1, <2>1, <2>2 DEF Fits
<1>5. CASE c \notin {"quote", "unicode", "newline", "formfeed", "end"} /\ ~decode
  <2>1. Literal(s, c, decode) = Counted(s, c)
    BY <1>5, LiteralCases, Zenon
  <2>2. Counted(s, c).at = s.at /\ Counted(s, c).key = s.key
    BY CountedIs
  <2> QED
    BY <1>5, <2>1, <2>2 DEF Fits
<1> QED
  BY <1>2, <1>3, <1>4, <1>5, Zenon

\* A text that ended is accepted or refused.
LEMMA CheckedIsPlaced == Placed(Checked) /\ Fits(Checked) /\ ~Checked.quoted
<1>1. Placed(Scan("accepted")) /\ ~Scan("accepted").quoted
  BY ScanIsPlaced DEF Places
<1> QED
  BY <1>1, RefusedIsPlaced DEF Checked, Fits

\* An empty string fits every field.
LEMMA QuoteFits ==
    ASSUME NEW s, Placed(s)
    PROVE  Fits(Quote(s))
BY DEF Fits, Quote, Placed, Scans

\* Each action of the parser keeps it where its depth and quotes say.
LEMMA ParseIsTyped ==
    ASSUME TypeInv, NEW c \in Symbols, Parse(c), c \in {"{", "["} => parser.nest < MaxDepth
    PROVE  /\ Placed(parser)' /\ Fits(parser)'
           /\ seen' \subseteq Fields
           /\ request' \in [{"id", "method"} -> Contents \ {"long"}]
<1>1. /\ Placed(parser) /\ Fits(parser) /\ seen \subseteq Fields
      /\ request \in [{"id", "method"} -> Contents \ {"long"}]
      /\ parser.text \in Contents
  BY DEF TypeInv, TypeOK, Placed, Scans
<1>2. Placed(Refused) /\ Fits(Refused)
  BY RefusedIsPlaced DEF Fits
<1>3. CASE ParseString(c)
  <2>1. parser.quoted
    BY <1>3 DEF ParseString
  <2>2. Placed(Literal(parser, c, InField \/ parser.at = "key"))
    BY <1>1, LiteralIsPlaced
  <2>3. Fits(Literal(parser, c, InField \/ parser.at = "key"))
    BY <1>1, <2>1, LiteralFits DEF InField
  <2>4. request' \in [{"id", "method"} -> Contents \ {"long"}]
    <3>1. CASE c = "quote" /\ InField /\ parser.key \in DOMAIN request
      <4>1. parser.text \in Contents \ {"long"}
        BY <1>1, <2>1, <3>1 DEF Fits, InField
      <4>2. request' = [request EXCEPT ![parser.key] = parser.text]
        BY <1>3, <3>1 DEF ParseString
      <4> QED
        BY <1>1, <3>1, <4>1, <4>2
    <3>2. CASE ~(c = "quote" /\ InField /\ parser.key \in DOMAIN request)
      <4>1. request' = request
        BY <1>3, <3>2 DEF ParseString
      <4> QED
        BY <1>1, <4>1
    <3> QED
      BY <3>1, <3>2
  <2>5. parser' \in {Refused, Literal(parser, c, InField \/ parser.at = "key")} /\ seen' = seen
    BY <1>3 DEF ParseString
  <2> QED
    BY <1>1, <1>2, <2>2, <2>3, <2>4, <2>5
<1>4. CASE ParseColon(c)
  <2>1. /\ parser' \in {Refused, [parser EXCEPT !.at = "value"]}
        /\ seen' \in {seen, seen \cup ({parser.key} \cap Fields)} /\ request' = request
        /\ parser.at = "colon"
    BY <1>4 DEF ParseColon
  <2>2. Placed([parser EXCEPT !.at = "value"]) /\ Fits([parser EXCEPT !.at = "value"])
    BY <1>1, <2>1 DEF Fits, Placed, Scans
  <2> QED
    BY <1>1, <1>2, <2>1, <2>2
<1>5. CASE ParseValue(c)
  <2>1. parser.at = "value" /\ ~parser.quoted /\ seen' = seen /\ request' = request
    BY <1>5, ParseValueIs
  <2>2. parser' \in {Quote(parser), Refused, SkipValue(parser, c), AfterValue(c)}
    <3>1. Fields = Required \cup {"params"}
      BY DEF Fields
    <3> QED
      BY <1>5, <3>1, ParseValueIs
  <2>3. Placed(Quote(parser)) /\ Placed(SkipValue(parser, c)) /\ Placed(AfterValue(c))
    BY <1>1, <2>1, QuoteIsPlaced, SkipValueIsPlaced, AfterValueIsPlaced
  <2>4. Fits(Quote(parser)) /\ Fits(AfterValue(c))
    BY <1>1, QuoteFits, AfterValueIsPlaced DEF Fits
  <2>5. Fits(SkipValue(parser, c))
    <3>1. /\ [parser EXCEPT !.at = "object", !.nest = 1, !.size = Grown(0, c)].at = "object"
          /\ [parser EXCEPT !.at = "array", !.nest = 1].at = "array"
          /\ [parser EXCEPT !.at = "scalar"].at = "scalar"
      BY <1>1 DEF Placed, Scans
    <3>2. /\ Fits([parser EXCEPT !.at = "object", !.nest = 1, !.size = Grown(0, c)])
          /\ Fits([parser EXCEPT !.at = "array", !.nest = 1])
          /\ Fits([parser EXCEPT !.at = "scalar"])
      BY <3>1 DEF Fits
    <3> QED
      BY <2>4, <3>2, SkipValueCases, Zenon
  <2> QED
    BY <1>1, <1>2, <2>1, <2>2, <2>3, <2>4, <2>5
<1>6. CASE ParseOther(c)
  <2>1. ~parser.quoted /\ seen' = seen /\ request' = request
    BY <1>6, ParseOtherIs
  <2>2. /\ Placed(Scan("key")) /\ Fits(Scan("key"))
        /\ Placed(Checked) /\ Fits(Checked)
        /\ Placed(AfterValue(c)) /\ Fits(AfterValue(c))
    BY ScanIsPlaced, CheckedIsPlaced, AfterValueIsPlaced DEF Places, Fits
  <2>3. CASE parser.at = "key"
    <3>1. Placed(Quote(parser)) /\ Fits(Quote(parser))
      BY <1>1, <2>3, QuoteIsPlaced, QuoteFits
    <3>2. parser' \in {Quote(parser), Checked, Refused}
      BY <1>6, <2>3, ParseOtherIs
    <3> QED
      BY <1>1, <1>2, <2>1, <2>2, <3>1, <3>2
  <2>4. CASE parser.at \in {"object", "array"}
    <3>1. parser' = RawOf(parser, c) /\ Placed(RawOf(parser, c))
      BY <1>1, <1>6, <2>4, ParseOtherIs, RawIsPlaced
    <3>2. RawOf(parser, c).at \notin {"key", "value"}
      BY <1>1, <2>4, PlacesAfter
    <3> QED
      BY <1>1, <2>1, <3>1, <3>2 DEF Fits
  <2>5. CASE parser.at \notin {"key", "object", "array"}
    <3>1. parser' \in {Scan("key"), Refused, Checked, AfterValue(c), parser}
      BY <1>6, <2>5, ParseOtherIs
    <3> QED
      BY <1>1, <1>2, <2>1, <2>2, <3>1
  <2> QED
    BY <2>3, <2>4, <2>5
<1>7. CASE SkipWs(c)
  BY <1>1, <1>7 DEF SkipWs, Placed, Fits
<1> QED
  BY <1>3, <1>4, <1>5, <1>6, <1>7 DEF Parse

\* What is noted of the lengths.
LEMMA MeasureIs ==
    ASSUME note \in [size : 0..MaxObject, big : BOOLEAN, lost : BOOLEAN], NEW c \in Symbols, Measure(c)
    PROVE  /\ note' \in [size : 0..MaxObject, big : BOOLEAN, lost : BOOLEAN]
           /\ note'.size = IF InObject(json') THEN Grown(note.size, c) ELSE 0
           /\ note.big => note'.big
           /\ InObject(json) /\ Len(json'.stack) = 1 /\ Grown(note.size, c) = MaxObject => note'.big
           /\ note'.lost <=> note.lost \/ Buries(json')
<1>1. note.size \in 0..MaxObject /\ note.big \in BOOLEAN /\ note.lost \in BOOLEAN
  OBVIOUS
<1>2. Grown(note.size, c) \in 0..MaxObject /\ 0 \in 0..MaxObject
  BY <1>1, Sizes, Zenon
<1> DEFINE size == IF InObject(json') THEN Grown(note.size, c) ELSE 0
           big == note.big \/ (/\ InObject(json) /\ Len(json'.stack) = 1
                              /\ Grown(note.size, c) = MaxObject)
           lost == note.lost \/ Buries(json')
<1>3. note' = [size |-> size, big |-> big, lost |-> lost]
  BY Zenon DEF Measure, Depth
<1>4. size \in 0..MaxObject
  BY <1>2, Zenon
<1>5. big \in BOOLEAN /\ lost \in BOOLEAN
  BY <1>1 DEF Buries
<1> HIDE DEF size, big, lost
<1>6. /\ note' \in [size : 0..MaxObject, big : BOOLEAN, lost : BOOLEAN]
      /\ note'.size = size /\ note'.big = big /\ note'.lost = lost
  BY <1>3, <1>4, <1>5
<1> QED
  BY <1>6, Zenon DEF size, big, lost

\* So does every symbol, for the parser and the search.
LEMMA StepIsTyped ==
    ASSUME TypeInv, [Next]_vars
    PROVE  TypeInv'
<1>1. CASE UNCHANGED vars
  BY <1>1 DEF TypeInv, TypeOK, Placed, Fits, Searching, Scans, vars
<1>2. ASSUME NEW c \in Symbols, Symbol(c)
      PROVE  TypeInv'
  <2>1. Parse(c) /\ (c \in {"{", "["} => parser.nest < MaxDepth /\ params.nest < MaxDepth)
    BY <1>2 DEF Symbol
  <2>2. /\ Placed(parser)' /\ Fits(parser)'
        /\ seen' \subseteq Fields
        /\ request' \in [{"id", "method"} -> Contents \ {"long"}]
    BY <2>1, ParseIsTyped
  <2>3. Searching(params)'
    <3>1. Searching(params) /\ Searching(Extract(params, c))
      BY <2>1, ExtractIsSearching DEF TypeInv
    <3>2. params' \in {params, Extract(params, c)}
      BY <1>2 DEF Symbol, Follow
    <3>3. CASE params' = params
      BY <3>1, <3>3 DEF Searching, Placed, Scans
    <3>4. CASE params' = Extract(params, c)
      BY <3>1, <3>4 DEF Searching, Placed, Scans
    <3> QED
      BY <3>2, <3>3, <3>4
  <2>4. note' \in [size : 0..MaxObject, big : BOOLEAN, lost : BOOLEAN]
    BY <1>2, MeasureIs DEF Symbol, TypeInv, TypeOK
  <2> QED
    BY <2>2, <2>3, <2>4 DEF TypeInv, TypeOK, Placed, Searching
<1> QED
  BY <1>1, <1>2 DEF Next

\* The scans of the parser stay where their depths and strings say, and what is copied
\* into a field fits it (rpc.c:9-187, 244-262).
THEOREM RpcTypeCorrect == Spec => []TypeOK
<1>1. TypeInv => TypeOK
  BY DEF TypeInv
<1> QED
  BY <1>1, InitIsTyped, StepIsTyped, PTL DEF Spec

-----------------------------------------------------------------------------
(* Counting brackets. *)
\* The brackets b that are open from the n-th on.
Opens(stack, b, n) == {i \in n..Len(stack) : stack[i] = b}

\* They can be counted.
LEMMA OpensAreFinite ==
    ASSUME NEW stack \in Seq(Brackets), NEW b, NEW n \in Nat \ {0}
    PROVE  IsFiniteSet(Opens(stack, b, n)) /\ Cardinality(Opens(stack, b, n)) \in Nat
<1>1. Len(stack) \in Nat
  OBVIOUS
<1>2. IsFiniteSet(n..Len(stack))
  BY <1>1, FS_Interval
<1>3. Opens(stack, b, n) \in SUBSET (n..Len(stack))
  BY DEF Opens
<1> QED
  BY <1>2, <1>3, FS_Subset, FS_CardinalityType

\* A stack with one more bracket.
LEMMA AppendIs ==
    ASSUME NEW stack \in Seq(Brackets), NEW c \in Brackets
    PROVE  /\ Append(stack, c) \in Seq(Brackets) /\ Len(Append(stack, c)) = Len(stack) + 1
           /\ Append(stack, c)[Len(stack) + 1] = c
           /\ \A i \in 1..Len(stack) : Append(stack, c)[i] = stack[i]
OBVIOUS

\* An opening bracket counts where it is of the kind.
LEMMA OpensOfAppend ==
    ASSUME NEW stack \in Seq(Brackets), NEW b, NEW n \in Nat \ {0}, n <= Len(stack),
           NEW c \in Brackets
    PROVE  Cardinality(Opens(Append(stack, c), b, n))
             = IF c = b THEN Cardinality(Opens(stack, b, n)) + 1 ELSE Cardinality(Opens(stack, b, n))
<1> DEFINE more == Append(stack, c)
           l == Len(stack)
<1>1. /\ l \in Nat /\ Len(more) = l + 1 /\ more[l + 1] = c
      /\ \A i \in 1..l : more[i] = stack[i]
  OBVIOUS
<1>2. l + 1 \notin Opens(stack, b, n)
  BY <1>1 DEF Opens
<1>3. \A i : i \in n..(l + 1) <=> i \in n..l \/ i = l + 1
  BY <1>1
<1>4. \A i \in n..l : i \in 1..l
  BY <1>1
<1> HIDE DEF more, l
<1>5. CASE c = b
  <2>1. Opens(more, b, n) = Opens(stack, b, n) \cup {l + 1}
    BY <1>1, <1>3, <1>4, <1>5 DEF Opens, l
  <2> QED
    BY <1>2, <1>5, <2>1, OpensAreFinite, FS_AddElement DEF more
<1>6. CASE c # b
  <2>1. Opens(more, b, n) = Opens(stack, b, n)
    BY <1>1, <1>3, <1>4, <1>6 DEF Opens, l
  <2> QED
    BY <1>6, <2>1 DEF more
<1> QED
  BY <1>5, <1>6

\* A closing bracket counts where it is of the kind.
LEMMA OpensOfFront ==
    ASSUME NEW stack \in Seq(Brackets), NEW b, NEW n \in Nat \ {0}, n <= Len(stack)
    PROVE  Cardinality(Opens(stack, b, n))
             = IF Last(stack) = b THEN Cardinality(Opens(Front(stack), b, n)) + 1
               ELSE Cardinality(Opens(Front(stack), b, n))
<1> DEFINE less == Front(stack)
           l == Len(stack)
<1>1. l \in Nat /\ l >= 1 /\ stack # <<>>
  OBVIOUS
<1>2. less \in Seq(Brackets) /\ Len(less) = l - 1 /\ \A i \in 1..(l - 1) : less[i] = stack[i]
  BY <1>1, FrontIs
<1>3. Last(stack) = stack[l]
  BY <1>1, LastIs
<1> HIDE DEF less, l
<1>4. l \notin Opens(less, b, n)
  BY <1>1, <1>2 DEF Opens
<1>5. \A i : i \in n..l <=> i \in n..(l - 1) \/ i = l
  BY <1>1 DEF l
<1>6. \A i \in n..(l - 1) : i \in 1..(l - 1)
  BY <1>1
<1>7. CASE Last(stack) = b
  <2>1. Opens(stack, b, n) = Opens(less, b, n) \cup {l}
    BY <1>2, <1>3, <1>5, <1>6, <1>7 DEF Opens, l
  <2>2. IsFiniteSet(Opens(less, b, n))
    BY <1>2, OpensAreFinite
  <2>3. Cardinality(Opens(less, b, n) \cup {l}) = Cardinality(Opens(less, b, n)) + 1
    BY <1>4, <2>2, FS_AddElement
  <2> QED
    BY <1>7, <2>1, <2>3 DEF less
<1>8. CASE Last(stack) # b
  <2>1. Opens(stack, b, n) = Opens(less, b, n)
    BY <1>2, <1>3, <1>5, <1>6, <1>8 DEF Opens, l
  <2> QED
    BY <1>8, <2>1 DEF less
<1> QED
  BY <1>7, <1>8

\* There is one left exactly where the n-th is the innermost.
LEMMA OpensAlone ==
    ASSUME NEW stack \in Seq(Brackets), NEW n \in Nat \ {0}, NEW b, n <= Len(stack), stack[n] = b
    PROVE  /\ Cardinality(Opens(stack, b, n)) >= 1
           /\ Len(stack) = n => Cardinality(Opens(stack, b, n)) = 1
           /\ Cardinality(Opens(stack, b, n)) = 1 /\ Last(stack) = b => Len(stack) = n
<1>1. Len(stack) \in Nat /\ stack # <<>> /\ Last(stack) = stack[Len(stack)]
  BY LastIs
<1>2. n \in Opens(stack, b, n)
  BY <1>1 DEF Opens
<1>3. IsFiniteSet(Opens(stack, b, n)) /\ Cardinality(Opens(stack, b, n)) \in Nat
  BY OpensAreFinite
<1>4. Cardinality(Opens(stack, b, n)) # 0
  BY <1>2, <1>3, FS_EmptySet
<1>5. ASSUME Len(stack) = n PROVE Cardinality(Opens(stack, b, n)) = 1
  <2>1. Opens(stack, b, n) = {n}
    BY <1>1, <1>2, <1>5 DEF Opens
  <2> QED
    BY <2>1, FS_Singleton
<1>6. ASSUME Cardinality(Opens(stack, b, n)) = 1, Last(stack) = b PROVE Len(stack) = n
  <2>1. Len(stack) \in Opens(stack, b, n)
    <3>1. Len(stack) \in n..Len(stack) /\ stack[Len(stack)] = b
      BY <1>1, <1>6
    <3> QED
      BY <3>1 DEF Opens
  <2>2. PICK x : Opens(stack, b, n) = {x}
    BY <1>3, <1>6, FS_Singleton
  <2> QED
    BY <1>2, <2>1, <2>2
<1> QED
  BY <1>3, <1>4, <1>5, <1>6

-----------------------------------------------------------------------------
(* Inside a nested object or array. *)

Opener(s) == IF s.at = "object" THEN "{" ELSE "["
Closer(s) == IF s.at = "object" THEN "}" ELSE "]"

\* The n-th bracket on the reader's stack is the one that opened the value, and the scan
\* counts those of its kind that are open.
Nested(s, j, n) ==
    /\ s.at \in {"object", "array"}
    /\ n <= Len(j.stack) /\ j.stack[n] = Opener(s)
    /\ s.nest = Cardinality(Opens(j.stack, Opener(s), n))
    /\ s.quoted <=> j.at \in Strings
    /\ j.at \in {"value", "string", "keystring", "open", "key", "colon", "element", "after"}

Inside(s, c) == IF s.quoted THEN Literal(s, c, FALSE) ELSE RawOf(s, c)

\* The branches of a scan inside a nested value.
LEMMA InsideIs ==
    ASSUME NEW s, Placed(s), s.at \in {"object", "array"}, NEW c \in Symbols
    PROVE  /\ s.quoted /\ c = "quote" => Inside(s, c) = [Counted(s, c) EXCEPT !.quoted = FALSE]
           /\ s.quoted /\ c \in {"unicode", "newline", "formfeed", "end"} => Inside(s, c) = Refused
           /\ s.quoted /\ c \notin {"quote", "unicode", "newline", "formfeed", "end"}
                => Inside(s, c) = Counted(s, c)
           /\ ~s.quoted =>
                /\ c \in {"quote", "escquote"} => Inside(s, c) = [Counted(s, c) EXCEPT !.quoted = TRUE]
                /\ c = Opener(s) => Inside(s, c) = [Counted(s, c) EXCEPT !.nest = @ + 1]
                /\ c = Closer(s) /\ s.nest > 1 => Inside(s, c) = [Counted(s, c) EXCEPT !.nest = @ - 1]
                /\ c = Closer(s) /\ s.nest = 1 =>
                      Inside(s, c) = Refused \/ Inside(s, c) = Scan("next")
                /\ c = Closer(s) /\ s.nest = 1 /\ (s.at = "object" => Grown(s.size, c) # MaxObject)
                      => Inside(s, c) = Scan("next")
                /\ c = Closer(s) /\ s.nest = 1 /\ s.at = "object" /\ Grown(s.size, c) = MaxObject
                      => Inside(s, c) = Refused
                /\ c = "end" => Inside(s, c) = Refused
                /\ c \notin {"quote", "escquote", "end", Opener(s), Closer(s)} => Inside(s, c) = Counted(s, c)
<1>1. ASSUME s.quoted
      PROVE  /\ c = "quote" => Inside(s, c) = [Counted(s, c) EXCEPT !.quoted = FALSE]
             /\ c \in {"unicode", "newline", "formfeed", "end"} => Inside(s, c) = Refused
             /\ c \notin {"quote", "unicode", "newline", "formfeed", "end"} => Inside(s, c) = Counted(s, c)
  <2>1. Inside(s, c) = Literal(s, c, FALSE)
    BY <1>1 DEF Inside
  <2>2. Unquote(Counted(s, c)) = [Counted(s, c) EXCEPT !.quoted = FALSE]
    <3>1. Counted(s, c).at \notin {"key", "value"}
      BY CountedIs
    <3> QED
      BY <3>1, UnquoteCases, Zenon
  <2>3. /\ c = "quote" => Literal(s, c, FALSE) = Unquote(Counted(s, c))
        /\ c \in {"unicode", "newline", "formfeed", "end"} => Literal(s, c, FALSE) = Refused
        /\ c \notin {"quote", "unicode", "newline", "formfeed", "end"} => Literal(s, c, FALSE) = Counted(s, c)
    BY LiteralCases
  <2> QED
    BY <2>1, <2>2, <2>3
<1>2. ASSUME ~s.quoted
      PROVE  /\ c \in {"quote", "escquote"} => Inside(s, c) = [Counted(s, c) EXCEPT !.quoted = TRUE]
             /\ c = Opener(s) => Inside(s, c) = [Counted(s, c) EXCEPT !.nest = @ + 1]
             /\ c = Closer(s) /\ s.nest > 1 => Inside(s, c) = [Counted(s, c) EXCEPT !.nest = @ - 1]
             /\ c = Closer(s) /\ s.nest = 1 =>
                   Inside(s, c) = IF Closer(s) = "}" /\ Counted(s, c).size = MaxObject THEN Refused ELSE Scan("next")
             /\ c = "end" => Inside(s, c) = Refused
             /\ c \notin {"quote", "escquote", "end", Opener(s), Closer(s)} => Inside(s, c) = Counted(s, c)
  <2>1. Inside(s, c) = Raw(s, c, Opener(s), Closer(s))
    BY <1>2 DEF Inside, RawOf, Opener, Closer
  <2>2. Opener(s) # Closer(s) /\ {Opener(s), Closer(s)} \cap {"quote", "escquote", "end"} = {}
    BY DEF Opener, Closer
  <2>3. s.nest >= 1
    <3>1. s.nest \in 0..MaxDepth /\ s.nest > 0
      BY DEF Placed, Scans
    <3> QED
      BY <3>1, DepthFacts
  <2> HIDE DEF Opener, Closer
  <2>4. Branches(s, c, Opener(s), Closer(s))
    BY <2>2, <2>3, RawCases, Zenon
  <2> QED
    BY <2>1, <2>4, Zenon DEF Branches
<1>3. ASSUME ~s.quoted, c = Closer(s), s.nest = 1
      PROVE  /\ (s.at = "object" => Grown(s.size, c) # MaxObject) => Inside(s, c) = Scan("next")
             /\ s.at = "object" /\ Grown(s.size, c) = MaxObject => Inside(s, c) = Refused
  <2>1. Inside(s, c) = IF Closer(s) = "}" /\ Counted(s, c).size = MaxObject THEN Refused ELSE Scan("next")
    BY <1>2, <1>3, Zenon
  <2>2. /\ Closer(s) = "}" <=> s.at = "object"
        /\ s.at = "object" => Counted(s, c).size = Grown(s.size, c)
    BY CountedIs DEF Closer
  <2> QED
    BY <2>1, <2>2, Zenon
<1> QED
  BY <1>1, <1>2, <1>3, Zenon

\* A nested value goes on, or ends where the reader says.
LEMMA NestedStep ==
    ASSUME NEW s, Placed(s), NEW j, ReaderOK(j), NEW n \in Nat, n >= 2, Nested(s, j, n),
           NEW c \in Symbols, NEW k, Moves(j, c, k), Inside(s, c).at # "refused"
    PROVE  \/ /\ Nested(Inside(s, c), k, n)
              /\ Inside(s, c).at = s.at /\ Inside(s, c).key = s.key
           \/ /\ Inside(s, c) = Scan("next") /\ k.at = "after" /\ Len(j.stack) = n
              /\ k = Closed(j, s.at)
<1> DEFINE t == Inside(s, c)
           Goal == \/ Nested(t, k, n) /\ t.at = s.at /\ t.key = s.key
                   \/ t = Scan("next") /\ k.at = "after" /\ Len(j.stack) = n /\ k = Closed(j, s.at)
<1>1. /\ j \in Readers /\ j.stack \in Seq(Brackets) /\ Len(j.stack) \in Nat /\ j.stack # <<>>
      /\ s.at \in {"object", "array"} /\ n <= Len(j.stack) /\ j.stack[n] = Opener(s)
      /\ s.nest = Cardinality(Opens(j.stack, Opener(s), n)) /\ n \in Nat \ {0}
      /\ s.quoted <=> j.at \in Strings
      /\ j.at \in {"value", "string", "keystring", "open", "key", "colon", "element", "after"}
  <2>1. j.stack \in Seq(Brackets) /\ n <= Len(j.stack)
    BY DEF Nested, ReaderOK, Readers
  <2>2. Len(j.stack) \in Nat /\ j.stack # <<>>
    BY <2>1
  <2>3. n \in Nat \ {0}
    OBVIOUS
  <2>4. /\ s.at \in {"object", "array"} /\ j.stack[n] = Opener(s)
        /\ s.nest = Cardinality(Opens(j.stack, Opener(s), n))
        /\ s.quoted <=> j.at \in Strings
        /\ j.at \in {"value", "string", "keystring", "open", "key", "colon", "element", "after"}
    BY DEF Nested
  <2>5. j \in Readers
    BY DEF ReaderOK
  <2> QED
    BY <2>1, <2>2, <2>3, <2>4, <2>5
<1>2. Refused.at = "refused"
  BY RefusedIsPlaced
<1>24. /\ Placed(Counted(s, c)) /\ Counted(s, c).at = s.at /\ Counted(s, c).key = s.key
       /\ Counted(s, c).quoted = s.quoted /\ Counted(s, c).nest = s.nest
  BY CountedIs
<1>3. ASSUME NEW q \in BOOLEAN
      PROVE  LET u == [Counted(s, c) EXCEPT !.quoted = q]
             IN u.at = s.at /\ u.key = s.key /\ u.nest = s.nest /\ u.quoted = q /\ Opener(u) = Opener(s)
  BY <1>24 DEF Placed, Scans, Opener
<1>4. LET u == Counted(s, c)
      IN u.at = s.at /\ u.key = s.key /\ u.nest = s.nest /\ u.quoted = s.quoted /\ Opener(u) = Opener(s)
  BY <1>24 DEF Opener
<1>5. ASSUME NEW m, t = [Counted(s, c) EXCEPT !.nest = m]
      PROVE  t.at = s.at /\ t.key = s.key /\ t.nest = m /\ t.quoted = s.quoted /\ Opener(t) = Opener(s)
  <2>1. LET u == [Counted(s, c) EXCEPT !.nest = m]
        IN u.at = s.at /\ u.key = s.key /\ u.nest = m /\ u.quoted = s.quoted /\ Opener(u) = Opener(s)
    BY <1>24 DEF Placed, Scans, Opener
  <2> QED
    BY <1>5, <2>1, Zenon
<1>6. \A v \in Marks : /\ Valued(j, v).at = "after" /\ Valued(j, v).stack = j.stack
  BY <1>1, ValuedIs
<1>7. ASSUME NEW v \in Marks, Len(j.stack) >= 2
      PROVE  Closed(j, v).at = "after" /\ Closed(j, v).stack = Front(j.stack)
  <2>1. PICK u \in Readers : u.stack = Front(j.stack) /\ Closed(j, v) = Valued(u, v)
    BY <1>1, UnderIs, ClosedIs
  <2>2. Len(Front(j.stack)) = Len(j.stack) - 1
    BY <1>1, FrontIs
  <2>3. u.stack # <<>>
    BY <1>1, <1>7, <2>1, <2>2
  <2>4. Valued(u, v).at = "after" /\ Valued(u, v).stack = u.stack
    BY <2>3, ValuedIs, Zenon
  <2> QED
    BY <2>1, <2>4, Zenon
<1>8. j.text \in Marks /\ "atom" \in Marks /\ "object" \in Marks /\ "array" \in Marks
  BY <1>1 DEF Readers, Marks
<1> DEFINE Stays == t.at = s.at /\ t.key = s.key /\ Opener(t) = Opener(s) /\ t.nest = s.nest
<1>9. ASSUME Stays, k.stack = j.stack, t.quoted <=> k.at \in Strings,
             k.at \in {"value", "string", "keystring", "open", "key", "colon", "element", "after"}
      PROVE  Goal
  BY <1>1, <1>9 DEF Nested
<1>10. ~s.quoted /\ c \notin {"quote", "escquote", "end", Opener(s), Closer(s)} => Stays /\ ~t.quoted
  BY <1>1, <1>4, InsideIs
<1>11. s.quoted /\ c \notin {"quote", "unicode", "newline", "formfeed", "end"} => Stays /\ t.quoted
  <2>1. s.quoted /\ c \notin {"quote", "unicode", "newline", "formfeed", "end"} => t = Counted(s, c)
    BY <1>1, InsideIs
  <2> QED
    BY <1>4, <2>1
<1>12. c = "quote" => Stays /\ (t.quoted <=> ~s.quoted)
  <2>1. CASE s.quoted /\ c = "quote"
    <3>1. t = [Counted(s, c) EXCEPT !.quoted = FALSE]
      BY <1>1, <2>1, InsideIs
    <3> QED
      BY <1>3, <2>1, <3>1
  <2>2. CASE ~s.quoted /\ c = "quote"
    <3>1. t = [Counted(s, c) EXCEPT !.quoted = TRUE]
      BY <1>1, <2>2, InsideIs
    <3> QED
      BY <1>3, <2>2, <3>1
  <2> QED
    BY <2>1, <2>2
<1> HIDE DEF Stays, Goal
<1> SUFFICES Goal
  BY DEF Goal
<1>13. CASE j.at \notin Strings /\ c \in White /\ k = j
  <2>1. c \notin {"quote", "escquote", "end", Opener(s), Closer(s)}
    BY <1>13 DEF White, Blank, Opener, Closer
  <2> QED
    BY <1>1, <1>9, <1>10, <1>13, <2>1
<1>14. CASE j.at \in Strings /\ Letter(c) /\ k = Spelled(j, c)
  <2>1. k.at = j.at /\ k.stack = j.stack
    BY <1>1, <1>14, SpelledIs
  <2>2. c \notin {"quote", "unicode", "newline", "formfeed", "end"}
    BY <1>1, <1>2, <1>14, InsideIs DEF Letter
  <2> QED
    BY <1>1, <1>9, <1>11, <1>14, <2>1, <2>2
<1>15. CASE j.at = "keystring" /\ c = "quote" /\ k = Keyed(j)
  <2>1. k.at = "colon" /\ k.stack = j.stack
    BY <1>1, <1>15, KeyedIs
  <2> QED
    BY <1>1, <1>9, <1>12, <1>15, <2>1 DEF Strings
<1>16. CASE j.at = "string" /\ c = "quote" /\ k = Valued(j, j.text)
  <2>1. k.at = "after" /\ k.stack = j.stack
    BY <1>6, <1>8, <1>16
  <2> QED
    BY <1>1, <1>9, <1>12, <1>16, <2>1 DEF Strings
<1>17. CASE /\ j.at \in {"value", "element", "open", "key"} /\ c = "quote"
            /\ k \in {Goes(j, "string"), Goes(j, "keystring")}
  <2>1. k.at \in Strings /\ k.stack = j.stack
    BY <1>1, <1>17, GoesIs DEF Strings
  <2> QED
    BY <1>1, <1>9, <1>12, <1>17, <2>1 DEF Strings
<1>18. CASE /\ j.at \in {"value", "element"} /\ c \in Brackets
            /\ k = Pushed(j, IF c = "{" THEN "open" ELSE "element", c)
  <2>1. k.at \in {"open", "element"} /\ k.stack = Append(j.stack, c)
    <3>1. PICK at \in {"open", "element"} : k = Pushed(j, at, c)
      BY <1>18
    <3>2. j \in Readers /\ c \in Brackets
      BY <1>1, <1>18
    <3>3. Pushed(j, at, c).at = at /\ Pushed(j, at, c).stack = Append(j.stack, c)
      BY <3>2, PushedIs
    <3> QED
      BY <3>1, <3>3
  <2>2. /\ Len(k.stack) = Len(j.stack) + 1 /\ k.stack[n] = j.stack[n]
    <3>1. n \in 1..Len(j.stack)
      BY <1>1
    <3> QED
      <4>1. /\ Len(Append(j.stack, c)) = Len(j.stack) + 1
            /\ Append(j.stack, c)[n] = j.stack[n]
        BY <1>1, <1>18, <3>1, AppendIs
      <4> QED
        BY <2>1, <4>1, Zenon
  <2>3. /\ c = Opener(s) => Cardinality(Opens(k.stack, Opener(s), n)) = s.nest + 1
        /\ c # Opener(s) => Cardinality(Opens(k.stack, Opener(s), n)) = s.nest
    <3>1. Cardinality(Opens(Append(j.stack, c), Opener(s), n))
            = IF c = Opener(s) THEN Cardinality(Opens(j.stack, Opener(s), n)) + 1
              ELSE Cardinality(Opens(j.stack, Opener(s), n))
      <4>1. c \in Brackets
        BY <1>18
      <4>2. j.stack \in Seq(Brackets) /\ n \in Nat \ {0} /\ n <= Len(j.stack)
        BY <1>1
      <4> QED
        BY <4>1, <4>2, OpensOfAppend
    <3> QED
      BY <1>1, <2>1, <3>1, Zenon
  <2>4. ~s.quoted /\ k.at \notin Strings /\ n <= Len(k.stack)
    <3>1. n <= Len(k.stack)
      BY <1>1, <2>2
    <3>2. ~s.quoted /\ k.at \notin Strings
      BY <1>1, <1>18, <2>1 DEF Strings
    <3> QED
      BY <3>1, <3>2
  <2>5. CASE c = Opener(s)
    <3>1. t = [Counted(s, c) EXCEPT !.nest = @ + 1]
      BY <1>1, <2>4, <2>5, InsideIs
    <3> QED
      <4>1. t.at = s.at /\ t.key = s.key /\ t.nest = s.nest + 1 /\ ~t.quoted /\ Opener(t) = Opener(s)
        <5>1. t = [Counted(s, c) EXCEPT !.nest = s.nest + 1]
          BY <1>24, <3>1, Zenon
        <5> QED
          BY <1>5, <2>4, <5>1, Zenon
      <4>2. Nested(t, k, n)
        BY <1>1, <2>1, <2>2, <2>3, <2>4, <2>5, <4>1 DEF Nested
      <4> QED
        BY <4>1, <4>2 DEF Goal
  <2>6. CASE c # Opener(s)
    <3>1. Stays /\ ~t.quoted
      BY <1>10, <1>18, <2>4, <2>6 DEF Brackets, Closer
    <3> QED
      BY <1>1, <2>1, <2>2, <2>3, <2>4, <2>6, <3>1 DEF Goal, Nested, Stays
  <2> QED
    BY <2>5, <2>6
<1>19. CASE j.at \in {"value", "element"} /\ c \in {"atom", "2.0"} /\ k = Valued(j, "atom")
  <2>1. k.at = "after" /\ k.stack = j.stack
    BY <1>6, <1>8, <1>19
  <2>2. c \notin {"quote", "escquote", "end", Opener(s), Closer(s)}
    BY <1>19 DEF Opener, Closer
  <2> QED
    BY <1>1, <1>9, <1>10, <1>19, <2>1, <2>2 DEF Strings
<1>20. CASE \/ j.at \in {"open", "after"} /\ c = "}" /\ Last(j.stack) = "{" /\ k = Closed(j, "object")
            \/ j.at \in {"element", "after"} /\ c = "]" /\ Last(j.stack) = "[" /\ k = Closed(j, "array")
  <2>1. /\ ~s.quoted /\ Len(j.stack) >= 2
        /\ c = Closer(s) <=> Last(j.stack) = Opener(s)
        /\ c \notin {"quote", "escquote", "end", Opener(s)}
    <3>1. ~s.quoted
      BY <1>1, <1>20 DEF Strings
    <3>2. Len(j.stack) >= 2
      BY <1>1
    <3>3. c = Closer(s) <=> Last(j.stack) = Opener(s)
      BY <1>1, <1>20 DEF Opener, Closer
    <3>4. c \notin {"quote", "escquote", "end", Opener(s)}
      BY <1>20 DEF Opener
    <3> QED
      BY <3>1, <3>2, <3>3, <3>4
  <2>2. k.at = "after" /\ k.stack = Front(j.stack)
    BY <1>7, <1>8, <1>20, <2>1
  <2>3. /\ Len(k.stack) = Len(j.stack) - 1 /\ \A i \in 1..(Len(j.stack) - 1) : k.stack[i] = j.stack[i]
    BY <1>1, <2>2, FrontIs
  <2>4. s.nest = IF Last(j.stack) = Opener(s) THEN Cardinality(Opens(k.stack, Opener(s), n)) + 1
                 ELSE Cardinality(Opens(k.stack, Opener(s), n))
    BY <1>1, <2>2, OpensOfFront
  <2>5. /\ s.nest >= 1 /\ s.nest \in Int
        /\ s.nest = 1 /\ Last(j.stack) = Opener(s) => Len(j.stack) = n
        /\ Len(j.stack) = n => s.nest = 1 /\ Last(j.stack) = Opener(s)
    <3>1. Last(j.stack) = j.stack[Len(j.stack)]
      BY <1>1, LastIs
    <3> QED
      BY <1>1, <3>1, OpensAlone, OpensAreFinite
  <2>6. Cardinality(Opens(k.stack, Opener(s), n)) \in Nat
    <3>1. k.stack \in Seq(Brackets)
      BY <1>1, <2>2, FrontIs
    <3> QED
      BY <1>1, <3>1, OpensAreFinite
  <2>7. CASE Len(j.stack) = n
    <3>1. c = Closer(s) /\ s.nest = 1
      BY <2>1, <2>5, <2>7
    <3>2. t = Scan("next")
      <4>1. t = Refused \/ t = Scan("next")
        BY <1>1, <2>1, <3>1, InsideIs
      <4> QED
        BY <1>2, <4>1
    <3>3. k = Closed(j, s.at)
      BY <1>1, <1>20, <3>1 DEF Closer
    <3> QED
      BY <2>2, <2>7, <3>2, <3>3 DEF Goal
  <2>8. CASE Len(j.stack) # n
    <3>1. n <= Len(k.stack) /\ k.stack[n] = j.stack[n]
      BY <1>1, <2>3, <2>8
    <3>2. CASE c = Closer(s)
      <4>1. s.nest > 1 /\ Cardinality(Opens(k.stack, Opener(s), n)) = s.nest - 1
        BY <2>1, <2>4, <2>5, <2>6, <2>8, <3>2
      <4>2. t = [Counted(s, c) EXCEPT !.nest = @ - 1]
        BY <1>1, <2>1, <3>2, <4>1, InsideIs
      <4> QED
        <5>1. t.at = s.at /\ t.key = s.key /\ t.nest = s.nest - 1 /\ ~t.quoted /\ Opener(t) = Opener(s)
          <6>1. t = [Counted(s, c) EXCEPT !.nest = s.nest - 1]
            BY <1>24, <4>2, Zenon
          <6> QED
            BY <1>5, <2>1, <6>1, Zenon
        <5>2. Nested(t, k, n)
          BY <1>1, <2>2, <3>1, <4>1, <5>1 DEF Nested, Strings
        <5> QED
          BY <5>1, <5>2 DEF Goal
    <3>3. CASE c # Closer(s)
      <4>1. Stays /\ ~t.quoted
        BY <1>10, <2>1, <3>3
      <4> QED
        BY <1>1, <2>1, <2>2, <2>4, <3>1, <3>3, <4>1 DEF Goal, Nested, Strings, Stays
    <3> QED
      BY <3>2, <3>3
  <2> QED
    BY <2>7, <2>8
<1>21. CASE j.at = "key" /\ c = "end" /\ k = Goes(j, "cut")
  BY <1>1, <1>2, <1>21, InsideIs DEF Strings
<1>22. CASE j.at \in {"colon", "after"} /\ c \in {":", ","} /\ k \in {Goes(j, "value"), Goes(j, "key")}
  <2>1. k.at \in {"value", "key"} /\ k.stack = j.stack
    <3>1. PICK at \in {"value", "key"} : k = Goes(j, at)
      BY <1>22
    <3> QED
      BY <1>1, <3>1, GoesIs
  <2>2. c \notin {"quote", "escquote", "end", Opener(s), Closer(s)}
    BY <1>22 DEF Opener, Closer
  <2> QED
    BY <1>1, <1>9, <1>10, <1>22, <2>1, <2>2 DEF Strings
<1>23. j.at # "top"
  BY <1>1
<1> QED
  BY <1>13, <1>14, <1>15, <1>16, <1>17, <1>18, <1>19, <1>20, <1>21, <1>22, <1>23 DEF Moves, Brackets

\* An object that goes on has grown by the symbol.
LEMMA InsideSize ==
    ASSUME NEW s, Placed(s), s.at = "object", NEW c \in Symbols, Inside(s, c).at = "object"
    PROVE  Inside(s, c).size = Grown(s.size, c)
<1> DEFINE t == Counted(s, c)
<1>1. Placed(t) /\ t.size = Grown(s.size, c)
  BY CountedIs
<1>2. Refused.at # "object" /\ Scan("next").at # "object"
  BY RefusedIsPlaced, ScanIsPlaced DEF Places
<1> HIDE DEF t
<1>3. /\ \A q : [t EXCEPT !.quoted = q].size = t.size
      /\ \A n : [t EXCEPT !.nest = n].size = t.size
  BY <1>1 DEF Placed, Scans
<1>4. s.nest > 1 \/ s.nest = 1
  <2>1. s.nest > 0 /\ s.nest \in 0..MaxDepth
    BY DEF Placed, Scans
  <2> QED
    BY <2>1, DepthFacts
<1>5. CASE s.quoted
  <2>1. Inside(s, c) \in {[t EXCEPT !.quoted = FALSE], Refused, t}
    BY <1>5, InsideIs DEF t
  <2> QED
    BY <1>1, <1>2, <1>3, <2>1
<1>6. CASE ~s.quoted
  <2>1. \/ Inside(s, c) = [t EXCEPT !.quoted = TRUE]
        \/ Inside(s, c) = [t EXCEPT !.nest = @ + 1]
        \/ Inside(s, c) = [t EXCEPT !.nest = @ - 1]
        \/ Inside(s, c) \in {Refused, Scan("next"), t}
    BY <1>4, <1>6, InsideIs, Zenon DEF t
  <2> QED
    BY <1>1, <1>2, <1>3, <2>1
<1> QED
  BY <1>5, <1>6

\* The bracket that ends the scan of a value ends it for the reader.
LEMMA ClosesLast ==
    ASSUME NEW s, NEW j, ReaderOK(j), NEW n \in Nat, n >= 2, Nested(s, j, n), s.nest = 1,
           NEW c, c = Closer(s), NEW k, Moves(j, c, k), j.at \notin Strings
    PROVE  Len(j.stack) = n /\ k = Closed(j, s.at)
<1>1. /\ j.stack \in Seq(Brackets) /\ j.stack # <<>> /\ Last(j.stack) = Opener(s) /\ k = Closed(j, s.at)
      /\ n \in Nat \ {0} /\ n <= Len(j.stack) /\ s.nest = Cardinality(Opens(j.stack, Opener(s), n))
      /\ j.stack[n] = Opener(s) /\ Opener(s) \in Brackets
  <2>1. j.stack \in Seq(Brackets) /\ n <= Len(j.stack) /\ s.at \in {"object", "array"}
    BY DEF Nested, ReaderOK, Readers
  <2>2. j.stack # <<>>
    BY <2>1
  <2>3. Last(j.stack) = Opener(s) /\ k = Closed(j, s.at)
    BY <2>1 DEF Moves, White, Blank, Brackets, Opener, Closer
  <2>4. n \in Nat \ {0}
    OBVIOUS
  <2>5. s.nest = Cardinality(Opens(j.stack, Opener(s), n)) /\ j.stack[n] = Opener(s)
    BY Zenon DEF Nested
  <2>6. Opener(s) \in Brackets
    BY DEF Opener, Brackets
  <2> QED
    BY <2>1, <2>2, <2>3, <2>4, <2>5, <2>6
<1>2. Last(j.stack) = j.stack[Len(j.stack)]
  BY <1>1, LastIs
<1> QED
  BY <1>1, <1>2, OpensAlone, OpensAreFinite

\* What is read below a member leaves the stack up to it, and its key, as they are.
LEMMA DeepMoves ==
    ASSUME NEW j, ReaderOK(j), NEW c \in Symbols, NEW k, Moves(j, c, k), NEW n \in {2, 3},
           Len(j.stack) >= n, Len(k.stack) >= n
    PROVE  /\ \A i \in 1..n : k.stack[i] = j.stack[i]
           /\ k.key = j.key /\ (n = 3 => k.sub = j.sub)
           /\ \A f \in Fields : k.members[f] = j.members[f]
           /\ n = 3 => k.members = j.members
<1> DEFINE Goal == /\ \A i \in 1..n : k.stack[i] = j.stack[i]
                   /\ k.key = j.key /\ (n = 3 => k.sub = j.sub)
                   /\ \A f \in Fields : k.members[f] = j.members[f]
                   /\ n = 3 => k.members = j.members
<1>1. j \in Readers /\ j.stack \in Seq(Brackets) /\ Len(j.stack) \in Nat /\ j.stack # <<>>
  <2>1. j \in Readers /\ j.stack \in Seq(Brackets)
    BY DEF ReaderOK, Readers
  <2>2. Len(j.stack) \in Nat
    BY <2>1
  <2> QED
    BY <2>1, <2>2
<1>2. CASE k.stack = j.stack /\ k.key = j.key /\ k.members = j.members /\ (n = 3 => k.sub = j.sub)
  BY <1>2
<1>3. ASSUME NEW u \in Readers, Len(u.stack) >= n, NEW v \in Marks
      PROVE  /\ Noted(u) \subseteq {"session_id"} /\ (n = 3 => Noted(u) = {})
             /\ Valued(u, v).stack = u.stack
             /\ Valued(u, v).key = u.key
             /\ n = 3 => Valued(u, v).sub = u.sub
             /\ Valued(u, v).members = Marked(u, v)
  <2>1. Len(u.stack) > 1 /\ (n = 3 => Len(u.stack) > 2)
    <3>1. u.stack \in Seq(Brackets)
      BY <1>3 DEF Readers
    <3> QED
      BY <1>3, <3>1, StackFacts
  <2>2. u.stack # TopText /\ (n = 3 => u.stack # InParamsText)
    BY <1>3, StackFacts DEF Readers
  <2>3. Noted(u) \subseteq {"session_id"} /\ (n = 3 => Noted(u) = {})
    BY <2>2, NotedIs
  <2>4. /\ Valued(u, v).stack = u.stack
        /\ Valued(u, v).key = u.key
        /\ n = 3 => Valued(u, v).sub = u.sub
        /\ Valued(u, v).members = Marked(u, v)
    BY <1>3, <2>1, ValuedIs
  <2> QED
    BY <2>3, <2>4
<1>4. ASSUME NEW u \in Readers, Len(u.stack) >= n, NEW v \in Marks
      PROVE  /\ \A f \in Fields : Marked(u, v)[f] = u.members[f]
             /\ n = 3 => Marked(u, v) = u.members
  <2>1. Noted(u) \subseteq {"session_id"} /\ (n = 3 => Noted(u) = {})
    BY <1>3, <1>4
  <2>2. Fields \subseteq Names /\ "session_id" \notin Fields
    BY DEF Names, Fields, Required
  <2>3. u.members = [m \in Names |-> u.members[m]]
    BY DEF Readers
  <2> QED
    BY <2>1, <2>2, <2>3 DEF Marked
<1>5. CASE \E v \in Marks : k = Valued(j, v)
  <2>1. PICK v \in Marks : k = Valued(j, v)
    BY <1>5
  <2>2. /\ k.stack = j.stack /\ k.key = j.key /\ k.members = Marked(j, v)
        /\ n = 3 => k.sub = j.sub
    <3>1. /\ Valued(j, v).stack = j.stack /\ Valued(j, v).key = j.key
          /\ Valued(j, v).members = Marked(j, v)
          /\ n = 3 => Valued(j, v).sub = j.sub
      BY <1>1, <1>3
    <3> QED
      BY <2>1, <3>1, Zenon
  <2>3. (\A f \in Fields : Marked(j, v)[f] = j.members[f]) /\ (n = 3 => Marked(j, v) = j.members)
    BY <1>1, <1>4
  <2> QED
    BY <2>2, <2>3
<1>6. CASE \E v \in Marks : k = Closed(j, v)
  <2>1. PICK v \in Marks : k = Closed(j, v)
    BY <1>6
  <2>2. PICK u \in Readers : /\ k = Valued(u, v) /\ u.stack = Front(j.stack) /\ u.key = j.key
                             /\ u.sub = j.sub /\ u.members = j.members
    BY <1>1, <2>1, UnderIs, ClosedIs
  <2>3. k.stack = u.stack
    BY <2>2, ValuedIs
  <2>4. Len(u.stack) >= n
    BY <2>3
  <2>5. \A i \in 1..n : u.stack[i] = j.stack[i]
    <3>1. Len(Front(j.stack)) = Len(j.stack) - 1 /\ \A i \in 1..(Len(j.stack) - 1) : Front(j.stack)[i] = j.stack[i]
      BY <1>1, FrontIs
    <3> QED
      BY <1>1, <2>2, <2>4, <3>1
  <2>6. /\ k.key = u.key /\ k.members = Marked(u, v)
        /\ n = 3 => k.sub = u.sub
    <3>1. /\ Valued(u, v).key = u.key /\ Valued(u, v).members = Marked(u, v)
          /\ n = 3 => Valued(u, v).sub = u.sub
      BY <1>3, <2>4
    <3> QED
      BY <2>2, <3>1, Zenon
  <2>7. (\A f \in Fields : Marked(u, v)[f] = u.members[f]) /\ (n = 3 => Marked(u, v) = u.members)
    BY <1>4, <2>4
  <2> QED
    BY <2>2, <2>3, <2>5, <2>6, <2>7
<1>7. CASE c \in Brackets /\ \E at \in {"open", "element"} : k = Pushed(j, at, c)
  <2>1. /\ k.stack = Append(j.stack, c) /\ k.key = j.key /\ k.sub = j.sub /\ k.members = j.members
    <3>1. PICK at \in {"open", "element"} : k = Pushed(j, at, c)
      BY <1>7
    <3> QED
      BY <1>1, <1>7, <3>1, PushedIs
  <2>2. \A i \in 1..n : i \in 1..Len(j.stack)
    BY <1>1
  <2> QED
    BY <1>1, <1>7, <2>1, <2>2, AppendIs
<1>8. CASE k = j \/ k = Spelled(j, c) \/ k = Keyed(j)
  <2>1. Len(j.stack) # 1 /\ (n = 3 => Len(j.stack) # 2)
    BY <1>1, StackFacts
  <2>2. CASE k = j
    BY <1>2, <2>2
  <2>3. CASE k = Spelled(j, c)
    BY <1>1, <1>2, <2>3, SpelledIs
  <2>4. CASE k = Keyed(j)
    BY <1>1, <1>2, <2>1, <2>4, KeyedIs
  <2> QED
    BY <1>8, <2>2, <2>3, <2>4
<1>9. CASE \E at : k = Goes(j, at)
  <2>1. PICK at : k = Goes(j, at)
    BY <1>9
  <2> QED
    BY <1>1, <1>2, <2>1, GoesIs
<1>10. j.text \in Marks /\ "atom" \in Marks /\ "object" \in Marks /\ "array" \in Marks
  BY <1>1 DEF Readers, Marks
<1> HIDE DEF Goal
<1>11. Goal
  BY <1>5, <1>6, <1>7, <1>8, <1>9, <1>10 DEF Moves, Brackets, Goal
<1> QED
  BY <1>11 DEF Goal

\* Below a member of the text.
KeptBelow(j, k) == /\ k.stack[1] = j.stack[1] /\ k.stack[2] = j.stack[2] /\ k.key = j.key
                   /\ \A f \in Fields : k.members[f] = j.members[f]

LEMMA DeepMoves2 ==
    ASSUME NEW j, ReaderOK(j), NEW c \in Symbols, NEW k, Moves(j, c, k),
           Len(j.stack) >= 2, Len(k.stack) >= 2
    PROVE  KeptBelow(j, k)
<1>1. 2 \in {2, 3} /\ 1 \in 1..2 /\ 2 \in 1..2
  BY Numbers
<1>2. /\ \A i \in 1..2 : k.stack[i] = j.stack[i]
      /\ k.key = j.key /\ \A f \in Fields : k.members[f] = j.members[f]
  BY <1>1, DeepMoves
<1> QED
  BY <1>1, <1>2 DEF KeptBelow

\* Below a member of the params.
LEMMA DeepMoves3 ==
    ASSUME NEW j, ReaderOK(j), NEW c \in Symbols, NEW k, Moves(j, c, k),
           Len(j.stack) >= 3, Len(k.stack) >= 3
    PROVE  /\ \A i \in 1..3 : k.stack[i] = j.stack[i]
           /\ k.key = j.key /\ k.sub = j.sub /\ k.members = j.members
<1>1. 3 \in {2, 3}
  BY Numbers
<1> QED
  BY <1>1, DeepMoves

-----------------------------------------------------------------------------
(* Marks. *)

\* A move changes the marks only at the end of a value, for the member it belongs to.
LEMMA Marking ==
    ASSUME NEW j, ReaderOK(j), NEW c \in Symbols, NEW k, Moves(j, c, k)
    PROVE  \/ /\ k.members = j.members /\ (j.odd => k.odd)
              /\ k.stack = j.stack \/ \E b \in Brackets : k.stack = Append(j.stack, b)
           \/ \E u \in Readers, v \in Marks :
                 /\ u.key = j.key /\ u.sub = j.sub /\ u.members = j.members /\ u.odd = j.odd
                 /\ u.stack = j.stack \/ (j.stack # <<>> /\ u.stack = Front(j.stack))
                 /\ k = Valued(u, v)
<1> DEFINE Same == /\ k.members = j.members /\ (j.odd => k.odd)
                   /\ k.stack = j.stack \/ \E b \in Brackets : k.stack = Append(j.stack, b)
           Ends == \E u \in Readers, v \in Marks :
                     /\ u.key = j.key /\ u.sub = j.sub /\ u.members = j.members /\ u.odd = j.odd
                     /\ u.stack = j.stack \/ (j.stack # <<>> /\ u.stack = Front(j.stack))
                     /\ k = Valued(u, v)
<1>1. j \in Readers /\ j.odd \in BOOLEAN
  BY DEF ReaderOK, Readers
<1>2. CASE k = j
  BY <1>2
<1>3. CASE \E at : k = Goes(j, at)
  BY <1>1, <1>3, GoesIs
<1>4. CASE k = Keyed(j)
  BY <1>1, <1>4, KeyedIs
<1>5. CASE k = Spelled(j, c)
  <2>1. /\ k.members = j.members /\ k.stack = j.stack
        /\ k.odd = (j.odd \/ Odd(j, c))
    BY <1>1, <1>5, SpelledIs
  <2>2. j.odd => k.odd
    BY <2>1, Zenon
  <2> QED
    BY <2>1, <2>2
<1>6. CASE c \in Brackets /\ \E at \in {"open", "element"} : k = Pushed(j, at, c)
  <2>1. k.members = j.members /\ k.odd = j.odd /\ k.stack = Append(j.stack, c)
    BY <1>1, <1>6, PushedIs
  <2> QED
    BY <1>6, <2>1
<1>7. CASE \E v \in Marks : k = Valued(j, v)
  BY <1>1, <1>7
<1>8. CASE j.stack # <<>> /\ \E v \in Marks : k = Closed(j, v)
  <2>1. PICK v \in Marks : k = Closed(j, v)
    BY <1>8
  <2>2. /\ k = Valued(Under(j), v) /\ Under(j) \in Readers /\ Under(j).stack = Front(j.stack)
        /\ Under(j).key = j.key /\ Under(j).sub = j.sub
        /\ Under(j).members = j.members /\ Under(j).odd = j.odd
    BY <1>1, <1>8, <2>1, UnderIs, ClosedIs
  <2> QED
    BY <1>8, <2>2, Zenon
<1>9. j.text \in Marks /\ "atom" \in Marks /\ "object" \in Marks /\ "array" \in Marks
  BY <1>1 DEF Readers, Marks
<1>10. j.at \in {"open", "element", "after"} => j.stack # <<>>
  BY DEF ReaderOK
<1> DEFINE Goal == Same \/ Ends
<1> HIDE DEF Goal
<1>11. /\ k = j => Goal
       /\ (\E at : k = Goes(j, at)) => Goal
       /\ k = Keyed(j) => Goal
       /\ k = Spelled(j, c) => Goal
       /\ c \in Brackets /\ (\E at \in {"open", "element"} : k = Pushed(j, at, c)) => Goal
       /\ (\E v \in Marks : k = Valued(j, v)) => Goal
       /\ j.stack # <<>> /\ (\E v \in Marks : k = Closed(j, v)) => Goal
  BY <1>2, <1>3, <1>4, <1>5, <1>6, <1>7, <1>8, Zenon DEF Goal
<1>12. Goal
  BY <1>9, <1>10, <1>11 DEF Moves, Brackets
<1> QED
  BY <1>12, Zenon DEF Goal

\* What is noted stays noted.
LEMMA MarksStay ==
    ASSUME NEW j, ReaderOK(j), NEW c \in Symbols, NEW k, Moves(j, c, k)
    PROVE  /\ j.odd => k.odd
           /\ \A m \in Names : j.members[m] # "absent" => k.members[m] \in {j.members[m], "twice"}
<1>1. ASSUME NEW u \in Readers, NEW v \in Marks, u.members = j.members, u.odd = j.odd, k = Valued(u, v)
      PROVE  /\ j.odd => k.odd
             /\ \A m \in Names : j.members[m] # "absent" => k.members[m] \in {j.members[m], "twice"}
  <2>1. k.members = Marked(u, v) /\ k.odd = j.odd
    BY <1>1, ValuedIs
  <2> QED
    BY <1>1, <2>1, MarkedIs
<1>2. CASE k.members = j.members /\ (j.odd => k.odd)
  BY <1>2
<1> QED
  BY <1>1, <1>2, Marking

-----------------------------------------------------------------------------
(* The parser beside the reader. *)
Live == parser.at # "refused" /\ json.at # "error"

\* As long as neither refuses the text, they are at the same place.
Beside ==
    /\ parser.at \in {"start", "key", "colon", "value", "object", "array", "scalar", "next", "done", "accepted"}
    /\ parser.at = "start" => json.at = "value" /\ json.stack = <<>> /\ seen = {}
    /\ parser.at \in {"key", "colon", "value", "scalar", "next"} => json.stack = TopText
    /\ parser.at = "key" /\ parser.quoted => json.at = "keystring"
    /\ parser.at = "key" /\ ~parser.quoted => json.at \in {"open", "key"}
    /\ parser.at = "key" /\ json.at = "open" => seen = {}
    /\ parser.at = "colon" => json.at = "colon"
    /\ parser.at = "value" /\ parser.quoted => json.at = "string"
    /\ parser.at = "value" /\ ~parser.quoted => json.at = "value"
    /\ parser.at \in {"object", "array"} => json.stack[1] = "{" /\ Nested(parser, json, 2)
    /\ parser.at \in {"scalar", "next"} => json.at = "after"
    /\ parser.at = "done" => json.at = "top"
    /\ parser.at = "accepted" => json.at \in {"ended", "cut"}
    /\ parser.at \in {"colon", "value", "object", "array"} => json.key = parser.key
    /\ parser.quoted /\ (parser.at = "key" \/ InField) => json.text = parser.text

Aligned == Live => Beside

Blanking(c) == /\ c \in White /\ ~parser.quoted /\ parser.at \notin {"object", "array"}
               /\ parser' = parser /\ json' = json
Opening(c) == /\ parser.at = "start" /\ c = "{"
              /\ parser' = Scan("key") /\ json' = Pushed(json, "open", c)
BeginningKey(c) == /\ parser.at = "key" /\ ~parser.quoted /\ c = "quote"
                   /\ parser' = Quote(parser) /\ json' = Goes(json, "keystring")
Cutting(c) == /\ parser.at = "key" /\ ~parser.quoted /\ c = "end" /\ json.at = "key"
              /\ Required \subseteq seen
              /\ parser' = Scan("accepted") /\ json' = Goes(json, "cut")
SpellingKey(c) == /\ parser.at = "key" /\ parser.quoted /\ Letter(c)
                  /\ parser' = [parser EXCEPT !.text = Extend(@, c)] /\ json' = Spelled(json, c)
EndingKey(c) == /\ parser.at = "key" /\ parser.quoted /\ c = "quote"
                /\ parser' = [Scan("colon") EXCEPT !.key = Name(parser.text)] /\ json' = Keyed(json)
PassingColon(c) == /\ parser.at = "colon" /\ c = ":" /\ parser.key \notin seen
                   /\ parser' = [parser EXCEPT !.at = "value"] /\ json' = Goes(json, "value")
BeginningString(c) == /\ parser.at = "value" /\ ~parser.quoted /\ c = "quote" /\ parser.key # "params"
                      /\ parser' = Quote(parser) /\ json' = Goes(json, "string")
SpellingString(c) == /\ parser.at = "value" /\ parser.quoted /\ Letter(c)
                     /\ parser' = IF InField THEN [parser EXCEPT !.text = Extend(@, c)] ELSE parser
                     /\ json' = Spelled(json, c)
EndingString(c) == /\ parser.at = "value" /\ parser.quoted /\ c = "quote"
                   /\ parser.key = "jsonrpc" => parser.text = "2.0"
                   /\ parser' = Scan("next") /\ json' = Valued(json, json.text)
Nesting(c) == /\ parser.at = "value" /\ ~parser.quoted /\ c \in Brackets
              /\ parser.key \notin Required /\ (c = "[" => parser.key # "params")
              /\ parser' = [parser EXCEPT !.at = IF c = "{" THEN "object" ELSE "array", !.nest = 1,
                                          !.size = IF c = "{" THEN Grown(0, c) ELSE @]
              /\ json' = Pushed(json, IF c = "{" THEN "open" ELSE "element", c)
PassingAtom(c) == /\ parser.at = "value" /\ ~parser.quoted /\ c \in {"atom", "2.0"}
                  /\ parser.key \notin Fields
                  /\ parser' = [parser EXCEPT !.at = "scalar"] /\ json' = Valued(json, "atom")
GoingOn(c) == /\ parser.at \in {"object", "array"} /\ parser' = Inside(parser, c)
              /\ parser'.at = parser.at /\ parser'.key = parser.key
              /\ Moves(json, c, json') /\ Nested(parser', json', 2)
Leaving(c) == /\ parser.at \in {"object", "array"} /\ Len(json.stack) = 2
              /\ parser' = Scan("next") /\ json'.at = "after" /\ json' = Closed(json, parser.at)
Continuing(c) == /\ parser.at \in {"scalar", "next"} /\ c = ","
                 /\ parser' = Scan("key") /\ json' = Goes(json, "key")
Closing(c) == /\ parser.at \in {"scalar", "next"} /\ c = "}"
              /\ parser' = Scan("done") /\ json' = Closed(json, "object")
Finishing(c) == /\ parser.at = "done" /\ c = "end" /\ Required \subseteq seen
                /\ parser' = Scan("accepted") /\ json' = Goes(json, "ended")

Product(c) ==
    \/ Blanking(c) \/ Opening(c) \/ BeginningKey(c) \/ Cutting(c) \/ SpellingKey(c) \/ EndingKey(c)
    \/ PassingColon(c) \/ BeginningString(c) \/ SpellingString(c) \/ EndingString(c)
    \/ Nesting(c) \/ PassingAtom(c) \/ GoingOn(c) \/ Leaving(c) \/ Continuing(c) \/ Closing(c)
    \/ Finishing(c)

\* The stack at the text's own members.
LEMMA TopIs ==
    /\ Last(TopText) = "{" /\ TopText # <<>> /\ Len(TopText) = 1 /\ TopText[1] = "{"
BY DEF TopText, Last

\* A symbol that the reader does not refuse is a move of it and a step of the parser.
LEMMA SymbolIs ==
    ASSUME TypeInv, ReaderOK(json), json.at # "error", NEW c \in Symbols, Symbol(c), json'.at # "error"
    PROVE  Moves(json, c, json') /\ Parse(c) /\ json' = Read(json, c)
<1>1. json.at \notin {"ended", "cut"} /\ json' = Read(json, c) /\ Parse(c)
  BY DEF Symbol, Ended
<1> QED
  BY <1>1, ReadMoves

\* Outside strings the parser goes by its place.
LEMMA ParseAt ==
    ASSUME NEW c, Parse(c), ~parser.quoted
    PROVE  /\ SkipsBlank(parser, c) => parser' = parser
           /\ ~SkipsBlank(parser, c) /\ parser.at = "colon" => ParseColon(c)
           /\ ~SkipsBlank(parser, c) /\ parser.at = "value" => ParseValue(c)
           /\ ~SkipsBlank(parser, c) /\ parser.at \notin {"colon", "value"} => ParseOther(c)
<1>1. SkipsBlank(parser, c) => parser' = parser
  BY DEF Parse, ParseString, ParseColon, ParseValue, ParseOther, SkipWs
<1>2. ASSUME ~SkipsBlank(parser, c), parser.at = "colon" PROVE ParseColon(c)
  BY <1>2, ParseOtherIs DEF Parse, ParseString, ParseValue, SkipWs
<1>3. ASSUME ~SkipsBlank(parser, c), parser.at = "value" PROVE ParseValue(c)
  BY <1>3, ParseOtherIs DEF Parse, ParseString, ParseColon, SkipWs
<1>4. ASSUME ~SkipsBlank(parser, c), parser.at \notin {"colon", "value"} PROVE ParseOther(c)
  BY <1>4 DEF Parse, ParseString, ParseColon, ParseValue, SkipWs
<1> QED
  BY <1>1, <1>2, <1>3, <1>4

\* Side by side, parser and reader take one of the steps above.
LEMMA ProductSteps ==
    ASSUME TypeInv, ReaderOK(json), Aligned, Live, NEW c \in Symbols, Symbol(c), Live'
    PROVE  Product(c)
<1>1. /\ Moves(json, c, json') /\ Parse(c) /\ Placed(parser) /\ Beside
      /\ parser'.at # "refused" /\ Refused.at = "refused" /\ json \in Readers
  BY SymbolIs, RefusedIsPlaced DEF Live, Aligned, TypeInv, ReaderOK
<1>2. CASE parser.quoted
  <2>1. ParseString(c)
    BY <1>1, <1>2 DEF Parse, ParseColon, ParseValue, ParseOther, SkipWs, SkipsBlank, Placed
  <2>2. parser.at \in {"key", "value", "object", "array"}
    BY <1>1, <1>2 DEF Placed
  <2>3. /\ parser' = Literal(parser, c, InField \/ parser.at = "key")
        /\ c = "quote" /\ InField /\ parser.key = "jsonrpc" => parser.text = "2.0"
    BY <1>1, <2>1 DEF ParseString
  <2>4. CASE parser.at = "key"
    <3>1. json.at = "keystring"
      BY <1>1, <1>2, <2>4 DEF Beside
    <3>2. (Letter(c) /\ json' = Spelled(json, c)) \/ (c = "quote" /\ json' = Keyed(json))
      BY <1>1, <3>1, MovesFrom
    <3>3. c = "quote" => parser' = [Scan("colon") EXCEPT !.key = Name(parser.text)]
      <4>1. (InField \/ parser.at = "key") \in BOOLEAN
        BY Zenon
      <4>2. c = "quote" => parser' = Unquote(parser)
        <5>1. Counted(parser, c) = parser
          BY <1>1, <2>4, CountedIs
        <5>2. c = "quote" => parser' = Unquote(Counted(parser, c))
          BY <2>3, <4>1, LiteralCases, Zenon
        <5> QED
          BY <5>1, <5>2
      <4>3. Unquote(parser) = [Scan("colon") EXCEPT !.key = Name(parser.text)]
        BY <2>4, UnquoteCases, Zenon
      <4> QED
        BY <4>2, <4>3, Zenon
    <3>4. Letter(c) => parser' = [parser EXCEPT !.text = Extend(@, c)]
      <4>1. c \in {"unicode", "newline", "formfeed", "end"} => parser' = Refused
        BY <2>3, LiteralCases, Zenon
      <4>2. Letter(c) => c \notin {"quote", "unicode", "newline", "formfeed", "end"}
        BY <1>1, <4>1 DEF Letter
      <4>3. Letter(c) => parser' = IF Extend(parser.text, c) = "long" THEN Refused
                                   ELSE [parser EXCEPT !.text = Extend(parser.text, c)]
        BY <2>3, <2>4, <4>2, LiteralCases, Zenon
      <4> QED
        BY <1>1, <4>3
    <3> QED
      BY <1>2, <2>4, <3>2, <3>3, <3>4 DEF Product, SpellingKey, EndingKey
  <2>5. CASE parser.at = "value"
    <3>1. json.at = "string"
      BY <1>1, <1>2, <2>5 DEF Beside
    <3>2. (Letter(c) /\ json' = Spelled(json, c)) \/ (c = "quote" /\ json' = Valued(json, json.text))
      BY <1>1, <3>1, MovesFrom
    <3>3. c = "quote" => parser' = Scan("next")
      <4>1. c = "quote" => parser' = Unquote(parser)
        <5>1. Counted(parser, c) = parser
          BY <1>1, <2>5, CountedIs
        <5>2. c = "quote" => parser' = Unquote(Counted(parser, c))
          BY <2>3, LiteralCases
        <5> QED
          BY <5>1, <5>2
      <4> QED
        BY <2>5, <4>1, UnquoteCases
    <3>4. Letter(c) => parser' = IF InField THEN [parser EXCEPT !.text = Extend(@, c)] ELSE parser
      <4>1. c \in {"unicode", "newline", "formfeed", "end"} => parser' = Refused
        BY <2>3, LiteralCases, Zenon
      <4>2. Letter(c) => c \notin {"quote", "unicode", "newline", "formfeed", "end"}
        BY <1>1, <4>1 DEF Letter
      <4>3. Letter(c) /\ InField => parser' = IF Extend(parser.text, c) = "long" THEN Refused
                                              ELSE [parser EXCEPT !.text = Extend(parser.text, c)]
        BY <2>3, <2>5, <4>2, LiteralCases, Zenon
      <4>4. Letter(c) /\ ~InField => parser' = parser
        <5>4. Counted(parser, c) = parser
          BY <1>1, <2>5, CountedIs
        <5>1. parser' = Literal(parser, c, InField)
          <6>1. parser.at # "key"
            BY <2>5
          <6>2. (InField \/ parser.at = "key") = InField
            BY <6>1 DEF InField
          <6> QED
            BY <2>3, <6>2
        <5>2. InField = FALSE \/ ~(Letter(c) /\ ~InField)
          BY DEF InField
        <5>3. Letter(c) /\ ~InField => parser' = Literal(parser, c, FALSE)
          BY <5>1, <5>2
        <5> QED
          BY <4>2, <5>3, <5>4, LiteralCases
      <4> QED
        BY <1>1, <4>3, <4>4
    <3>5. c = "quote" /\ parser.key = "jsonrpc" => parser.text = "2.0"
      BY <2>3, <2>5 DEF InField, Required
    <3> QED
      BY <1>2, <2>5, <3>2, <3>3, <3>4, <3>5 DEF Product, SpellingString, EndingString
  <2>6. CASE parser.at \in {"object", "array"}
    <3>1. parser' = Inside(parser, c)
      <4>1. (InField \/ parser.at = "key") = FALSE
        BY <2>6 DEF InField
      <4> QED
        BY <1>2, <2>3, <4>1 DEF Inside
    <3> QED
      <4>1. Nested(parser, json, 2)
        BY <1>1, <2>6 DEF Beside
      <4>2. \/ /\ Nested(Inside(parser, c), json', 2)
               /\ Inside(parser, c).at = parser.at /\ Inside(parser, c).key = parser.key
            \/ /\ Inside(parser, c) = Scan("next") /\ json'.at = "after" /\ Len(json.stack) = 2
               /\ json' = Closed(json, parser.at)
        <5>1. Inside(parser, c).at # "refused" /\ 2 \in Nat /\ 2 >= 2
          BY <1>1, <3>1
        <5> QED
          BY <1>1, <4>1, <5>1, NestedStep
      <4>3. GoingOn(c) \/ Leaving(c)
        BY <1>1, <2>6, <3>1, <4>2 DEF GoingOn, Leaving
      <4> QED
        BY <4>3 DEF Product
  <2> QED
    BY <2>2, <2>4, <2>5, <2>6
<1>3. CASE ~parser.quoted /\ parser.at \in {"object", "array"}
  <2>1. parser' = Inside(parser, c)
    <3>1. ~SkipsBlank(parser, c)
      BY <1>3 DEF SkipsBlank
    <3>2. ParseOther(c)
      BY <1>1, <1>3, <3>1, ParseAt
    <3>3. parser' = RawOf(parser, c)
      BY <1>3, <3>2, ParseOtherIs
    <3> QED
      BY <1>3, <3>3 DEF Inside
  <2>2. Nested(parser, json, 2)
    BY <1>1, <1>3 DEF Beside
  <2>3. \/ /\ Nested(Inside(parser, c), json', 2)
           /\ Inside(parser, c).at = parser.at /\ Inside(parser, c).key = parser.key
        \/ /\ Inside(parser, c) = Scan("next") /\ json'.at = "after" /\ Len(json.stack) = 2
           /\ json' = Closed(json, parser.at)
    <3>1. Inside(parser, c).at # "refused" /\ 2 \in Nat /\ 2 >= 2
      BY <1>1, <2>1
    <3> QED
      BY <1>1, <2>2, <3>1, NestedStep
  <2>4. GoingOn(c) \/ Leaving(c)
    BY <1>1, <1>3, <2>1, <2>3 DEF GoingOn, Leaving
  <2> QED
    BY <2>4 DEF Product
<1>4. ASSUME ~parser.quoted, parser.at \notin {"object", "array"} PROVE Product(c)
  <2>1. json.at \notin Strings
    BY <1>1, <1>4 DEF Beside, Strings
  <2>2. CASE c \in White
    <3>1. json' = json
      BY <1>1, <2>1, <2>2, MovesFrom
    <3>2. parser' = parser
      <4>1. CASE parser.at = "scalar"
        <5>1. ~SkipsBlank(parser, c) /\ ~EndsScalar(c)
          BY <2>2, <4>1 DEF SkipsBlank, EndsScalar, White, Blank
        <5> QED
          BY <1>1, <1>4, <4>1, <5>1, ParseAt, ParseOtherIs
      <4>2. CASE parser.at # "scalar"
        <5>1. SkipsBlank(parser, c)
          BY <1>4, <2>2, <4>2 DEF SkipsBlank, White
        <5> QED
          BY <1>1, <1>4, <5>1, ParseAt
      <4> QED
        BY <4>1, <4>2
    <3> QED
      BY <1>4, <2>2, <3>1, <3>2 DEF Product, Blanking
  <2>3. CASE c \notin White
    <3>1. CASE parser.at = "start"
      <4>1. json.at = "value"
        BY <1>1, <3>1 DEF Beside
      <4>2. \/ c = "quote" \/ c \in {"atom", "2.0"}
            \/ c \in Brackets /\ json' = Pushed(json, IF c = "{" THEN "open" ELSE "element", c)
        BY <1>1, <2>3, <4>1, MovesFrom
      <4>3. ~SkipsBlank(parser, c)
        BY <4>2 DEF SkipsBlank, Blank, Brackets
      <4>4. parser' = IF c = "{" THEN Scan("key") ELSE Refused
        BY <1>1, <1>4, <3>1, <4>3, ParseAt, ParseOtherIs
      <4>5. c = "{"
        BY <1>1, <4>4
      <4> QED
        BY <3>1, <4>2, <4>4, <4>5 DEF Product, Opening
    <3>2. CASE parser.at = "key"
      <4>1. json.at \in {"open", "key"}
        BY <1>1, <1>4, <3>2 DEF Beside
      <4>2. \/ c = "quote" /\ json' = Goes(json, "keystring")
            \/ c = "}"
            \/ json.at = "key" /\ c = "end" /\ json' = Goes(json, "cut")
        BY <1>1, <2>3, <4>1, MovesFrom
      <4>3. ~SkipsBlank(parser, c)
        BY <4>2 DEF SkipsBlank, Blank
      <4>4. ParseOther(c)
        BY <1>1, <1>4, <3>2, <4>3, ParseAt
      <4>5. CASE c = "quote"
        BY <1>4, <3>2, <4>2, <4>4, <4>5, ParseOtherIs DEF Product, BeginningKey
      <4>6. CASE c = "end"
        <5>1. parser' = Checked
          BY <3>2, <4>4, <4>6, ParseOtherIs
        <5>2. Required \subseteq seen /\ parser' = Scan("accepted")
          BY <1>1, <5>1 DEF Checked
        <5> QED
          BY <1>4, <3>2, <4>2, <4>6, <5>2 DEF Product, Cutting
      <4>7. CASE c = "}"
        <5>1. parser' = Refused
          <6>1. c \notin {"quote", "end"}
            BY <4>7
          <6> QED
            BY <3>2, <4>4, <6>1, ParseOtherIs, Zenon
        <5> QED
          BY <1>1, <5>1
      <4> QED
        BY <4>2, <4>5, <4>6, <4>7
    <3>3. CASE parser.at = "colon"
      <4>1. json.at = "colon"
        BY <1>1, <3>3 DEF Beside
      <4>2. c = ":" /\ json' = Goes(json, "value")
        BY <1>1, <2>3, <4>1, MovesFrom
      <4>3. ParseColon(c)
        BY <1>1, <1>4, <3>3, <4>2, ParseAt DEF SkipsBlank, Blank
      <4>4. parser.key \notin seen /\ parser' = [parser EXCEPT !.at = "value"]
        BY <1>1, <4>2, <4>3 DEF ParseColon
      <4> QED
        BY <3>3, <4>2, <4>4 DEF Product, PassingColon
    <3>4. CASE parser.at = "value"
      <4>1. json.at = "value"
        BY <1>1, <1>4, <3>4 DEF Beside
      <4>2. \/ c = "quote" /\ json' = Goes(json, "string")
            \/ c \in Brackets /\ json' = Pushed(json, IF c = "{" THEN "open" ELSE "element", c)
            \/ c \in {"atom", "2.0"} /\ json' = Valued(json, "atom")
        BY <1>1, <2>3, <4>1, MovesFrom
      <4>3. ParseValue(c) /\ ~EndsScalar(c)
        BY <1>1, <1>4, <3>4, <4>2, ParseAt DEF SkipsBlank, Blank, Brackets, EndsScalar
      <4>4. /\ parser.key \in Required => parser' = Quote(parser) /\ c = "quote"
            /\ parser.key = "params" => parser' = SkipValue(parser, c) /\ c = "{"
            /\ parser.key \notin Fields => parser' = SkipValue(parser, c)
        <5>1. /\ parser.key \in Required => parser' = IF c = "quote" THEN Quote(parser) ELSE Refused
              /\ parser.key = "params" => parser' = IF c = "{" THEN SkipValue(parser, c) ELSE Refused
              /\ parser.key \notin Fields =>
                    parser' = IF EndsScalar(c) THEN AfterValue(c) ELSE SkipValue(parser, c)
          BY <4>3, ParseValueIs
        <5> QED
          BY <1>1, <4>3, <5>1
      <4>5. parser.key \in Required \/ parser.key = "params" \/ parser.key \notin Fields
        BY DEF Fields
      <4>6. Required \subseteq Fields /\ "params" \in Fields /\ "params" \notin Required
        BY DEF Fields, Required
      <4>7. CASE c = "quote"
        <5>1. parser' = Quote(parser) /\ parser.key # "params"
          BY <4>4, <4>5, <4>7, SkipValueCases
        <5> QED
          BY <1>4, <3>4, <4>2, <4>7, <5>1 DEF Product, BeginningString, Brackets
      <4>8. CASE c \in Brackets
        <5>1. parser' = SkipValue(parser, c) /\ parser.key \notin Required /\ (c = "[" => parser.key # "params")
          BY <4>4, <4>5, <4>6, <4>8 DEF Brackets
        <5>2. parser' = [parser EXCEPT !.at = IF c = "{" THEN "object" ELSE "array", !.nest = 1,
                                       !.size = IF c = "{" THEN Grown(0, c) ELSE @]
          <6>1. CASE c = "{"
            <7>1. parser' = [parser EXCEPT !.at = "object", !.nest = 1, !.size = Grown(0, c)]
              BY <5>1, <6>1, SkipValueCases, Zenon
            <7> QED
              BY <6>1, <7>1, Zenon
          <6>2. CASE c = "["
            <7>1. parser' = [parser EXCEPT !.at = "array", !.nest = 1]
              BY <5>1, <6>2, SkipValueCases, Zenon
            <7>2. [parser EXCEPT !.at = "array", !.nest = 1]
                     = [parser EXCEPT !.at = "array", !.nest = 1, !.size = parser.size]
              BY <1>1 DEF Placed, Scans
            <7> QED
              BY <6>2, <7>1, <7>2
          <6> QED
            BY <4>8, <6>1, <6>2 DEF Brackets
        <5>3. json' = Pushed(json, IF c = "{" THEN "open" ELSE "element", c)
          BY <4>2, <4>8 DEF Brackets
        <5> QED
          BY <1>4, <3>4, <4>8, <5>1, <5>2, <5>3 DEF Product, Nesting
      <4>9. CASE c \in {"atom", "2.0"}
        <5>1. parser' = SkipValue(parser, c) /\ parser.key \notin Fields
          BY <4>4, <4>5, <4>9
        <5>2. parser' = [parser EXCEPT !.at = "scalar"]
          BY <4>9, <5>1, SkipValueCases
        <5>3. json' = Valued(json, "atom")
          BY <4>2, <4>9 DEF Brackets
        <5> QED
          BY <1>4, <3>4, <4>9, <5>1, <5>2, <5>3 DEF Product, PassingAtom
      <4> QED
        BY <4>2, <4>7, <4>8, <4>9
    <3>5. CASE parser.at \in {"scalar", "next"}
      <4>1. json.at = "after" /\ Last(json.stack) = "{"
        BY <1>1, <3>5, TopIs DEF Beside
      <4>2. (c = "," /\ json' = Goes(json, "key")) \/ (c = "}" /\ json' = Closed(json, "object"))
        <5>1. \/ c = "," /\ Last(json.stack) = "{" /\ json' = Goes(json, "key")
              \/ Last(json.stack) = "["
              \/ c = "}" /\ Last(json.stack) = "{" /\ json' = Closed(json, "object")
          BY <1>1, <2>3, <4>1, MovesFrom
        <5> QED
          BY <4>1, <5>1
      <4>3. ParseOther(c) /\ EndsScalar(c)
        BY <1>1, <1>4, <3>5, <4>2, ParseAt DEF SkipsBlank, Blank, EndsScalar
      <4>4. parser' = AfterValue(c)
        BY <3>5, <4>3, ParseOtherIs
      <4> QED
        BY <3>5, <4>2, <4>4, AfterValueIs DEF Product, Continuing, Closing
    <3>6. CASE parser.at = "done"
      <4>1. json.at = "top"
        BY <1>1, <3>6 DEF Beside
      <4>2. c = "end" /\ json' = Goes(json, "ended")
        BY <1>1, <2>3, <4>1, MovesFrom
      <4>3. ParseOther(c)
        BY <1>1, <1>4, <3>6, <4>2, ParseAt DEF SkipsBlank, Blank
      <4>4. Required \subseteq seen /\ parser' = Scan("accepted")
        BY <1>1, <3>6, <4>2, <4>3, ParseOtherIs DEF Checked
      <4> QED
        BY <3>6, <4>2, <4>4 DEF Product, Finishing
    <3>7. parser.at # "accepted"
      BY DEF Symbol, Ended
    <3> QED
      BY <1>1, <1>4, <3>1, <3>2, <3>3, <3>4, <3>5, <3>6, <3>7 DEF Beside
  <2> QED
    BY <2>2, <2>3
<1> QED
  BY <1>2, <1>3, <1>4

-----------------------------------------------------------------------------
(* They stay side by side. *)

\* What one of them has refused stays refused.
LEMMA RefusalIsFinal ==
    ASSUME TypeInv, ReaderOK(json), NEW c \in Symbols, Symbol(c), ~Live
    PROVE  ~Live'
<1>1. json' = Read(json, c) /\ Parse(c) /\ Placed(parser)
  BY DEF Symbol, TypeInv
<1>2. ASSUME json.at = "error" PROVE json' = json
  BY <1>1, <1>2, ReadIs, ReadAtIs DEF Strings
<1>3. ASSUME parser.at = "refused" PROVE parser' = parser
  <2>1. ~parser.quoted
    BY <1>1, <1>3 DEF Placed
  <2> QED
    BY <1>1, <1>3, <2>1, ParseAt, ParseOtherIs
<1> QED
  BY <1>2, <1>3 DEF Live

\* The stack behind a closing bracket.
LEMMA ClosedStackIs ==
    ASSUME NEW j \in Readers, j.stack # <<>>, NEW v \in Marks
    PROVE  /\ Closed(j, v).stack = Front(j.stack)
           /\ Front(j.stack) = <<>> => Closed(j, v).at = "top"
           /\ Front(j.stack) # <<>> => Closed(j, v).at = "after"
<1>1. PICK u \in Readers : u.stack = Front(j.stack) /\ Closed(j, v) = Valued(u, v)
  BY UnderIs, ClosedIs
<1>2. /\ Valued(u, v).stack = u.stack
      /\ u.stack = <<>> => Valued(u, v).at = "top"
      /\ u.stack # <<>> => Valued(u, v).at = "after"
  BY ValuedIs, Zenon
<1> QED
  BY <1>1, <1>2, Zenon

\* Under a member's object or array is the text's own.
LEMMA FrontOfTwo ==
    ASSUME NEW stack \in Seq(Brackets), Len(stack) = 2, stack[1] = "{"
    PROVE  Front(stack) = TopText
<1>1. Front(stack) \in Seq(Brackets) /\ Len(Front(stack)) = 1 /\ Front(stack)[1] = "{"
  <2>1. stack # <<>>
    BY StackFacts
  <2>2. /\ Front(stack) \in Seq(Brackets) /\ Len(Front(stack)) = 2 - 1
        /\ \A i \in 1..(2 - 1) : Front(stack)[i] = stack[i]
    BY <2>1, FrontIs
  <2>3. 2 - 1 = 1 /\ 1 \in 1..(2 - 1)
    BY Numbers
  <2> QED
    BY <2>2, <2>3, Zenon
<1>2. TopText \in Seq(Brackets) /\ Len(TopText) = 1 /\ TopText[1] = "{"
  BY TopIs, Words3
<1>3. \A i \in 1..1 : i = 1
  BY Numbers
<1>4. \A i \in 1..Len(Front(stack)) : Front(stack)[i] = TopText[i]
  BY <1>1, <1>2, <1>3, Zenon
<1> QED
  BY <1>1, <1>2, <1>4, SeqEqual

\* The stack in a member's object or array.
LEMMA PushOnTop ==
    ASSUME NEW c \in Brackets
    PROVE  /\ Len(Append(TopText, c)) = 2 /\ Append(TopText, c)[1] = "{" /\ Append(TopText, c)[2] = c
           /\ Append(TopText, c) \in Seq(Brackets)
           /\ c = "{" => Append(TopText, c) = InParamsText
<1>1. /\ Append(TopText, c) \in Seq(Brackets) /\ Len(Append(TopText, c)) = Len(TopText) + 1
      /\ Append(TopText, c)[Len(TopText) + 1] = c
      /\ \A i \in 1..Len(TopText) : Append(TopText, c)[i] = TopText[i]
  BY Words3, AppendIs
<1>2. Len(Append(TopText, c)) = 2 /\ Append(TopText, c)[1] = "{" /\ Append(TopText, c)[2] = c
  BY <1>1, TopIs, Numbers, Zenon
<1>3. ASSUME c = "{" PROVE Append(TopText, c) = InParamsText
  <2>1. InParamsText[1] = "{" /\ InParamsText[2] = "{"
    BY DEF InParamsText
  <2>2. \A i \in 1..2 : Append(TopText, c)[i] = InParamsText[i]
    BY <1>2, <1>3, <2>1, Numbers, Zenon
  <2> QED
    BY <1>1, <1>2, <2>2, Words3, SeqEqual
<1> QED
  BY <1>1, <1>2, <1>3

\* What is kept of the text.
LEMMA RecordsAre ==
    ASSUME TypeInv, NEW c \in Symbols, Parse(c)
    PROVE  /\ parser.at # "colon" => seen' = seen
           /\ parser.at = "colon" /\ parser'.at = "value" => seen' = seen \cup ({parser.key} \cap Fields)
           /\ parser.at = "colon" /\ parser' = parser => seen' = seen
           /\ parser.quoted /\ c = "quote" /\ InField /\ parser.key \in DOMAIN request
                => request' = [request EXCEPT ![parser.key] = parser.text]
           /\ ~(parser.quoted /\ c = "quote" /\ InField /\ parser.key \in DOMAIN request)
                => request' = request
<1>1. Placed(parser) /\ Refused.at = "refused"
  BY RefusedIsPlaced DEF TypeInv
<1>2. CASE ParseString(c)
  BY <1>1, <1>2 DEF ParseString, Placed
<1>3. CASE ParseColon(c)
  <2>1. parser.at = "colon" /\ ~parser.quoted /\ request' = request
    BY <1>1, <1>3 DEF ParseColon, Placed
  <2>2. parser'.at = "value" => seen' = seen \cup ({parser.key} \cap Fields)
    BY <1>1, <1>3 DEF ParseColon
  <2>3. parser' # parser
    <3>1. [parser EXCEPT !.at = "value"].at = "value"
      BY <1>1 DEF Placed, Scans
    <3> QED
      BY <1>1, <1>3, <2>1, <3>1 DEF ParseColon
  <2> QED
    BY <2>1, <2>2, <2>3
<1>4. CASE ParseValue(c)
  BY <1>4, ParseValueIs
<1>5. CASE ParseOther(c)
  BY <1>5, ParseOtherIs
<1>6. CASE SkipWs(c)
  <2>1. parser' = parser /\ seen' = seen /\ request' = request /\ ~parser.quoted
    BY <1>6 DEF SkipWs, SkipsBlank
  <2> QED
    BY <2>1
<1> QED
  BY <1>2, <1>3, <1>4, <1>5, <1>6 DEF Parse

\* Each of these steps leaves them side by side.
LEMMA BesideStep ==
    ASSUME TypeInv, ReaderOK(json), Beside, NEW c \in Symbols, Parse(c), Product(c)
    PROVE  Beside'
<1>1. json \in Readers /\ Placed(parser) /\ parser \in Scans /\ parser.text \in Contents
  BY DEF ReaderOK, TypeInv, Placed, Scans
<1>2. CASE Blanking(c)
  <2>1. seen' = seen
    BY <1>2, RecordsAre DEF Blanking
  <2> QED
    BY <1>2, <2>1 DEF Blanking, Beside, InField
<1>3. CASE Opening(c)
  <2>1. json.stack = <<>> /\ c \in Brackets
    BY <1>3 DEF Opening, Beside, Brackets
  <2>2. json'.at = "open" /\ json'.stack = Append(<<>>, "{")
    <3>1. json' = Pushed(json, "open", c) /\ c = "{"
      BY <1>3 DEF Opening
    <3> QED
      <4>1. "{" \in Brackets /\ "open" \in {"open", "element"}
        BY DEF Brackets
      <4> QED
        <5>1. json'.at = "open" /\ json'.stack = Append(json.stack, "{")
          BY <1>1, <3>1, <4>1, PushedIs
        <5> QED
          BY <2>1, <5>1
  <2>3. Append(<<>>, "{") = TopText
    BY DEF TopText
  <2>4. parser'.at = "key" /\ ~parser'.quoted
    BY <1>3, ScanIsPlaced DEF Opening, Places
  <2>5. seen' = {}
    BY <1>3, RecordsAre DEF Opening, Beside
  <2> QED
    BY <2>2, <2>3, <2>4, <2>5 DEF Beside
<1>4. CASE BeginningKey(c)
  <2>1. json'.at = "keystring" /\ json'.stack = json.stack /\ json'.text = json.text
    BY <1>1, <1>4, GoesIs DEF BeginningKey
  <2>2. json.text = "" /\ json.stack = TopText
    BY <1>4 DEF BeginningKey, Beside, ReaderOK, Strings
  <2>3. parser'.at = "key" /\ parser'.quoted /\ parser'.text = ""
    BY <1>1, <1>4 DEF BeginningKey, Quote, Scans
  <2> QED
    BY <2>1, <2>2, <2>3 DEF Beside
<1>5. CASE Cutting(c)
  <2>1. json'.at = "cut"
    BY <1>1, <1>5, GoesIs DEF Cutting
  <2>2. parser'.at = "accepted" /\ ~parser'.quoted
    BY <1>5, ScanIsPlaced DEF Cutting, Places
  <2> QED
    BY <2>1, <2>2 DEF Beside
<1>6. CASE SpellingKey(c)
  <2>1. Matters(json) /\ json.stack = TopText /\ json.at = "keystring" /\ json.text = parser.text
    BY <1>6 DEF SpellingKey, Beside, Matters, TopText
  <2>2. json'.at = "keystring" /\ json'.stack = json.stack /\ json'.text = Extend(json.text, c)
    BY <1>1, <1>6, <2>1, SpelledIs DEF SpellingKey
  <2>3. parser'.at = "key" /\ parser'.quoted /\ parser'.text = Extend(parser.text, c)
    BY <1>1, <1>6 DEF SpellingKey, Scans
  <2> QED
    BY <2>1, <2>2, <2>3 DEF Beside
<1>7. CASE EndingKey(c)
  <2>1. json.stack = TopText /\ json.text = parser.text /\ Len(json.stack) = 1
    BY <1>7, TopIs DEF EndingKey, Beside
  <2>2. json'.at = "colon" /\ json'.stack = json.stack /\ json'.key = Name(json.text)
    BY <1>1, <1>7, <2>1, KeyedIs DEF EndingKey
  <2>3. parser'.at = "colon" /\ ~parser'.quoted /\ parser'.key = Name(parser.text)
    BY <1>1, <1>7 DEF EndingKey, Scan
  <2> QED
    BY <2>1, <2>2, <2>3 DEF Beside
<1>8. CASE PassingColon(c)
  <2>1. json'.at = "value" /\ json'.stack = json.stack /\ json'.key = json.key
    BY <1>1, <1>8, GoesIs DEF PassingColon
  <2>2. parser'.at = "value" /\ ~parser'.quoted /\ parser'.key = parser.key
    BY <1>1, <1>8 DEF PassingColon, Scans, Placed
  <2> QED
    BY <1>8, <2>1, <2>2 DEF Beside, PassingColon
<1>9. CASE BeginningString(c)
  <2>1. json'.at = "string" /\ json'.stack = json.stack /\ json'.text = json.text /\ json'.key = json.key
    BY <1>1, <1>9, GoesIs DEF BeginningString
  <2>2. json.text = "" /\ json.stack = TopText /\ json.key = parser.key
    BY <1>9 DEF BeginningString, Beside, ReaderOK, Strings
  <2>3. parser'.at = "value" /\ parser'.quoted /\ parser'.text = "" /\ parser'.key = parser.key
    BY <1>1, <1>9 DEF BeginningString, Quote, Scans
  <2> QED
    BY <2>1, <2>2, <2>3 DEF Beside
<1>10. CASE SpellingString(c)
  <2>1. json.stack = TopText /\ json.at = "string" /\ json.key = parser.key /\ (InField => json.text = parser.text)
    BY <1>10 DEF SpellingString, Beside
  <2>2. InField => Matters(json)
    <3>1. Noted(json) = {json.key} \cap Fields
      BY <2>1, NotedIs
    <3> QED
      BY <2>1, <3>1 DEF Matters, InField, Fields
  <2>3. /\ json'.at = "string" /\ json'.stack = json.stack /\ json'.key = json.key
        /\ InField => json'.text = Extend(json.text, c)
    BY <1>1, <1>10, <2>1, <2>2, SpelledIs DEF SpellingString
  <2>4. /\ parser'.at = "value" /\ parser'.quoted /\ parser'.key = parser.key
        /\ InField => parser'.text = Extend(parser.text, c)
    BY <1>1, <1>10 DEF SpellingString, Scans
  <2> QED
    <3>1. InField' => InField
      BY <2>1, <2>4, <1>10 DEF InField, SpellingString
    <3>2. InField => json'.text = parser'.text
      BY <2>1, <2>3, <2>4
    <3> QED
      BY <2>1, <2>3, <2>4, <3>1, <3>2 DEF Beside
<1>11. CASE EndingString(c) \/ PassingAtom(c)
  <2>1. /\ json.stack = TopText /\ json.stack # <<>>
        /\ json.text \in Marks /\ "atom" \in Marks
    BY <1>1, <1>11, TopIs DEF EndingString, PassingAtom, Beside, Readers, Marks
  <2>2. PICK v \in Marks : json' = Valued(json, v)
    BY <1>11, <2>1 DEF EndingString, PassingAtom
  <2>3. json'.at = "after" /\ json'.stack = TopText
    BY <1>1, <2>1, <2>2, ValuedIs
  <2>4. parser'.at \in {"next", "scalar"} /\ ~parser'.quoted
    BY <1>1, <1>11, ScanIsPlaced DEF EndingString, PassingAtom, Places, Scans
  <2> QED
    BY <2>3, <2>4 DEF Beside
<1>12. CASE Nesting(c)
  <2>1. json.stack = TopText /\ json.key = parser.key /\ c \in Brackets /\ json.stack \in Seq(Brackets)
    BY <1>1, <1>12 DEF Nesting, Beside, Readers
  <2>2. /\ json'.stack = Append(json.stack, c) /\ json'.at \in {"open", "element"} /\ json'.key = json.key
    BY <1>1, <1>12, <2>1, PushedIs DEF Nesting
  <2>3. Len(json'.stack) = 2 /\ json'.stack[1] = "{" /\ json'.stack[2] = c /\ json'.stack \in Seq(Brackets)
    <3>1. json'.stack = Append(TopText, c)
      BY <2>1, <2>2, Zenon
    <3>2. /\ Len(Append(TopText, c)) = 2 /\ Append(TopText, c)[1] = "{" /\ Append(TopText, c)[2] = c
          /\ Append(TopText, c) \in Seq(Brackets)
      BY <2>1, PushOnTop, Zenon
    <3> QED
      BY <3>1, <3>2, Zenon
  <2>4. /\ parser'.at = IF c = "{" THEN "object" ELSE "array"
        /\ parser'.nest = 1 /\ ~parser'.quoted /\ parser'.key = parser.key
    BY <1>1, <1>12 DEF Nesting, Scans
  <2>5. Opener(parser') = c /\ parser'.at \in {"object", "array"}
    BY <2>1, <2>4 DEF Opener, Brackets
  <2>6. Cardinality(Opens(json'.stack, c, 2)) = 1
    <3>1. /\ json'.stack \in Seq(Brackets) /\ 2 \in Nat \ {0} /\ 2 <= Len(json'.stack)
          /\ json'.stack[2] = c
      BY <2>3, Numbers, Zenon
    <3> QED
      BY <2>3, <3>1, OpensAlone
  <2>7. Nested(parser', json', 2)
    <3>1. 2 <= Len(json'.stack)
      BY <2>3, Numbers, Zenon
    <3> QED
      BY <2>2, <2>3, <2>4, <2>5, <2>6, <3>1 DEF Nested, Strings
  <2> QED
    BY <2>1, <2>2, <2>3, <2>4, <2>5, <2>7 DEF Beside, InField
<1>13. CASE GoingOn(c)
  <2>1. /\ Nested(parser, json, 2) /\ Nested(parser', json', 2) /\ json.stack[1] = "{"
        /\ parser'.at = parser.at /\ parser'.key = parser.key /\ json.key = parser.key
        /\ parser.at \in {"object", "array"} /\ Moves(json, c, json')
    BY <1>13 DEF GoingOn, Beside
  <2>2. json'.stack[1] = json.stack[1] /\ json'.key = json.key
    <3>1. Len(json.stack) >= 2 /\ Len(json'.stack) >= 2
      BY <2>1 DEF Nested
    <3> QED
      BY <2>1, <3>1, DeepMoves2 DEF KeptBelow
  <2> QED
    BY <2>1, <2>2 DEF Beside, InField
<1>14. CASE Leaving(c)
  <2>1. /\ json.stack \in Seq(Brackets) /\ Len(json.stack) = 2 /\ json.stack[1] = "{" /\ json.stack # <<>>
        /\ json' = Closed(json, parser.at) /\ parser.at \in Marks
    <3>1. json.stack \in Seq(Brackets) /\ Len(json.stack) = 2
      BY <1>1, <1>14 DEF Leaving, Readers
    <3>2. json.stack[1] = "{" /\ json' = Closed(json, parser.at) /\ parser.at \in {"object", "array"}
      BY <1>14 DEF Leaving, Beside
    <3> QED
      BY <3>1, <3>2, StackFacts DEF Marks
  <2>2. json'.at = "after" /\ json'.stack = Front(json.stack)
    BY <1>1, <1>14, <2>1, ClosedStackIs DEF Leaving
  <2>3. Front(json.stack) = TopText
    BY <2>1, FrontOfTwo
  <2>4. parser'.at = "next" /\ ~parser'.quoted
    BY <1>14, ScanIsPlaced DEF Leaving, Places
  <2> QED
    BY <2>2, <2>3, <2>4 DEF Beside
<1>15. CASE Continuing(c)
  <2>1. json'.at = "key" /\ json'.stack = json.stack
    BY <1>1, <1>15, GoesIs DEF Continuing
  <2>2. parser'.at = "key" /\ ~parser'.quoted
    BY <1>15, ScanIsPlaced DEF Continuing, Places
  <2> QED
    BY <1>15, <2>1, <2>2 DEF Beside, Continuing
<1>16. CASE Closing(c)
  <2>1. json.stack = TopText /\ json.stack # <<>> /\ json' = Closed(json, "object") /\ "object" \in Marks
    BY <1>16, TopIs DEF Closing, Beside, Marks
  <2>2. json'.stack = <<>> /\ json'.at = "top"
    <3>1. Front(TopText) = <<>>
      BY DEF TopText, Front
    <3> QED
      BY <1>1, <2>1, <3>1, ClosedStackIs
  <2>3. parser'.at = "done" /\ ~parser'.quoted
    BY <1>16, ScanIsPlaced DEF Closing, Places
  <2> QED
    BY <2>2, <2>3 DEF Beside
<1>17. CASE Finishing(c)
  <2>1. json'.at = "ended"
    BY <1>1, <1>17, GoesIs DEF Finishing
  <2>2. parser'.at = "accepted" /\ ~parser'.quoted
    BY <1>17, ScanIsPlaced DEF Finishing, Places
  <2> QED
    BY <2>1, <2>2 DEF Beside
<1> QED
  BY <1>2, <1>3, <1>4, <1>5, <1>6, <1>7, <1>8, <1>9, <1>10, <1>11, <1>12, <1>13, <1>14, <1>15, <1>16, <1>17
     DEF Product

SideInv == TypeInv /\ ReaderOK(json) /\ Aligned

\* Before the first symbol.
LEMMA InitIsAligned == Init => SideInv
<1> SUFFICES ASSUME Init PROVE SideInv
  OBVIOUS
<1>1. TypeInv
  BY InitIsTyped
<1>2. json = Reader("value") /\ parser = Scan("start") /\ seen = {}
  BY DEF Init
<1>3. /\ json.at = "value" /\ json.stack = <<>> /\ json.key = "" /\ json.sub = "" /\ json.text = ""
      /\ json.odd = FALSE /\ json.members = [m \in Names |-> "absent"]
  BY <1>2 DEF Reader, Names
<1>4. json \in Readers
  <2>1. [m \in Names |-> "absent"] \in [Names -> Marks]
    BY DEF Marks
  <2>2. <<>> \in Seq(Brackets)
    BY EmptySeq
  <2> QED
    BY <1>2, <2>1, <2>2, ContentsAre DEF Reader, Readers, Names
<1>5. parser.at = "start" /\ ~parser.quoted
  BY <1>2, ScanIsPlaced DEF Places
<1>6. ReaderOK(json) /\ Beside
  BY <1>2, <1>3, <1>4, <1>5 DEF ReaderOK, Strings, Beside
<1> QED
  BY <1>1, <1>6 DEF SideInv, Aligned

\* The reader that has refused.
LEMMA ErrorIsOK ==
    ASSUME NEW j, j = Reader("error")
    PROVE  ReaderOK(j)
<1>1. [m \in Names |-> "absent"] \in [Names -> Marks] /\ <<>> \in Seq(Brackets)
  BY EmptySeq DEF Marks
<1>2. j \in Readers
  BY <1>1, ContentsAre DEF Reader, Readers, Names
<1>3. j.at = "error" /\ j.text = ""
  BY DEF Reader
<1> QED
  BY <1>2, <1>3 DEF ReaderOK

\* What the reader refuses, it refuses for good.
LEMMA ErrorsAre ==
    ASSUME NEW j, NEW c, ReaderOK(j), j.at \notin {"ended", "cut"},
           Read(j, c).at = "error" \/ j.at = "error"
    PROVE  Read(j, c) = Reader("error") \/ Read(j, c) = j
<1>1. j \in Readers /\ Error(j) = Reader("error")
  BY DEF ReaderOK, Error
<1>2. CASE j.at = "error"
  BY <1>2, ReadIs, ReadAtIs DEF Strings
<1>3. ASSUME j.at # "error", Read(j, c).at = "error"
      PROVE  Read(j, c) = Error(j)
  <2>1. \A v \in Marks : Valued(j, v).at # "error"
    BY <1>1, ValuedIs
  <2>2. \A at \in {"string", "keystring", "value", "key", "cut", "ended"} : Goes(j, at).at # "error"
    BY <1>1, GoesIs
  <2>3. j.stack # <<>> => \A v \in Marks : Closed(j, v).at # "error"
    BY <1>1, ClosedStackIs
  <2>4. j.text \in Marks /\ "atom" \in Marks /\ "object" \in Marks /\ "array" \in Marks
    BY <1>1 DEF Readers, Marks
  <2>5. Keyed(j).at # "error"
    BY <1>1, KeyedIs
  <2>6. Spelled(j, c).at = j.at /\ Pushed(j, "open", c).at = "open" /\ Pushed(j, "element", c).at = "element"
    BY <1>1 DEF Spelled, Pushed, Readers
  <2>7. CASE j.at \in Strings
    <3>1. Read(j, c) = ReadString(j, c)
      BY <2>7, ReadIs
    <3> QED
      BY <1>3, <2>1, <2>4, <2>5, <2>6, <2>7, <3>1, ReadStringIs, Zenon
  <2>8. CASE j.at \notin Strings
    <3>1. Read(j, c) = ReadAt(j, c)
      BY <1>3, <2>8, ReadIs
    <3>2. ReadValue(j, c).at = "error" => ReadValue(j, c) = Error(j)
      BY <2>1, <2>2, <2>4, <2>6, ReadValueIs, Zenon
    <3>3. CASE j.at = "value"
      BY <1>3, <3>1, <3>2, <3>3, ReadAtIs
    <3>4. CASE j.at = "element"
      <4>1. j.stack # <<>>
        BY <3>4 DEF ReaderOK
      <4>2. ReadAt(j, c) = IF c = "]" THEN Closed(j, "array") ELSE ReadValue(j, c)
        BY <3>4, ReadAtIs
      <4> QED
        BY <1>3, <2>3, <2>4, <3>1, <3>2, <4>1, <4>2, Zenon
    <3>5. CASE j.at \in {"open", "key"}
      <4>1. j.stack # <<>>
        BY <3>5 DEF ReaderOK
      <4>2. /\ c = "quote" => ReadAt(j, c) = Goes(j, "keystring")
            /\ c = "}" /\ j.at = "open" => ReadAt(j, c) = Closed(j, "object")
            /\ c = "end" /\ j.at = "key" => ReadAt(j, c) = Goes(j, "cut")
            /\ ~(c = "quote" \/ (c = "}" /\ j.at = "open") \/ (c = "end" /\ j.at = "key"))
                 => ReadAt(j, c) = Error(j)
        BY <3>5, ReadAtIs
      <4> QED
        BY <1>3, <2>2, <2>3, <2>4, <3>1, <4>1, <4>2, Zenon
    <3>6. CASE j.at \in {"colon", "top"}
      <4>1. ReadAt(j, c) \in {Goes(j, "value"), Goes(j, "ended"), Error(j)}
        BY <3>6, ReadAtIs
      <4> QED
        BY <1>3, <2>2, <3>1, <4>1
    <3>7. CASE j.at = "after"
      <4>1. j.stack # <<>> /\ Last(j.stack) \in Brackets
        BY <1>1, <3>7, LastIs DEF ReaderOK, Readers
      <4>2. ReadAt(j, c) = Behind(j, c)
        BY <3>7, ReadAtIs
      <4>3. Last(j.stack) = "{" \/ Last(j.stack) = "["
        BY <4>1 DEF Brackets
      <4>4. Behind(j, c) \in {Goes(j, "key"), Goes(j, "value"), Closed(j, "object"), Closed(j, "array"), Error(j)}
        BY <4>3, BehindIs
      <4> QED
        BY <1>3, <2>2, <2>3, <2>4, <3>1, <4>1, <4>2, <4>4
    <3>8. j.at \in {"value", "element", "open", "key", "after", "colon", "top"}
      BY <1>1, <1>3, <2>8 DEF Readers, Strings
    <3> QED
      BY <3>3, <3>4, <3>5, <3>6, <3>7, <3>8
  <2> QED
    BY <2>7, <2>8
<1> QED
  BY <1>1, <1>2, <1>3

\* They are side by side from the first symbol to the first refusal.
LEMMA SideStep ==
    ASSUME SideInv, [Next]_vars
    PROVE  SideInv'
<1>1. TypeInv'
  BY StepIsTyped DEF SideInv
<1>2. CASE UNCHANGED vars
  BY <1>1, <1>2 DEF SideInv, vars, ReaderOK, Aligned, Live, Beside, InField, Nested, Opener
<1>3. ASSUME NEW c \in Symbols, Symbol(c)
      PROVE  SideInv'
  <2>1. ReaderOK(json)'
    <3>1. json' = Read(json, c) /\ json.at \notin {"ended", "cut"}
      BY <1>3 DEF Symbol, Ended
    <3>2. CASE json'.at # "error" /\ json.at # "error"
      BY <1>3, <3>2, SymbolIs, ReaderStays DEF SideInv
    <3>3. CASE json'.at = "error" \/ json.at = "error"
      <4>1. json' = json \/ json' = Reader("error")
        BY <3>1, <3>3, ErrorsAre DEF SideInv
      <4> QED
        BY <4>1, ErrorIsOK DEF SideInv
    <3> QED
      BY <3>2, <3>3
  <2>2. Aligned'
    <3>1. CASE Live /\ Live'
      BY <1>3, <3>1, ProductSteps, BesideStep, SymbolIs DEF SideInv, Aligned, Live
    <3>2. CASE ~Live
      BY <1>3, <3>2, RefusalIsFinal DEF SideInv, Aligned
    <3>3. CASE ~Live'
      BY <3>3 DEF Aligned
    <3> QED
      BY <3>1, <3>2, <3>3
  <2> QED
    BY <1>1, <2>1, <2>2 DEF SideInv
<1> QED
  BY <1>2, <1>3 DEF Next

-----------------------------------------------------------------------------
(* Where the reader refuses. *)
\* Where the reader does not refuse.
LEMMA ReaderGoesOn ==
    ASSUME NEW j, ReaderOK(j), NEW c \in Symbols
    PROVE  /\ j.at \in Strings /\ (Letter(c) \/ c = "quote") => Read(j, c).at # "error"
           /\ j.at = "value" /\ c = "{" => Read(j, c).at # "error"
           /\ j.at \in {"open", "key"} /\ c = "quote" => Read(j, c).at # "error"
           /\ j.at = "key" /\ c = "end" => Read(j, c).at # "error"
           /\ j.at = "colon" /\ c = ":" => Read(j, c).at # "error"
           /\ j.at = "after" /\ Last(j.stack) = "{" /\ c \in {",", "}"} => Read(j, c).at # "error"
           /\ j.at = "top" /\ c = "end" => Read(j, c).at # "error"
<1>1. j \in Readers /\ j.text \in Marks /\ "object" \in Marks
  BY DEF ReaderOK, Readers, Marks
<1>2. \A at : Goes(j, at).at = at
  BY <1>1, GoesIs
<1>3. \A v \in Marks : Valued(j, v).at # "error"
  BY <1>1, ValuedIs
<1>4. ASSUME j.at \in Strings, Letter(c) \/ c = "quote" PROVE Read(j, c).at # "error"
  <2>1. Spelled(j, c).at = j.at /\ Keyed(j).at = "colon"
    BY <1>1, SpelledIs, KeyedIs
  <2>2. Read(j, c) = ReadString(j, c)
    BY <1>4, ReadIs
  <2>3. Read(j, c) \in {Spelled(j, c), Keyed(j), Valued(j, j.text)}
    BY <1>4, <2>2, ReadStringIs
  <2> QED
    BY <1>1, <1>3, <1>4, <2>1, <2>3 DEF Strings
<1>5. ASSUME j.at \notin Strings, c \notin White PROVE Read(j, c) = ReadAt(j, c)
  BY <1>5, ReadIs
<1>6. c \in {"{", "quote", "end", ":", ",", "}"} => c \notin White
  BY DEF White, Blank
<1>7. ASSUME j.at = "value", c = "{" PROVE Read(j, c).at # "error"
  <2>1. Pushed(j, "open", c).at = "open"
    BY <1>1 DEF Pushed, Readers
  <2>2. Read(j, c) = ReadAt(j, c)
    BY <1>5, <1>6, <1>7 DEF Strings
  <2>3. ReadAt(j, c) = ReadValue(j, c)
    BY <1>7, ReadAtIs
  <2>4. ReadValue(j, c) = Pushed(j, "open", c)
    BY <1>7, ReadValueIs
  <2> QED
    BY <2>1, <2>2, <2>3, <2>4
<1>8. ASSUME \/ j.at \in {"open", "key"} /\ c = "quote"
             \/ j.at = "key" /\ c = "end"
             \/ j.at = "colon" /\ c = ":"
             \/ j.at = "top" /\ c = "end"
      PROVE  Read(j, c).at # "error"
  <2>1. Read(j, c) = ReadAt(j, c)
    BY <1>5, <1>6, <1>8 DEF Strings
  <2>2. CASE j.at \in {"open", "key"} /\ c = "quote"
    <3>1. ReadAt(j, c) = Goes(j, "keystring")
      BY <2>2, ReadAtIs
    <3> QED
      BY <1>2, <2>1, <3>1
  <2>3. CASE j.at = "key" /\ c = "end"
    <3>1. ReadAt(j, c) = Goes(j, "cut")
      BY <2>3, ReadAtIs
    <3> QED
      BY <1>2, <2>1, <3>1
  <2>4. CASE j.at = "colon" /\ c = ":"
    <3>1. ReadAt(j, c) = Goes(j, "value")
      BY <2>4, ReadAtIs
    <3> QED
      BY <1>2, <2>1, <3>1
  <2>5. CASE j.at = "top" /\ c = "end"
    <3>1. ReadAt(j, c) = Goes(j, "ended")
      BY <2>5, ReadAtIs
    <3> QED
      BY <1>2, <2>1, <3>1
  <2> QED
    BY <1>8, <2>2, <2>3, <2>4, <2>5
<1>10. ASSUME j.at = "after", Last(j.stack) = "{", c \in {",", "}"} PROVE Read(j, c).at # "error"
  <2>1. j.stack # <<>>
    BY <1>10 DEF ReaderOK
  <2>2. Closed(j, "object").at # "error"
    BY <1>1, <2>1, ClosedStackIs
  <2>3. Read(j, c) = Behind(j, c)
    BY <1>5, <1>6, <1>10, ReadAtIs DEF Strings
  <2>4. CASE c = ","
    <3>1. Behind(j, c) = Goes(j, "key")
      BY <1>10, <2>4, BehindIs, Zenon
    <3>2. Goes(j, "key").at # "error"
      BY <1>2
    <3> QED
      BY <2>3, <3>1, <3>2, Zenon
  <2>5. CASE c = "}"
    <3>1. Behind(j, c) = Closed(j, "object")
      BY <1>10, <2>5, BehindIs, Zenon
    <3> QED
      BY <2>2, <2>3, <3>1, Zenon
  <2> QED
    BY <1>10, <2>4, <2>5
<1> QED
  BY <1>4, <1>7, <1>8, <1>10

\* Where the reader refuses, the parser does, or is inside a value, or passes over
\* white space.
LEMMA LaxStep ==
    ASSUME SideInv, NEW c \in Symbols, Symbol(c), json.at # "error", json'.at = "error"
    PROVE  \/ parser' = Refused
           \/ parser.at \in {"value", "object", "array", "scalar"}
           \/ parser' = parser
<1>1. /\ json' = Read(json, c) /\ Parse(c) /\ Placed(parser) /\ TypeInv /\ ReaderOK(json)
      /\ Read(json, c).at = "error"
  BY DEF Symbol, SideInv, TypeInv
<1>2. CASE parser.at \in {"refused", "accepted"}
  <2>1. ~parser.quoted
    BY <1>1, <1>2 DEF Placed
  <2> QED
    BY <1>1, <1>2, <2>1, ParseAt, ParseOtherIs
<1>3. ASSUME parser.at # "refused" PROVE Beside
  BY <1>3 DEF SideInv, Aligned, Live
<1>4. CASE parser.at = "key" /\ parser.quoted
  <2>1. json.at = "keystring"
    BY <1>3, <1>4 DEF Beside
  <2>2. ~Letter(c) /\ c # "quote"
    BY <1>1, <2>1, ReaderGoesOn DEF Strings
  <2>3. c \in {"newline", "formfeed", "end"}
    BY <2>2 DEF Letter
  <2>4. ParseString(c)
    BY <1>1, <1>4 DEF Parse, ParseColon, ParseValue, ParseOther, SkipWs, SkipsBlank
  <2>5. parser' = Literal(parser, c, InField \/ parser.at = "key")
    BY <2>3, <2>4 DEF ParseString
  <2> QED
    BY <2>3, <2>5, LiteralCases
<1>5. CASE parser.at = "key" /\ ~parser.quoted /\ ~SkipsBlank(parser, c)
  <2>1. json.at \in {"open", "key"} /\ (json.at = "open" => seen = {})
    BY <1>3, <1>5 DEF Beside
  <2>2. ParseOther(c)
    BY <1>1, <1>5, ParseAt
  <2>3. c # "quote"
    BY <1>1, <2>1, ReaderGoesOn
  <2>4. CASE c = "end"
    <3>1. json.at = "open"
      BY <1>1, <2>1, <2>4, ReaderGoesOn
    <3>2. ~(Required \subseteq seen)
      BY <2>1, <3>1 DEF Required
    <3>3. parser' = Checked
      BY <1>5, <2>2, <2>4, ParseOtherIs
    <3> QED
      BY <3>2, <3>3 DEF Checked
  <2>5. CASE c # "end"
    BY <1>5, <2>2, <2>3, <2>5, ParseOtherIs, Zenon
  <2> QED
    BY <2>4, <2>5
<1>6. CASE parser.at \in {"start", "colon", "next", "done"} /\ ~SkipsBlank(parser, c)
  <2>1. ~parser.quoted /\ Beside
    BY <1>1, <1>3, <1>6 DEF Placed
  <2>2. CASE parser.at = "start"
    <3>1. json.at = "value"
      BY <2>1, <2>2 DEF Beside
    <3>2. c # "{"
      BY <1>1, <3>1, ReaderGoesOn
    <3> QED
      BY <1>1, <1>6, <2>1, <2>2, <3>2, ParseAt, ParseOtherIs
  <2>3. CASE parser.at = "colon"
    <3>1. json.at = "colon"
      BY <2>1, <2>3 DEF Beside
    <3>2. c # ":"
      BY <1>1, <3>1, ReaderGoesOn
    <3> QED
      BY <1>1, <1>6, <2>1, <2>3, <3>2, ParseAt DEF ParseColon
  <2>4. CASE parser.at = "next"
    <3>1. json.at = "after" /\ Last(json.stack) = "{"
      BY <2>1, <2>4, TopIs DEF Beside
    <3>2. c \notin {",", "}"}
      BY <1>1, <3>1, ReaderGoesOn
    <3>3. parser' = AfterValue(c)
      BY <1>1, <1>6, <2>1, <2>4, ParseAt, ParseOtherIs
    <3> QED
      BY <3>2, <3>3, AfterValueIs
  <2>5. CASE parser.at = "done"
    <3>1. json.at = "top"
      BY <2>1, <2>5 DEF Beside
    <3>2. c # "end"
      BY <1>1, <3>1, ReaderGoesOn
    <3> QED
      BY <1>1, <1>6, <2>1, <2>5, <3>2, ParseAt, ParseOtherIs
  <2> QED
    BY <1>6, <2>2, <2>3, <2>4, <2>5
<1>7. CASE SkipsBlank(parser, c)
  <2>1. ~parser.quoted
    BY <1>7 DEF SkipsBlank
  <2> QED
    BY <1>1, <1>7, <2>1, ParseAt
<1>8. parser.at # "refused" => parser.at \in {"start", "key", "colon", "value", "object", "array",
                                             "scalar", "next", "done", "accepted"}
  BY <1>3 DEF Beside
<1> QED
  BY <1>2, <1>4, <1>5, <1>6, <1>7, <1>8

\* Between the members of an object the parser refuses what a JSON reader refuses, at the
\* same symbol: laxer it is only inside a value that it skips or copies, and in what it takes
\* for white space (anything_rpc_parse, rpc.c:229-284).
THEOREM ParserIsLaxOnlyInValues == Spec => LaxOnlyInValues
<1>1. ASSUME SideInv, [Next]_vars
      PROVE  [json.at # "error" /\ json'.at = "error" =>
                \/ parser' = Refused
                \/ parser.at \in {"value", "object", "array", "scalar"}
                \/ parser' = parser]_vars
  BY <1>1, LaxStep DEF Next, vars
<1> QED
  BY <1>1, InitIsAligned, SideStep, PTL DEF Spec, LaxOnlyInValues
=============================================================================
