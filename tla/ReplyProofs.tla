----------------------------- MODULE ReplyProofs -----------------------------
(***************************************************************************)
(* What holds of an answer for ids of any length and, but for the last     *)
(* theorem, for buffers of any size.                                       *)
(***************************************************************************)
EXTENDS Reply, WellFoundedInduction, TLAPS

-----------------------------------------------------------------------------
(* Lengths of lists *)

\* An entry and its comma lengthen a list.
LEMMA OneMoreEntry ==
    \A n \in Nat : /\ EntriesText(n) \in Nat /\ EntriesText(0) = 0
                   /\ n < 99 => EntriesText(n + 1) = EntriesText(n) + (Comma(n + 1) + EntryText(n + 1))
                   /\ Comma(n + 1) + EntryText(n + 1) \in Nat
BY DEF EntriesText, EntryText, Comma, Digits

LEMMA LongerLists ==
    \A m \in Nat, n \in Nat :
        m <= n => EntriesText(m) <= EntriesText(n) /\ ListText(m) <= ListText(n)
BY DEF ListText, HeaderText, FooterText, EntriesText, EntryText, Digits

\* There is a longest list that fits.
LEMMA CapacityExists ==
    /\ ListCapacity \in 0..MaxPending /\ ListText(ListCapacity) < ResultSize
    /\ ListCapacity < MaxPending => ListText(ListCapacity + 1) >= ResultSize
<1> DEFINE Stops == {n \in 0..MaxPending : n < MaxPending => ListText(n + 1) >= ResultSize}
           less == OpToRel(<, Nat)
<1>1. MaxPending \in Nat /\ ResultSize \in Nat /\ ListText(0) < ResultSize
  BY SizesAssumption, BuffersAssumption
<1>2. MaxPending \in Stops /\ Stops \subseteq Nat
  BY <1>1
<1>3. PICK n \in Stops : \A m \in Stops : <<m, n>> \notin less
  <2>1. IsWellFoundedOn(less, Nat)
    BY NatLessThanWellFounded
  <2> HIDE DEF less, Stops
  <2> QED
    BY <1>2, <2>1, WFMin
<1>4. \A m \in Stops : ~(m < n)
  BY <1>2, <1>3 DEF OpToRel
<1>5. n \in 0..MaxPending /\ (n < MaxPending => ListText(n + 1) >= ResultSize)
  OBVIOUS
<1>6. ListText(n) < ResultSize
  <2>1. CASE n = 0
    BY <1>1, <2>1
  <2>2. CASE n # 0
    <3>1. n - 1 \in 0..MaxPending /\ n - 1 < n /\ n - 1 < MaxPending /\ n - 1 + 1 = n
      BY <1>1, <1>5, <2>2
    <3>2. n - 1 \notin Stops
      BY <1>4, <3>1
    <3>3. ~(ListText(n) >= ResultSize)
      BY <3>1, <3>2
    <3>4. ListText(n) \in Nat
      BY <1>1, <1>5, OneMoreEntry DEF ListText, HeaderText, FooterText
    <3> QED
      BY <1>1, <3>3, <3>4
  <2> QED
    BY <2>1, <2>2
<1> QED
  BY <1>5, <1>6 DEF ListCapacity

\* A list fits just when it is no longer than that.
LEMMA CapacityBounds ==
    \A n \in 0..MaxPending : n <= ListCapacity <=> ListText(n) < ResultSize
<1> SUFFICES ASSUME NEW n \in 0..MaxPending
             PROVE  n <= ListCapacity <=> ListText(n) < ResultSize
  OBVIOUS
<1>1. /\ ListCapacity \in Nat /\ n \in Nat /\ ResultSize \in Nat /\ MaxPending \in Nat
      /\ ListText(n) \in Nat /\ ListText(ListCapacity) \in Nat /\ ListText(ListCapacity + 1) \in Nat
  <2>1. ListCapacity \in Nat /\ n \in Nat /\ ResultSize \in Nat /\ MaxPending \in Nat
    BY CapacityExists, SizesAssumption
  <2>2. \A m \in Nat : ListText(m) \in Nat
    BY OneMoreEntry DEF ListText, HeaderText, FooterText
  <2>3. ListCapacity + 1 \in Nat
    BY <2>1
  <2> QED
    BY <2>1, <2>2, <2>3
<1>2. n <= ListCapacity => ListText(n) <= ListText(ListCapacity)
  BY <1>1, LongerLists
<1>3. ~(n <= ListCapacity) => /\ ListCapacity < MaxPending
                              /\ ListText(ListCapacity + 1) <= ListText(n)
  BY <1>1, LongerLists
<1> QED
  BY <1>1, <1>2, <1>3, CapacityExists
-----------------------------------------------------------------------------
(* Answers *)

\* What sys.info puts together is a text, if it can.
LEMMA InfoTexts ==
    \A growth \in Growth : InfoText(growth) \in Nat /\ (InfoFits(growth) => InfoText(growth) < InfoSize)
<1> SUFFICES ASSUME NEW growth \in Growth
             PROVE  InfoText(growth) \in Nat /\ (InfoFits(growth) => InfoText(growth) < InfoSize)
  OBVIOUS
<1>1. PICK m \in {1, 2, 6}, n \in {1, 2, 6} : growth = <<m, m, m, m, n>>
  BY DEF Growth
<1>2. InfoText(growth) = 100 + m * 64 + m * 64 + m * 255 + m * 63 + n * 64
  BY <1>1 DEF InfoText, RawTexts
<1>3. InfoText(growth) \in Nat
  BY <1>1, <1>2
<1> QED
  BY <1>3 DEF InfoFits

\* How much of the list is written, by where the code is.
Written == /\ pc \in {"idle", "header"} => i = 0 /\ used = 0
           /\ pc = "entries" => used = HeaderText + EntriesText(i)
           /\ pc = "footer" => used = HeaderText + EntriesText(count)
           /\ pc = "encode" /\ asked = "list" => used = ListText(count)
           /\ pc = "encode" /\ asked = "info" => used < InfoSize

\* What is being answered.
Asked == /\ pc = "idle" => asked = "nothing"
         /\ pc \in {"header", "entries", "footer"} => asked = "list"
         /\ pc \in {"encode", "send", "shown"} => asked \in {"list", "info"}
         /\ pc # "idle" => Escaped(id) \in Nat /\ Escaped(id) < 2 * MaxId - 1

\* What became of it.
Length == EnvelopeText + Escaped(id) + used
Answered == /\ pc \in {"send", "shown"} => reply \in {"whole", "cut", "refused"}
            /\ pc \notin {"send", "shown"} => reply = "none" /\ sent = 0 /\ shown = 0
            /\ reply = "refused" => /\ sent = ErrorText
                                    /\ asked = "list" => ListText(count) >= ResultSize
            /\ reply \in {"whole", "cut"} =>
                  /\ asked = "list" => used = ListText(count)
                  /\ asked = "info" => used < InfoSize
                  /\ reply = "cut" <=> Length >= ResponseSize
            /\ pc = "shown" => shown = Least(sent, ClientSize - 1)

ReplyInv == TypeOK /\ BufferIsKept /\ Written /\ Asked /\ Answered

LEMMA Sizes ==
    /\ MaxPending \in 1..99 /\ MaxId \in Nat \ {0} /\ Counts \subseteq Nat
    /\ ResultSize \in Nat \ {0} /\ InfoSize \in Nat \ {0} /\ ResponseSize \in Nat \ {0}
    /\ ClientSize \in Nat \ {0} /\ ErrorText < ResponseSize /\ ErrorText \in Nat
BY SizesAssumption, BuffersAssumption DEF ErrorText

LEMMA InitReply == Init => ReplyInv
BY Sizes
   DEF Init, ReplyInv, TypeOK, BufferIsKept, Written, Asked, Answered, Ids, NoId

\* Of an id that the parser takes, ...
LEMMA ParsedIds ==
    ASSUME NEW new \in Ids, Parses(new)
    PROVE  Escaped(new) \in Nat /\ Escaped(new) < 2 * MaxId - 1
<1>1. /\ new.plain \in Nat /\ new.special \in Nat
      /\ new.plain + new.special < MaxId
  BY Sizes DEF Ids, Parses
<1> QED
  BY <1>1, Sizes DEF Escaped

\* Between answers.
LEMMA IdleStep == ASSUME ReplyInv, Add \/ Restart PROVE ReplyInv'
<1> USE DEF ReplyInv
<1>1. /\ pc = "idle" /\ count' \in 0..MaxPending /\ i = 0
      /\ UNCHANGED <<pc, i, used, id, asked, reply, sent, shown>>
  BY Sizes DEF Add, Restart, TypeOK, Written
<1>2. TypeOK'
  BY <1>1 DEF TypeOK
<1>3. BufferIsKept' /\ Written' /\ Asked' /\ Answered'
  BY <1>1 DEF BufferIsKept, Written, Asked, Answered, Length
<1> QED
  BY <1>2, <1>3

LEMMA ListStep == ASSUME ReplyInv, NEW new \in Ids, List(new) PROVE ReplyInv'
<1> USE DEF ReplyInv
<1>1. /\ pc = "idle" /\ pc' = "header" /\ asked' = "list" /\ id' = new /\ Parses(new)
      /\ UNCHANGED <<count, i, used, reply, sent, shown>>
  BY DEF List
<1>2. TypeOK' /\ Written' /\ Answered'
  BY <1>1 DEF TypeOK, Written, Answered
<1>3. BufferIsKept'
  BY <1>1, Sizes DEF Written, BufferIsKept
<1>4. Asked'
  BY <1>1, ParsedIds DEF Asked, Escaped
<1> QED
  BY <1>2, <1>3, <1>4

LEMMA InfoStep ==
    ASSUME ReplyInv, NEW new \in Ids, NEW growth \in Growth,
           Info(new, growth) \/ InfoFails(new, growth)
    PROVE  ReplyInv'
<1> USE DEF ReplyInv
<1>1. /\ pc = "idle" /\ asked' = "info" /\ id' = new /\ Parses(new)
      /\ UNCHANGED <<count, i, shown>>
      /\ \/ InfoFits(growth) /\ used' = InfoText(growth) /\ pc' = "encode" /\ UNCHANGED <<reply, sent>>
         \/ pc' = "send" /\ reply' = "refused" /\ sent' = ErrorText /\ UNCHANGED used
  BY DEF Info, InfoFails
<1>2. used' \in Nat /\ (pc' = "encode" => used' < InfoSize)
  BY <1>1, InfoTexts DEF TypeOK
<1>3. TypeOK'
  BY <1>1, <1>2, Sizes DEF TypeOK
<1>4. Written' /\ BufferIsKept'
  BY <1>1, <1>2 DEF Written, BufferIsKept
<1>5. Asked'
  BY <1>1, ParsedIds DEF Asked, Escaped
<1>6. Answered'
  BY <1>1 DEF Answered
<1> QED
  BY <1>3, <1>4, <1>5, <1>6

\* A text is put into the buffer whole, or the list is given up, in which case it would
\* not have fitted.
LEMMA PutStep ==
    ASSUME ReplyInv, NEW length \in Nat, NEW label \in {"entries", "encode"}, Put(length, label),
           pc \in {"header", "entries", "footer"}, i' \in 0..count,
           UNCHANGED <<count, id, asked, shown>>,
           used + length <= ListText(count),
           label = "entries" => used + length = HeaderText + EntriesText(i'),
           label = "encode" => used + length = ListText(count)
    PROVE  ReplyInv'
<1> USE DEF ReplyInv
<1>1. asked = "list" /\ used \in Nat /\ count \in Nat /\ reply = "none"
  BY DEF Asked, Answered, TypeOK
<1>2. CASE Fits(length) /\ used' = used + length /\ pc' = label /\ UNCHANGED <<reply, sent>>
  <2>1. TypeOK'
    BY <1>1, <1>2 DEF TypeOK
  <2>2. BufferIsKept'
    BY <1>2 DEF Fits, BufferIsKept
  <2>3. Written'
    BY <1>1, <1>2 DEF Written, ListText, EntriesText
  <2>4. Asked' /\ Answered'
    BY <1>1, <1>2 DEF Asked, Answered, Escaped
  <2> QED
    BY <2>1, <2>2, <2>3, <2>4
<1>3. CASE ~Fits(length) /\ pc' = "send" /\ reply' = "refused" /\ sent' = ErrorText /\ UNCHANGED used
  <2>1. TypeOK'
    BY <1>1, <1>3, Sizes DEF TypeOK
  <2>2. BufferIsKept' /\ Written' /\ Asked'
    BY <1>1, <1>3 DEF BufferIsKept, Written, Asked, Escaped
  <2>3. ListText(count) >= ResultSize
    BY <1>1, <1>3, Sizes, OneMoreEntry DEF Fits, ListText, HeaderText, FooterText
  <2>4. Answered'
    BY <1>1, <1>3, <2>3 DEF Answered, ListText, EntriesText
  <2> QED
    BY <2>1, <2>2, <2>4
<1> QED
  BY <1>2, <1>3 DEF Put

LEMMA WritingStep == ASSUME ReplyInv, Header \/ Entry \/ LastEntry \/ Footer PROVE ReplyInv'
<1> USE DEF ReplyInv
<1>1. /\ count \in 0..MaxPending /\ i \in 0..count /\ count \in Nat /\ i \in Nat /\ MaxPending \in 1..99
      /\ used \in Nat
  BY Sizes DEF TypeOK
<1>2. HeaderText \in Nat /\ FooterText \in Nat
  BY DEF HeaderText, FooterText
<1>3. CASE Header
  <2>1. used + HeaderText = HeaderText + EntriesText(i) /\ used + HeaderText <= ListText(count)
    BY <1>1, <1>2, <1>3, OneMoreEntry DEF Header, Written, ListText
  <2>2. pc = "header" /\ Put(HeaderText, "entries") /\ UNCHANGED <<count, i, id, asked, shown>>
    BY <1>3 DEF Header
  <2> QED
    BY <1>1, <1>2, <2>1, <2>2, PutStep
<1>4. CASE Entry
  <2> DEFINE length == Comma(i + 1) + EntryText(i + 1)
  <2>1. /\ pc = "entries" /\ i < count /\ i' = i + 1 /\ Put(length, "entries")
        /\ UNCHANGED <<count, id, asked, shown>>
    BY <1>4 DEF Entry
  <2>2. length \in Nat /\ EntriesText(i) \in Nat /\ EntriesText(i + 1) = EntriesText(i) + length
    <3>1. i < 99
      BY <1>1, <2>1
    <3> QED
      BY <1>1, <3>1, OneMoreEntry
  <2>3. i + 1 \in 0..count /\ EntriesText(i + 1) <= EntriesText(count)
    BY <1>1, <2>1, LongerLists
  <2> HIDE DEF length
  <2>4. used + length = HeaderText + EntriesText(i')
    BY <1>1, <1>2, <2>1, <2>2 DEF Written
  <2>5. used + length <= ListText(count)
    BY <1>1, <1>2, <2>1, <2>2, <2>3, <2>4, OneMoreEntry DEF ListText
  <2> QED
    BY <2>1, <2>2, <2>3, <2>4, <2>5, PutStep
<1>5. CASE LastEntry
  <2>1. /\ pc = "entries" /\ i = count /\ pc' = "footer"
        /\ UNCHANGED <<count, i, used, id, asked, reply, sent, shown>>
    BY <1>5 DEF LastEntry
  <2>2. TypeOK' /\ BufferIsKept' /\ Written' /\ Asked' /\ Answered'
    BY <2>1 DEF TypeOK, BufferIsKept, Written, Asked, Answered, EntriesText, Escaped
  <2> QED
    BY <2>2
<1>6. CASE Footer
  <2>1. used + FooterText = ListText(count)
    BY <1>6 DEF Footer, Written, ListText
  <2>2. pc = "footer" /\ Put(FooterText, "encode") /\ UNCHANGED <<count, i, id, asked, shown>>
    BY <1>6 DEF Footer
  <2>3. ListText(count) \in Nat
    BY <1>1, <1>2, OneMoreEntry DEF ListText
  <2> QED
    BY <1>1, <1>2, <2>1, <2>2, <2>3, PutStep
<1> QED
  BY <1>3, <1>4, <1>5, <1>6

LEMMA EncodeStep == ASSUME ReplyInv, Encode PROVE ReplyInv'
<1> USE DEF ReplyInv
<1>1. /\ pc = "encode" /\ pc' = "send" /\ reply = "none"
      /\ reply' = IF Length < ResponseSize THEN "whole" ELSE "cut"
      /\ sent' = Least(Length, ResponseSize - 1)
      /\ UNCHANGED <<count, i, used, id, asked, shown>>
  BY DEF Encode, Respond, Length, Answered
<1>2. Length \in Nat /\ Length' = Length
  BY <1>1 DEF Length, EnvelopeText, Escaped, Asked, TypeOK
<1>3. sent' \in 0..(ResponseSize - 1)
  BY <1>1, <1>2, Sizes DEF Least
<1>4. TypeOK' /\ BufferIsKept' /\ Written' /\ Asked'
  BY <1>1, <1>3 DEF TypeOK, BufferIsKept, Written, Asked, Escaped
<1>5. Answered'
  <2>1. asked = "list" => used = ListText(count)
    BY <1>1 DEF Written
  <2>2. asked = "info" => used < InfoSize
    BY <1>1 DEF Written
  <2>3. reply' = "cut" <=> Length >= ResponseSize
    BY <1>1, <1>2, Sizes
  <2> QED
    BY <1>1, <1>2, <2>1, <2>2, <2>3 DEF Answered, ListText, EntriesText
<1> QED
  BY <1>4, <1>5

LEMMA ShowStep == ASSUME ReplyInv, Show PROVE ReplyInv'
<1> USE DEF ReplyInv
<1>1. /\ pc = "send" /\ pc' = "shown" /\ shown' = Least(sent, ClientSize - 1)
      /\ UNCHANGED <<count, i, used, id, asked, reply, sent>>
  BY DEF Show
<1>2. shown' \in 0..(ClientSize - 1)
  BY <1>1, Sizes DEF Least, TypeOK
<1>3. TypeOK' /\ BufferIsKept' /\ Written' /\ Asked'
  BY <1>1, <1>2 DEF TypeOK, BufferIsKept, Written, Asked, Escaped
<1>4. Answered'
  BY <1>1 DEF Answered, Length, ListText, EntriesText, Escaped, Least
<1> QED
  BY <1>3, <1>4

LEMMA DoneStep == ASSUME ReplyInv, Done PROVE ReplyInv'
<1> USE DEF ReplyInv
<1>1. TypeOK'
  BY Sizes DEF Done, TypeOK, NoId
<1>2. BufferIsKept' /\ Written' /\ Asked' /\ Answered'
  BY DEF Done, BufferIsKept, Written, Asked, Answered
<1> QED
  BY <1>1, <1>2

LEMMA NextReply == ReplyInv /\ [Next]_vars => ReplyInv'
<1> SUFFICES ASSUME ReplyInv, [Next]_vars PROVE ReplyInv'
  OBVIOUS
<1>1. CASE UNCHANGED vars
  BY <1>1 DEF vars, ReplyInv, TypeOK, BufferIsKept, Written, Asked, Answered, Length,
              ListText, EntriesText, Escaped, Least
<1>2. CASE \E new \in Ids : \/ List(new)
                            \/ \E growth \in Growth : Info(new, growth) \/ InfoFails(new, growth)
  BY <1>2, ListStep, InfoStep
<1> QED
  BY <1>1, <1>2, IdleStep, WritingStep, EncodeStep, ShowStep, DoneStep DEF Next

LEMMA ReplyInvariant == Spec => []ReplyInv
BY InitReply, NextReply, PTL DEF Spec
-----------------------------------------------------------------------------
(* Results *)

\* No answer is longer than its buffer, and no more is shown than was read, for buffers
\* of any size (rpc.c:317, anythingctl.c:99-107).
THEOREM ReplyTypeCorrect == Spec => []TypeOK
<1>1. ReplyInv => TypeOK
  BY DEF ReplyInv
<1> QED
  BY <1>1, ReplyInvariant, PTL

\* The room that is left for a list never wraps around (approval.c:108-133).
THEOREM BuffersAreKept == Spec => []BufferIsKept
<1>1. ReplyInv => BufferIsKept
  BY DEF ReplyInv
<1> QED
  BY <1>1, ReplyInvariant, PTL

\* A list is of all entries, or refused just where there are too many, for a buffer of any
\* size (approval.c:105-134).
THEOREM ListsStayComplete == Spec => []ListsAreComplete
<1>1. ASSUME ReplyInv PROVE ListsAreComplete
  <2> SUFFICES ASSUME pc = "send", asked = "list"
               PROVE  IF count <= ListCapacity
                      THEN reply \in {"whole", "cut"} /\ used = ListText(count)
                      ELSE reply = "refused"
    BY DEF ListsAreComplete
  <2>1. /\ reply = "refused" => ListText(count) >= ResultSize
        /\ reply # "refused" => /\ reply \in {"whole", "cut"} /\ used = ListText(count)
                                /\ used < ResultSize
    BY <1>1 DEF ReplyInv, Answered, BufferIsKept
  <2>2. ListText(count) \in Nat /\ ResultSize \in Nat
    BY <1>1, Sizes, OneMoreEntry DEF ReplyInv, TypeOK, ListText, HeaderText, FooterText
  <2>3. count <= ListCapacity <=> ListText(count) < ResultSize
    BY <1>1, CapacityBounds DEF ReplyInv, TypeOK
  <2> QED
    BY <2>1, <2>2, <2>3
<1> QED
  BY <1>1, ReplyInvariant, PTL

\* The buffer for an escaped id holds every id that the parser takes, of any length
\* (rpc.c:313-316).
THEOREM EveryIdIsEscaped == Spec => []IdsCanBeEscaped
<1>1. ReplyInv => IdsCanBeEscaped
  BY Sizes DEF ReplyInv, Asked, IdsCanBeEscaped, EscapeFits
<1> QED
  BY <1>1, ReplyInvariant, PTL

\* What the invariant says of an answer that is on its way.
LEMMA Underway ==
    ASSUME ReplyInv
    PROVE  /\ sent \in Nat /\ shown \in Nat /\ sent <= ResponseSize - 1
           /\ pc = "shown" => shown = Least(sent, ClientSize - 1)
           /\ used \in Nat /\ count \in 0..MaxPending /\ count \in Nat /\ MaxPending \in Nat
           /\ reply = "cut" => /\ pc \in {"send", "shown"} /\ asked \in {"list", "info"}
                               /\ Escaped(id) \in Nat /\ Escaped(id) < 2 * MaxId - 1
                               /\ Length >= ResponseSize
                               /\ asked = "list" => used = ListText(count) /\ used < ResultSize
                               /\ asked = "info" => used < InfoSize
<1>1. /\ sent \in Nat /\ shown \in Nat /\ sent <= ResponseSize - 1
      /\ used \in Nat /\ count \in 0..MaxPending /\ count \in Nat /\ MaxPending \in Nat
  BY Sizes DEF ReplyInv, TypeOK
<1>2. pc = "shown" => shown = Least(sent, ClientSize - 1)
  BY DEF ReplyInv, Answered
<1>3. ASSUME reply = "cut" PROVE pc \in {"send", "shown"} /\ Length >= ResponseSize
  BY <1>3 DEF ReplyInv, Answered
<1>4. ASSUME reply = "cut"
      PROVE  asked \in {"list", "info"} /\ Escaped(id) \in Nat /\ Escaped(id) < 2 * MaxId - 1
  BY <1>3, <1>4 DEF ReplyInv, Asked
<1>5. ASSUME reply = "cut"
      PROVE  /\ asked = "list" => used = ListText(count) /\ used < ResultSize
             /\ asked = "info" => used < InfoSize
  BY <1>5 DEF ReplyInv, Answered, BufferIsKept
<1> QED
  BY <1>1, <1>2, <1>3, <1>4, <1>5

\* With the sizes of the code, an answer that loses its end is the longest list there
\* can be, for an id of more than 80 bytes, whatever the id (anythingd.c:175-196,
\* anythingctl.c:99-107).
THEOREM OnlyLongIdsAreCut ==
    ASSUME MaxId = 64, ResultSize = 4096, InfoSize = 2048, ResponseSize = 4096, ClientSize = 4096
    PROVE  Spec => []ShortIdsGetAll
<1>1. ASSUME ReplyInv PROVE ShortIdsGetAll
  <2> SUFFICES ASSUME reply = "cut" \/ (pc = "shown" /\ shown < sent)
               PROVE  asked = "list" /\ Escaped(id) > 80 /\ count = ListCapacity
    BY DEF ShortIdsGetAll
  <2>1. reply = "cut"
    <3>1. sent \in Nat /\ shown \in Nat /\ sent <= 4095
      BY <1>1, Underway
    <3>2. pc = "shown" => shown = Least(sent, 4095)
      BY <1>1, Underway
    <3> QED
      BY <3>1, <3>2 DEF Least
  <2>2. /\ pc \in {"send", "shown"} /\ asked \in {"list", "info"}
        /\ Escaped(id) \in Nat /\ Escaped(id) < 127 /\ used \in Nat /\ Length >= 4096
        /\ asked = "list" => used = ListText(count) /\ used < 4096
        /\ asked = "info" => used < 2048
        /\ count \in Nat /\ count \in 0..MaxPending /\ MaxPending \in Nat
    <3>1. /\ used \in Nat /\ count \in Nat /\ count \in 0..MaxPending /\ MaxPending \in Nat
          /\ pc \in {"send", "shown"} /\ asked \in {"list", "info"} /\ Escaped(id) \in Nat
      BY <1>1, <2>1, Underway
    <3>2. Escaped(id) < 127
      BY <1>1, <2>1, Underway
    <3>3. Length >= 4096
      BY <1>1, <2>1, Underway
    <3>4. asked = "list" => used = ListText(count) /\ used < 4096
      BY <1>1, <2>1, Underway
    <3>5. asked = "info" => used < 2048
      BY <1>1, <2>1, Underway
    <3> QED
      BY <3>1, <3>2, <3>3, <3>4, <3>5
  <2>3. asked = "list" /\ 36 + Escaped(id) + used >= 4096
    BY <2>2 DEF Length, EnvelopeText
  <2>4. used = ListText(count) /\ used < 4096
    BY <2>2, <2>3
  <2>5. \A n \in Nat : /\ n <= 31 => ListText(n) <= 3848
                       /\ n >= 33 => ListText(n) >= 4096
                       /\ n = 32 => ListText(n) = 3972
    BY DEF ListText, HeaderText, FooterText, EntriesText, EntryText, Digits
  <2>6. count = 32 /\ used = 3972
    <3>1. ~(count <= 31)
      BY <2>2, <2>3, <2>4, <2>5
    <3>2. ~(count >= 33)
      BY <2>2, <2>4, <2>5
    <3>3. \A n \in Nat : ~(n <= 31) /\ ~(n >= 33) => n = 32
      OBVIOUS
    <3> QED
      BY <2>2, <2>4, <2>5, <3>1, <3>2, <3>3
  <2>7. count = ListCapacity
    <3>1. count <= ListCapacity
      BY <2>2, <2>4, CapacityBounds
    <3>2. ListCapacity \in Nat /\ ListText(ListCapacity) < 4096
      BY <2>4, CapacityExists
    <3>3. ~(ListCapacity >= 33)
      BY <2>5, <3>2, OneMoreEntry DEF ListText, HeaderText, FooterText
    <3>4. \A n \in Nat : 32 <= n /\ ~(n >= 33) => n = 32
      OBVIOUS
    <3> QED
      BY <2>6, <3>1, <3>2, <3>3, <3>4
  <2> QED
    BY <2>2, <2>3, <2>6, <2>7
<1> QED
  BY <1>1, ReplyInvariant, PTL
=============================================================================
