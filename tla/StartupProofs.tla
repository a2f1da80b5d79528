----------------------------- MODULE StartupProofs -----------------------------
(***************************************************************************)
(* What holds of the audit file and of the starts that lead to it, for     *)
(* any number of events and starts and any configuration.                  *)
(*                                                                         *)
(* The argument about the file: a fragment that does not begin a line of   *)
(* its own stands behind the fragment that belongs before it, so that the  *)
(* end of a line is never reached without its beginning, and a line that   *)
(* is spoilt begins with an event that was cut short.                      *)
(***************************************************************************)
EXTENDS Startup, SequenceTheorems, FiniteSetTheorems, TLAPS

-----------------------------------------------------------------------------
(* The audit file *)

Fragments == [event : 1..MaxEvents, part : Parts, whole : BOOLEAN]

\* The part before the last one in the line of event n.
Middle(n) == IF n \in WithApprover THEN "approver" ELSE "head"

\* How many fragments of the event at hand are still to come, at most.
Left == IF pc = "head" THEN 3
        ELSE IF pc = "approver" THEN 2
        ELSE IF pc = "tail" THEN 1 ELSE 0

FileTyped == /\ file \in Seq(Fragments) /\ Len(file) + Left <= 3 * event
             /\ pc \in Parts \cup {"close", "idle"}
             /\ event \in 0..MaxEvents /\ failed \in BOOLEAN
             /\ pc # "idle" => event > 0

\* Every event so far has been reported, one way.
Reported == /\ acked \cap lost = {}
            /\ acked \cup lost = 1..(IF pc = "idle" THEN event ELSE event - 1)

\* Events come one after the other, each with one beginning.
Ordered == \A i \in 1..Len(file) :
              /\ file[i].event <= event
              /\ \A j \in 1..i : file[j].event <= file[i].event
              /\ file[i].part = "head" => \A j \in 1..(i - 1) : file[j].event < file[i].event

\* A fragment that is not the first of its event is behind the one it belongs to.
Joined == \A i \in 1..Len(file) :
             /\ file[i].part = "approver" =>
                  /\ i > 1 /\ file[i].event \in WithApprover
                  /\ file[i - 1] = Fragment(file[i].event, "head", TRUE)
             /\ file[i].part = "tail" =>
                  i > 1 /\ file[i - 1] = Fragment(file[i].event, Middle(file[i].event), TRUE)

\* What the writer knows of the end of the file.
Continued == /\ pc = "head" => \A i \in 1..Len(file) : file[i].event < event
             /\ pc = "approver" => /\ event \in WithApprover /\ file # <<>>
                                   /\ file[Len(file)] = Fragment(event, "head", TRUE)
             /\ pc = "tail" => /\ file # <<>>
                               /\ file[Len(file)] = Fragment(event, Middle(event), TRUE)
             /\ pc = "close" /\ ~failed => /\ file # <<>>
                                           /\ file[Len(file)] = Fragment(event, "tail", TRUE)

Complete(n) == \E i \in 1..Len(file) : file[i] = Fragment(n, "tail", TRUE)

FileInv == /\ FileTyped /\ Reported /\ Ordered /\ Joined /\ Continued
           /\ \A n \in acked : Complete(n)

LEMMA FileFacts ==
    ASSUME FileTyped
    PROVE  /\ Len(file) \in Nat /\ event \in Nat /\ MaxEvents \in Nat
           /\ \A i \in 1..Len(file) : /\ file[i] \in Fragments
                                     /\ file[i].event \in 1..MaxEvents
                                     /\ file[i].part \in Parts
<1>1. Len(file) \in Nat /\ event \in Nat /\ MaxEvents \in Nat
  BY AuditFileAssumption DEF FileTyped
<1>2. ASSUME NEW i \in 1..Len(file) PROVE file[i] \in Fragments
  BY ElementOfSeq DEF FileTyped
<1> QED
  BY <1>1, <1>2 DEF Fragments

LEMMA InitFile == Init => FileInv
<1> SUFFICES ASSUME Init PROVE FileInv
  OBVIOUS
<1>1. file = <<>> /\ Len(file) = 0 /\ pc = "idle" /\ event = 0 /\ acked = {} /\ lost = {}
      /\ failed = FALSE
  BY EmptySeq DEF Init
<1>2. FileTyped
  <2>1. file \in Seq(Fragments)
    BY <1>1, EmptySeq
  <2>2. failed \in BOOLEAN
    BY <1>1
  <2>3. Len(file) + Left <= 3 * event
    BY <1>1 DEF Left
  <2> QED
    BY <1>1, <2>1, <2>2, <2>3, AuditFileAssumption DEF FileTyped
<1>3. Reported
  BY <1>1 DEF Reported
<1>4. Ordered /\ Joined /\ Continued /\ \A n \in acked : Complete(n)
  BY <1>1 DEF Ordered, Joined, Continued
<1> QED
  BY <1>2, <1>3, <1>4 DEF FileInv

\* A fragment is appended where it belongs.
LEMMA AppendFragment ==
    ASSUME FileInv, pc \in Parts, NEW whole \in BOOLEAN, event' = event,
           file' = Append(file, Fragment(event, pc, whole))
    PROVE  /\ file' \in Seq(Fragments) /\ Len(file') = Len(file) + 1
           /\ file'[Len(file) + 1] = Fragment(event, pc, whole)
           /\ \A i \in 1..Len(file) : file'[i] = file[i]
           /\ Ordered' /\ Joined' /\ \A n \in acked : Complete(n)'
<1> USE DEF FileInv
<1>1. file \in Seq(Fragments) /\ event \in 1..MaxEvents /\ Len(file) \in Nat
  BY FileFacts DEF FileTyped, Parts
<1>2. Fragment(event, pc, whole) \in Fragments
  BY <1>1 DEF Fragment, Fragments
<1>3. /\ file' \in Seq(Fragments) /\ Len(file') = Len(file) + 1
      /\ file'[Len(file) + 1] = Fragment(event, pc, whole)
      /\ \A i \in 1..Len(file) : file'[i] = file[i]
  BY <1>1, <1>2, AppendProperties
<1>4. /\ Fragment(event, pc, whole).event = event /\ Fragment(event, pc, whole).part = pc
  BY DEF Fragment
<1>5. \A i \in 1..Len(file') : i \in 1..Len(file) \/ i = Len(file) + 1
  BY <1>1, <1>3
<1>6. Ordered'
  <2> SUFFICES ASSUME NEW i \in 1..Len(file')
               PROVE  /\ file'[i].event <= event
                      /\ \A j \in 1..i : file'[j].event <= file'[i].event
                      /\ file'[i].part = "head" =>
                            \A j \in 1..(i - 1) : file'[j].event < file'[i].event
    BY DEF Ordered
  <2>1. CASE i \in 1..Len(file)
    BY <1>1, <1>3, <2>1 DEF Ordered
  <2>2. CASE i = Len(file) + 1
    BY <1>1, <1>3, <1>4, <2>2 DEF Ordered, Continued
  <2> QED
    BY <1>5, <2>1, <2>2
<1>7. Joined'
  <2> SUFFICES ASSUME NEW i \in 1..Len(file')
               PROVE  /\ file'[i].part = "approver" =>
                            /\ i > 1 /\ file'[i].event \in WithApprover
                            /\ file'[i - 1] = Fragment(file'[i].event, "head", TRUE)
                      /\ file'[i].part = "tail" =>
                            /\ i > 1
                            /\ file'[i - 1] = Fragment(file'[i].event, Middle(file'[i].event), TRUE)
    BY DEF Joined, Middle
  <2>1. CASE i \in 1..Len(file)
    <3>1. i > 1 => i - 1 \in 1..Len(file)
      BY <1>1, <2>1
    <3> QED
      BY <1>3, <2>1, <3>1 DEF Joined
  <2>2. CASE i = Len(file) + 1
    <3>1. file # <<>> => i > 1 /\ i - 1 \in 1..Len(file) /\ i - 1 = Len(file)
      BY <1>1, <2>2, EmptySeq
    <3> QED
      BY <1>1, <1>3, <1>4, <2>2, <3>1 DEF Continued
  <2> QED
    BY <1>5, <2>1, <2>2
<1>8. ASSUME NEW n \in acked PROVE Complete(n)'
  <2>1. PICK i \in 1..Len(file) : file[i] = Fragment(n, "tail", TRUE)
    BY DEF Complete
  <2> QED
    BY <1>1, <1>3, <2>1 DEF Complete, Fragment
<1> QED
  BY <1>3, <1>6, <1>7, <1>8

LEMMA WriteFragmentStep == ASSUME FileInv, WriteFragment PROVE FileInv'
<1> USE DEF FileInv
<1>1. /\ pc \in Parts /\ file' = Append(file, Fragment(event, pc, TRUE)) /\ pc' = After(pc)
      /\ UNCHANGED <<event, failed, acked, lost>>
  BY DEF WriteFragment
<1>2. /\ file' \in Seq(Fragments) /\ Len(file') = Len(file) + 1
      /\ file'[Len(file')] = Fragment(event, pc, TRUE)
      /\ Ordered' /\ Joined' /\ \A n \in acked : Complete(n)'
  BY <1>1, AppendFragment
<1>3. Len(file) \in Nat /\ event \in 1..MaxEvents
  BY <1>1, FileFacts DEF FileTyped, Parts
<1>4. file' # <<>>
  BY <1>2, <1>3, EmptySeq
<1>5. pc' \in {"approver", "tail", "close"} /\ Len(file') + Left' <= 3 * event
  BY <1>1, <1>2, <1>3 DEF FileTyped, Left, After, Parts
<1>6. FileTyped' /\ Reported'
  BY <1>1, <1>2, <1>3, <1>5 DEF FileTyped, Reported, Parts
<1>7. Continued'
  BY <1>1, <1>2, <1>4 DEF Continued, After, Middle, Parts
<1> QED
  BY <1>1, <1>2, <1>6, <1>7

LEMMA WriteFailsStep == ASSUME FileInv, WriteFails PROVE FileInv'
<1> USE DEF FileInv
<1>1. /\ pc \in Parts /\ pc' = "close" /\ failed' = TRUE /\ UNCHANGED <<event, acked, lost>>
      /\ \/ file' = file
         \/ file' = Append(file, Fragment(event, pc, FALSE))
  BY DEF WriteFails
<1>2. Len(file) \in Nat /\ event \in 1..MaxEvents
  BY <1>1, FileFacts DEF FileTyped, Parts
<1>3. /\ file' \in Seq(Fragments) /\ Len(file') <= Len(file) + 1
      /\ Ordered' /\ Joined' /\ \A n \in acked : Complete(n)'
  <2>1. CASE file' = file
    <3>1. Ordered' /\ Joined'
      BY <1>1, <2>1 DEF Ordered, Joined
    <3>2. \A n \in acked : Complete(n)'
      BY <2>1 DEF Complete
    <3>3. file' \in Seq(Fragments) /\ Len(file') <= Len(file) + 1
      BY <1>2, <2>1 DEF FileTyped
    <3> QED
      BY <3>1, <3>2, <3>3
  <2>2. CASE file' = Append(file, Fragment(event, pc, FALSE))
    <3>1. /\ file' \in Seq(Fragments) /\ Len(file') = Len(file) + 1
          /\ Ordered' /\ Joined' /\ \A n \in acked : Complete(n)'
      BY <1>1, <2>2, AppendFragment
    <3> QED
      BY <1>2, <3>1
  <2> QED
    BY <1>1, <2>1, <2>2
<1>4. Len(file') + Left' <= 3 * event
  BY <1>1, <1>2, <1>3, LenProperties DEF FileTyped, Left, Parts
<1>5. FileTyped' /\ Reported'
  BY <1>1, <1>2, <1>3, <1>4 DEF FileTyped, Reported, Parts
<1>6. Continued'
  BY <1>1 DEF Continued
<1> QED
  BY <1>1, <1>3, <1>5, <1>6

\* Steps that write nothing.
LEMMA QuietFile ==
    ASSUME FileInv, file' = file, event' \in {event, event + 1},
           FileTyped', Reported', Continued',
           \A n \in acked' : n \in acked \/ Complete(n)
    PROVE  FileInv'
<1> USE DEF FileInv
<1>1. event \in Nat /\ Len(file) \in Nat /\ \A i \in 1..Len(file) : file[i].event \in Nat
  BY FileFacts
<1>2. Ordered'
  BY <1>1 DEF Ordered
<1>3. Joined'
  BY DEF Joined
<1>4. \A n \in acked' : Complete(n)'
  BY DEF Complete
<1> QED
  BY <1>2, <1>3, <1>4

LEMMA NextFile == FileInv /\ [Next]_vars => FileInv'
<1> SUFFICES ASSUME FileInv, [Next]_vars PROVE FileInv'
  OBVIOUS
<1>0. /\ FileTyped /\ Reported /\ Ordered /\ Continued
      /\ MaxEvents \in Nat /\ event \in Nat /\ Len(file) \in Nat
  BY FileFacts DEF FileInv
<1>1. CASE UNCHANGED vars
  <2>1. UNCHANGED <<file, pc, event, failed, acked, lost>>
    BY <1>1 DEF vars
  <2>2. FileTyped' /\ Reported' /\ Continued'
    BY <1>0, <2>1 DEF FileTyped, Reported, Left, Continued
  <2> QED
    BY <2>1, <2>2, QuietFile
<1>2. CASE Open \/ OpenFails
  <2>1. /\ file' = file /\ event' = event + 1 /\ acked' = acked /\ pc = "idle"
        /\ event' \in 0..MaxEvents
        /\ \/ pc' = "head" /\ failed' = FALSE /\ lost' = lost
           \/ pc' = "idle" /\ failed' = failed /\ lost' = lost \cup {event + 1}
    BY <1>0, <1>2 DEF Open, OpenFails, FileTyped
  <2>2. FileTyped'
    <3>1. Len(file') + Left' <= 3 * event'
      BY <1>0, <2>1 DEF FileTyped, Left
    <3>2. failed' \in BOOLEAN
      BY <1>0, <2>1 DEF FileTyped
    <3>3. file' \in Seq(Fragments) /\ pc' \in {"head", "idle"} /\ event' > 0
      BY <1>0, <2>1 DEF FileTyped
    <3> QED
      BY <2>1, <3>1, <3>2, <3>3 DEF FileTyped, Parts
  <2>3. Reported'
    BY <1>0, <2>1 DEF Reported
  <2>4. Continued'
    <3>1. \A i \in 1..Len(file) : file[i].event \in Nat /\ file[i].event <= event
      BY <1>0, FileFacts DEF Ordered
    <3>2. \A i \in 1..Len(file') : file'[i].event < event'
      BY <1>0, <2>1, <3>1
    <3>3. pc' \in {"head", "idle"}
      BY <2>1
    <3> QED
      BY <3>2, <3>3 DEF Continued
  <2> QED
    BY <2>1, <2>2, <2>3, <2>4, QuietFile
<1>3. CASE Close \/ Abandon
  <2>1. /\ file' = file /\ event' = event /\ failed' = failed /\ pc' = "idle" /\ pc # "idle"
        /\ \/ acked' = acked \cup {event} /\ lost' = lost /\ pc = "close" /\ ~failed
           \/ acked' = acked /\ lost' = lost \cup {event}
    BY <1>3 DEF Close, Abandon, Succeeds
  <2>2. FileTyped'
    <3>1. Len(file') + Left' <= 3 * event'
      BY <1>0, <2>1 DEF FileTyped, Left
    <3> QED
      BY <1>0, <2>1, <3>1 DEF FileTyped
  <2>3. Reported'
    BY <1>0, <2>1 DEF Reported, FileTyped
  <2>4. pc = "close" /\ ~failed => Complete(event)
    <3>1. file # <<>> => Len(file) \in 1..Len(file)
      BY <1>0, EmptySeq DEF FileTyped
    <3> QED
      BY <1>0, <3>1 DEF Continued, Complete
  <2>5. Continued'
    BY <2>1 DEF Continued
  <2> QED
    BY <2>1, <2>2, <2>3, <2>4, <2>5, QuietFile
<1> QED
  BY <1>1, <1>2, <1>3, WriteFragmentStep, WriteFailsStep DEF Next

LEMMA FileInvariant == Spec => []FileInv
BY InitFile, NextFile, PTL DEF Spec

\* No event is written longer than its line, and each is reported once (audit.c:109-161).
THEOREM FileTypeCorrect == Spec => []TypeOK
<1>1. FileInv => TypeOK
  <2> SUFFICES ASSUME FileInv PROVE TypeOK
    OBVIOUS
  <2>1. Len(file) <= 3 * event
    BY FileFacts DEF FileInv, FileTyped, Left
  <2> QED
    BY <2>1 DEF FileInv, FileTyped, Reported, Fragments, TypeOK
<1> QED
  BY <1>1, FileInvariant, PTL

\* Where the line that ends with fragment i begins.
Begin(i) == IF file[i].event \in WithApprover THEN i - 2 ELSE i - 1

\* Whatever ends a line ends a whole one, alone among its fragments.
LEMMA WholeLine ==
    ASSUME FileInv, NEW i \in 1..Len(file), Ends(i)
    PROVE  /\ Begin(i) \in 1..(i - 1)
           /\ file[Begin(i)].part = "head" /\ file[Begin(i)].event = file[i].event
           /\ \A k \in Begin(i)..i : Ends(k) <=> k = i
           /\ SubSeq(file, Begin(i), i) = Line(file[i].event)
<1> DEFINE n == file[i].event
<1>1. /\ Len(file) \in Nat /\ file[i].part = "tail" /\ file[i].whole = TRUE
      /\ \A k \in 1..Len(file) : file[k] \in Fragments
  BY FileFacts DEF FileInv, Ends, Fragments
<1>2. file[i] = Fragment(n, "tail", TRUE)
  BY <1>1 DEF Fragments, Fragment
<1>3. i - 1 \in 1..Len(file) /\ file[i - 1] = Fragment(n, Middle(n), TRUE)
  <2>1. i > 1 /\ file[i - 1] = Fragment(n, Middle(n), TRUE)
    BY <1>1 DEF FileInv, Joined
  <2> QED
    BY <1>1, <2>1
<1>4. CASE n \in WithApprover
  <2>1. file[i - 1] = Fragment(n, "approver", TRUE)
    BY <1>3, <1>4 DEF Middle
  <2>2. /\ i - 2 \in 1..Len(file) /\ i - 2 = (i - 1) - 1
        /\ file[i - 2] = Fragment(n, "head", TRUE)
    BY <1>1, <1>3, <2>1 DEF FileInv, Joined, Fragment
  <2>3. \A k \in (i - 2)..i : k = i - 2 \/ k = i - 1 \/ k = i
    BY <1>1
  <2>4. \A k \in (i - 2)..i : Ends(k) <=> k = i
    BY <1>1, <1>2, <2>1, <2>2, <2>3 DEF Ends, Fragment
  <2>5. SubSeq(file, i - 2, i) = Line(n)
    <3> DEFINE text == SubSeq(file, i - 2, i)
    <3>1. /\ text \in Seq(Fragments) /\ Len(text) = 3
          /\ text[1] = file[i - 2] /\ text[2] = file[i - 1] /\ text[3] = file[i]
      <4>1. \A k \in (i - 2)..i : file[k] \in Fragments
        BY <1>1, <1>3, <2>2, <2>3
      <4>2. /\ text \in Seq(Fragments) /\ Len(text) = i - (i - 2) + 1
            /\ \A k \in 1..(i - (i - 2) + 1) : text[k] = file[(i - 2) + k - 1]
        <5>1. i - 2 \in Int /\ i \in Int /\ i - 2 <= i
          BY <1>1
        <5> QED
          BY <4>1, <5>1, SubSeqProperties
      <4>3. i - (i - 2) + 1 = 3 /\ i - 2 + 1 - 1 = i - 2 /\ i - 2 + 2 - 1 = i - 1
            /\ i - 2 + 3 - 1 = i
        BY <1>1
      <4> HIDE DEF text
      <4> QED
        BY <4>2, <4>3
    <3>2. Line(n) = <<file[i - 2], file[i - 1], file[i]>>
      BY <1>2, <1>4, <2>1, <2>2 DEF Line
    <3> HIDE DEF text
    <3>3. text = <<file[i - 2], file[i - 1], file[i]>>
      BY <3>1
    <3> QED
      BY <3>2, <3>3 DEF text
  <2> QED
    BY <1>1, <1>4, <2>2, <2>4, <2>5 DEF Begin, Fragment
<1>5. CASE n \notin WithApprover
  <2>1. file[i - 1] = Fragment(n, "head", TRUE)
    BY <1>3, <1>5 DEF Middle
  <2>2. \A k \in (i - 1)..i : k = i - 1 \/ k = i
    BY <1>1
  <2>3. \A k \in (i - 1)..i : Ends(k) <=> k = i
    BY <1>1, <1>2, <2>1, <2>2 DEF Ends, Fragment
  <2>4. SubSeq(file, i - 1, i) = Line(n)
    <3> DEFINE text == SubSeq(file, i - 1, i)
    <3>1. /\ text \in Seq(Fragments) /\ Len(text) = 2
          /\ text[1] = file[i - 1] /\ text[2] = file[i]
      <4>1. \A k \in (i - 1)..i : file[k] \in Fragments
        BY <1>1, <1>3, <2>2
      <4>2. /\ text \in Seq(Fragments) /\ Len(text) = i - (i - 1) + 1
            /\ \A k \in 1..(i - (i - 1) + 1) : text[k] = file[(i - 1) + k - 1]
        <5>1. i - 1 \in Int /\ i \in Int /\ i - 1 <= i
          BY <1>1
        <5> HIDE DEF text
        <5>2. SubSeq(file, i - 1, i) \in Seq(Fragments)
          BY <4>1, <5>1, SubSeqProperties
        <5>3. /\ Len(SubSeq(file, i - 1, i)) = i - (i - 1) + 1
              /\ \A k \in 1..(i - (i - 1) + 1) : SubSeq(file, i - 1, i)[k] = file[(i - 1) + k - 1]
          BY <4>1, <5>1, SubSeqProperties
        <5> QED
          BY <5>2, <5>3 DEF text
      <4> HIDE DEF text
      <4>3. i - (i - 1) + 1 = 2 /\ (i - 1) + 1 - 1 = i - 1 /\ (i - 1) + 2 - 1 = i
        BY <1>1
      <4>4. 1 \in 1..(i - (i - 1) + 1) /\ 2 \in 1..(i - (i - 1) + 1)
        BY <4>3
      <4>5. text[1] = file[(i - 1) + 1 - 1] /\ text[2] = file[(i - 1) + 2 - 1]
        BY <4>2, <4>4
      <4> QED
        BY <4>2, <4>3, <4>5
    <3>2. Line(n) = <<file[i - 1], file[i]>>
      BY <1>2, <1>5, <2>1 DEF Line
    <3> HIDE DEF text
    <3>3. text = <<file[i - 1], file[i]>>
      BY <3>1
    <3> QED
      BY <3>2, <3>3 DEF text
  <2> QED
    BY <1>1, <1>3, <1>5, <2>1, <2>3, <2>4 DEF Begin, Fragment
<1> QED
  BY <1>4, <1>5

\* An acknowledged event is in the file, whole, and what is written later leaves it
\* there (audit.c:143-160).
THEOREM AcknowledgedStays == Spec => []AcknowledgedIsWritten
<1>1. ASSUME FileInv PROVE AcknowledgedIsWritten
  <2> SUFFICES ASSUME NEW n \in acked
               PROVE  \E l \in (DOMAIN file) \X (DOMAIN file) : Text(l) = Line(n)
    BY DEF AcknowledgedIsWritten
  <2>1. PICK i \in 1..Len(file) : file[i] = Fragment(n, "tail", TRUE)
    BY <1>1 DEF FileInv, Complete
  <2>2. Ends(i) /\ file[i].event = n
    BY <2>1 DEF Ends, Fragment
  <2>3. Begin(i) \in 1..(i - 1) /\ SubSeq(file, Begin(i), i) = Line(n)
    BY <1>1, <2>2, WholeLine
  <2>4. DOMAIN file = 1..Len(file) /\ Len(file) \in Nat
    BY <1>1, LenProperties, FileFacts DEF FileInv, FileTyped
  <2>5. <<Begin(i), i>> \in (DOMAIN file) \X (DOMAIN file)
    BY <2>3, <2>4
  <2>6. Text(<<Begin(i), i>>) = Line(n)
    BY <2>3 DEF Text
  <2> QED
    BY <2>5, <2>6
<1> QED
  BY <1>1, FileInvariant, PTL

\* A line begins with the beginning of an event, which no other line begins with.
LEMMA LineBegins ==
    ASSUME FileInv, NEW l \in Lines
    PROVE  /\ l[1] \in 1..Len(file) /\ l[2] \in 1..Len(file) /\ l[1] <= l[2]
           /\ l = <<l[1], l[2]>> /\ file[l[1]].part = "head" /\ Ends(l[2])
           /\ \A i \in l[1]..l[2] : Ends(i) <=> i = l[2]
<1>1. DOMAIN file = 1..Len(file) /\ Len(file) \in Nat
  BY LenProperties, FileFacts DEF FileInv, FileTyped
<1>2. /\ l \in (1..Len(file)) \X (1..Len(file)) /\ l[1] <= l[2]
      /\ l[1] = 1 \/ Ends(l[1] - 1)
      /\ \A i \in l[1]..l[2] : Ends(i) <=> i = l[2]
  BY <1>1 DEF Lines
<1>3. /\ l[1] \in 1..Len(file) /\ l[2] \in 1..Len(file) /\ l = <<l[1], l[2]>>
  BY <1>2
<1>4. l[2] \in l[1]..l[2]
  BY <1>1, <1>2, <1>3
<1>5. Ends(l[2])
  BY <1>2, <1>4
<1>6. file[l[1]].part \in Parts
  BY <1>3, FileFacts DEF FileInv
<1>7. file[l[1]].part # "approver"
  <2> SUFFICES ASSUME file[l[1]].part = "approver" PROVE FALSE
    OBVIOUS
  <2>1. l[1] > 1 /\ file[l[1] - 1] = Fragment(file[l[1]].event, "head", TRUE)
    BY <1>3 DEF FileInv, Joined
  <2> QED
    BY <1>2, <2>1 DEF Ends, Fragment
<1>8. file[l[1]].part # "tail"
  <2> SUFFICES ASSUME file[l[1]].part = "tail" PROVE FALSE
    OBVIOUS
  <2>1. /\ l[1] > 1
        /\ file[l[1] - 1] = Fragment(file[l[1]].event, Middle(file[l[1]].event), TRUE)
    BY <1>3 DEF FileInv, Joined
  <2>2. Ends(l[1] - 1)
    BY <1>2, <2>1
  <2> QED
    BY <2>1, <2>2 DEF Ends, Fragment, Middle
<1> QED
  BY <1>2, <1>3, <1>5, <1>6, <1>7, <1>8 DEF Parts

LEMMA OneBeginning ==
    ASSUME FileInv, NEW i \in 1..Len(file), NEW j \in 1..Len(file),
           file[i].part = "head", file[j].part = "head", file[i].event = file[j].event
    PROVE  i = j
<1>1. Len(file) \in Nat /\ file[i].event \in Nat
  BY FileFacts DEF FileInv
<1>2. ~(i < j) /\ ~(j < i)
  BY <1>1 DEF FileInv, Ordered
<1> QED
  BY <1>1, <1>2

\* A line whose event is complete holds that event.
LEMMA CompleteLine ==
    ASSUME FileInv, NEW l \in Lines, Complete(file[l[1]].event)
    PROVE  Text(l) = Line(file[l[1]].event)
<1> DEFINE n == file[l[1]].event
<1>1. /\ l[1] \in 1..Len(file) /\ l[2] \in 1..Len(file) /\ l[1] <= l[2] /\ Len(file) \in Nat
      /\ file[l[1]].part = "head" /\ Ends(l[2])
      /\ \A k \in l[1]..l[2] : Ends(k) <=> k = l[2]
  BY LineBegins, FileFacts DEF FileInv
<1>2. PICK i \in 1..Len(file) : file[i] = Fragment(n, "tail", TRUE)
  BY DEF Complete
<1>3. Ends(i) /\ file[i].event = n
  BY <1>2 DEF Ends, Fragment
<1>4. /\ Begin(i) \in 1..(i - 1)
      /\ file[Begin(i)].part = "head" /\ file[Begin(i)].event = n
      /\ \A k \in Begin(i)..i : Ends(k) <=> k = i
      /\ SubSeq(file, Begin(i), i) = Line(n)
  BY <1>3, WholeLine
<1>5. Begin(i) \in 1..Len(file) /\ Begin(i) <= i
  BY <1>1, <1>4
<1>6. Begin(i) = l[1]
  BY <1>1, <1>4, <1>5, OneBeginning
<1>7. i = l[2]
  <2>1. l[2] <= i => l[2] \in Begin(i)..i
    BY <1>1, <1>5, <1>6
  <2>2. i <= l[2] => i \in l[1]..l[2]
    BY <1>1, <1>5, <1>6
  <2>3. i <= l[2] \/ l[2] <= i
    BY <1>1
  <2> QED
    BY <1>1, <1>3, <1>4, <2>1, <2>2, <2>3
<1> QED
  BY <1>4, <1>6, <1>7 DEF Text

\* One that is not is the event of a write that failed.
LEMMA SpoiltIsLost ==
    ASSUME FileInv, NEW l \in Lines, ~Complete(file[l[1]].event)
    PROVE  file[l[1]].event \in lost
<1> DEFINE n == file[l[1]].event
<1>1. /\ l[1] \in 1..Len(file) /\ l[2] \in 1..Len(file) /\ l[1] <= l[2]
      /\ Ends(l[2])
  BY LineBegins
<1>2. /\ Len(file) \in Nat /\ event \in Nat /\ n \in 1..MaxEvents /\ MaxEvents \in Nat
      /\ file[l[2]] \in Fragments /\ file[l[2]].event \in 1..MaxEvents
  BY <1>1, FileFacts DEF FileInv
<1>3. n <= file[l[2]].event /\ file[l[2]].event <= event /\ n <= event
  <2>1. l[1] \in 1..l[2]
    BY <1>1, <1>2
  <2> QED
    BY <1>1, <2>1 DEF FileInv, Ordered
<1>4. n # event
  <2> SUFFICES ASSUME n = event PROVE FALSE
    OBVIOUS
  <2>1. file[l[2]].event = n
    BY <1>2, <1>3
  <2>2. file[l[2]] = Fragment(n, "tail", TRUE)
    BY <1>1, <1>2, <2>1 DEF Ends, Fragments, Fragment
  <2> QED
    BY <1>1, <2>2 DEF Complete
<1>5. n \in 1..(IF pc = "idle" THEN event ELSE event - 1)
  BY <1>2, <1>3, <1>4
<1>6. n \in acked \cup lost
  BY <1>5 DEF FileInv, Reported
<1>7. n \notin acked
  BY DEF FileInv
<1> QED
  BY <1>6, <1>7

\* As many lines are spoilt as writes have failed, at most, whatever was appended behind
\* a cut one (audit.c:143-155).
THEOREM DamageStaysBounded == Spec => []DamageIsBounded
<1>1. ASSUME FileInv PROVE DamageIsBounded
  <2> DEFINE Spoilt == {l \in Lines : \A n \in 1..MaxEvents : Text(l) # Line(n)}
             begins == [l \in Spoilt |-> file[l[1]].event]
  <2>1. ASSUME NEW l \in Spoilt PROVE file[l[1]].event \in lost
    <3>1. file[l[1]].event \in 1..MaxEvents
      BY <1>1, LineBegins, FileFacts DEF FileInv
    <3>2. ~Complete(file[l[1]].event)
      BY <1>1, <3>1, CompleteLine
    <3> QED
      BY <1>1, <3>2, SpoiltIsLost
  <2>2. ASSUME NEW l \in Spoilt, NEW k \in Spoilt, file[l[1]].event = file[k[1]].event
        PROVE  l = k
    <3>1. /\ l[1] \in 1..Len(file) /\ l[2] \in 1..Len(file) /\ l[1] <= l[2]
          /\ l = <<l[1], l[2]>> /\ file[l[1]].part = "head" /\ Ends(l[2])
          /\ \A i \in l[1]..l[2] : Ends(i) <=> i = l[2]
      BY <1>1, LineBegins
    <3>2. /\ k[1] \in 1..Len(file) /\ k[2] \in 1..Len(file) /\ k[1] <= k[2]
          /\ k = <<k[1], k[2]>> /\ file[k[1]].part = "head" /\ Ends(k[2])
          /\ \A i \in k[1]..k[2] : Ends(i) <=> i = k[2]
      BY <1>1, LineBegins
    <3>3. l[1] = k[1]
      BY <1>1, <2>2, <3>1, <3>2, OneBeginning
    <3>4. l[2] = k[2]
      <4>1. l[2] <= k[2] => l[2] \in k[1]..k[2]
        BY <3>1, <3>2, <3>3
      <4>2. k[2] <= l[2] => k[2] \in l[1]..l[2]
        BY <3>1, <3>2, <3>3
      <4>3. l[2] <= k[2] \/ k[2] <= l[2]
        BY <3>1, <3>2
      <4> QED
        BY <3>1, <3>2, <4>1, <4>2, <4>3
    <3> QED
      BY <3>1, <3>2, <3>3, <3>4
  <2>3. begins \in Injection(Spoilt, lost)
    BY <2>1, <2>2 DEF Injection, IsInjective
  <2>4. IsFiniteSet(lost)
    <3>1. lost \subseteq 1..(IF pc = "idle" THEN event ELSE event - 1)
      BY <1>1 DEF FileInv, Reported
    <3>2. (IF pc = "idle" THEN event ELSE event - 1) \in Int
      BY <1>1, FileFacts DEF FileInv
    <3>3. IsFiniteSet(1..(IF pc = "idle" THEN event ELSE event - 1))
      BY <3>2, FS_Interval
    <3> QED
      BY <3>1, <3>3, FS_Subset
  <2>5. Cardinality(Spoilt) <= Cardinality(lost)
    <3> HIDE DEF Spoilt, begins
    <3> QED
      BY <2>3, <2>4, FS_Injection
  <2> QED
    BY <2>5 DEF DamageIsBounded
<1> QED
  BY <1>1, FileInvariant, PTL
-----------------------------------------------------------------------------
(* Starts *)

\* Whatever a start does to the file is one of the writer's steps, or none: daemons one
\* after the other are one writer (audit.c:91-105).
THEOREM StartsWriteOneFile == BootSpec => Spec
<1>1. Boot => Init
  BY DEF Boot
<1>2. [BootNext]_allVars => [Next]_vars
  <2> SUFFICES ASSUME [BootNext]_allVars PROVE Next \/ UNCHANGED vars
    OBVIOUS
  <2>1. CASE UNCHANGED allVars
    BY <2>1 DEF allVars
  <2>2. CASE Load \/ LoadAgain \/ ReadEntry \/ ReadTail \/ BadLine \/ Validate \/ CheckLog
    BY <2>2 DEF Load, LoadAgain, ReadEntry, ReadTail, BadLine, Validate, CheckLog
  <2>3. CASE Serve
    BY <2>3 DEF Serve
  <2>4. CASE End
    BY <2>4 DEF End, Next
  <2> QED
    BY <2>1, <2>2, <2>3, <2>4 DEF BootNext
<1> QED
  BY <1>1, <1>2, PTL DEF BootSpec, Spec

\* So every event that any of the daemons acknowledged is in the log, and no more lines
\* are spoilt than writes have failed in all their lives.
THEOREM LogOutlivesDaemons == BootSpec => [](AcknowledgedIsWritten /\ DamageIsBounded)
BY StartsWriteOneFile, AcknowledgedStays, DamageStaysBounded, PTL

\* What a start has established by the time it is in a phase.
Checked == /\ phase \in {"audit", "serving"} => config.required \/ insecure
           /\ phase = "serving" => kind = "regular" /\ LeadsToLog(config.audit)
           /\ phase = "serving" /\ ~fresh =>
                \A root \in WritableRoots : ~CanonicalUnder(config.audit, root)

Listing == ~split => config.admins \subseteq listed

BootInv == Checked /\ Listing

LEMMA InitBoot == Boot => BootInv
BY DEF Boot, BootInv, Checked, Listing, Defaults

LEMMA NextBoot == BootInv /\ [BootNext]_allVars => BootInv'
<1> SUFFICES ASSUME BootInv, [BootNext]_allVars PROVE BootInv'
  OBVIOUS
<1> USE DEF BootInv
<1>1. ASSUME UNCHANGED bootVars PROVE BootInv'
  BY <1>1 DEF bootVars, Checked, Listing, WritableRoots, CanonicalUnder, LeadsToLog
<1>2. CASE UNCHANGED allVars
  BY <1>1, <1>2 DEF allVars
<1>3. CASE Load \/ LoadAgain \/ BadLine
  <2>1. phase' \notin {"audit", "serving"}
    BY <1>3 DEF Load, LoadAgain, BadLine
  <2>2. Listing'
    BY <1>3 DEF Load, LoadAgain, BadLine, Listing, Defaults
  <2> QED
    BY <2>1, <2>2 DEF Checked
<1>4. CASE ReadEntry \/ ReadTail
  <2>1. phase' = "read"
    BY <1>4 DEF ReadEntry, ReadTail
  <2>2. Listing'
    BY <1>4 DEF ReadEntry, ReadTail, Listing
  <2> QED
    BY <2>1, <2>2 DEF Checked
<1>5. CASE Validate
  <2>1. phase' = "audit" => config.required \/ insecure
    BY <1>5 DEF Validate, Acceptable
  <2>2. phase' \in {"audit", "off"} /\ UNCHANGED <<insecure, config, listed, split>>
    BY <1>5 DEF Validate
  <2> QED
    BY <2>1, <2>2 DEF Checked, Listing
<1>6. CASE CheckLog
  <2>1. phase = "audit" /\ UNCHANGED <<insecure, config, listed, split>>
    BY <1>6 DEF CheckLog
  <2>2. CASE Opens /\ \A root \in WritableRoots : ~CanonicalUnder(config.audit, root)
    <3>1. /\ phase' = "serving" /\ kind' = "regular" /\ LeadsToLog(config.audit)
          /\ kind \in {"absent", "regular"} /\ (kind # "absent" => kind' = kind)
          /\ fresh' = (kind = "absent")
      BY <1>6, <2>2 DEF CheckLog, Opens
    <3>2. ~fresh' => kind' = kind /\ UNCHANGED <<kind, config>>
      BY <2>1, <3>1
    <3>3. ~fresh' => \A root \in WritableRoots' : ~CanonicalUnder(config.audit, root)'
      BY <2>2, <3>2 DEF WritableRoots, CanonicalUnder, LeadsToLog
    <3>4. LeadsToLog(config.audit)'
      BY <2>1, <3>1 DEF LeadsToLog
    <3> QED
      BY <2>1, <3>1, <3>3, <3>4 DEF Checked, Listing
  <2>3. CASE ~(Opens /\ \A root \in WritableRoots : ~CanonicalUnder(config.audit, root))
    <3>1. phase' = "off"
      BY <1>6, <2>3 DEF CheckLog
    <3> QED
      BY <2>1, <3>1 DEF Checked, Listing
  <2> QED
    BY <2>2, <2>3
<1>7. CASE Serve
  BY <1>1, <1>7 DEF Serve
<1>8. CASE End
  <2>1. phase' = "off" /\ UNCHANGED <<config, listed, split>>
    BY <1>8 DEF End
  <2> QED
    BY <2>1 DEF Checked, Listing
<1> QED
  BY <1>2, <1>3, <1>4, <1>5, <1>6, <1>7, <1>8 DEF BootNext

LEMMA BootInvariant == BootSpec => []BootInv
BY InitBoot, NextBoot, PTL DEF BootSpec

\* Nobody is an admin of a daemon that serves who was not listed as one, unless the flag
\* for development is given or a comment was too long (config.c:116-121, 160-164).
THEOREM AdminsStayListed == BootSpec => []AdminsAreListed
<1>1. BootInv => AdminsAreListed
  BY DEF BootInv, Checked, Listing, AdminsAreListed, IsAdmin
<1> QED
  BY <1>1, BootInvariant, PTL

\* A daemon that serves has a regular file as its log (audit.c:61-78, 91-105).
THEOREM LogStaysThere == BootSpec => []LogIsThere
<1>1. BootInv => LogIsThere
  BY DEF BootInv, Checked, LogIsThere
<1> QED
  BY <1>1, BootInvariant, PTL
-----------------------------------------------------------------------------
(* Configurations *)

RuleLists == UNION {[1..n -> Rules] : n \in 0..MaxRules}

LEMMA RuleListsAreSequences ==
    \A rules : rules \in RuleLists <=> rules \in Seq(Rules) /\ Len(rules) <= MaxRules
<1> SUFFICES ASSUME NEW rules
             PROVE  rules \in RuleLists <=> rules \in Seq(Rules) /\ Len(rules) <= MaxRules
  OBVIOUS
<1>1. ASSUME rules \in RuleLists PROVE rules \in Seq(Rules) /\ Len(rules) <= MaxRules
  <2>1. PICK n \in 0..MaxRules : rules \in [1..n -> Rules]
    BY <1>1 DEF RuleLists
  <2>2. n \in Nat /\ n <= MaxRules
    BY <2>1, PathsAssumption
  <2> QED
    BY <2>1, <2>2, LenProperties
<1>2. ASSUME rules \in Seq(Rules), Len(rules) <= MaxRules PROVE rules \in RuleLists
  <2>1. Len(rules) \in 0..MaxRules /\ rules \in [1..Len(rules) -> Rules]
    BY <1>2, PathsAssumption, LenProperties
  <2> QED
    BY <2>1 DEF RuleLists
<1> QED
  BY <1>1, <1>2

LEMMA DefaultsTyped == Defaults \in Configs
<1>1. <<>> \in RuleLists
  <2>1. <<>> \in Seq(Rules) /\ Len(<<>>) = 0
    BY EmptySeq
  <2>2. 0 <= MaxRules
    BY PathsAssumption
  <2> QED
    BY <2>1, <2>2, RuleListsAreSequences
<1>2. TRUE \in BOOLEAN /\ {} \in SUBSET (IdKeys \X Ids)
  OBVIOUS
<1> QED
  BY <1>1, <1>2, PathsAssumption DEF Defaults, Configs, RuleLists

LEMMA SetRuleTyped ==
    ASSUME NEW c \in Configs
    PROVE  /\ \A path \in RootPaths : SetRule(c, "path", path) \in Configs
           /\ \A writable \in BOOLEAN : SetRule(c, "writable", writable) \in Configs
<1>1. c.rules \in Seq(Rules) /\ Len(c.rules) <= MaxRules
  BY RuleListsAreSequences DEF Configs, RuleLists
<1>2. ASSUME c.rules # <<>>
      PROVE  Len(c.rules) \in 1..Len(c.rules) /\ c.rules[Len(c.rules)] \in Rules
  <2>1. Len(c.rules) \in 1..Len(c.rules)
    BY <1>1, <1>2, EmptySeq
  <2> QED
    BY <1>1, <2>1, ElementOfSeq
<1>3. ASSUME NEW rule \in Rules, c.rules # <<>>
      PROVE  [c EXCEPT !.rules = [c.rules EXCEPT ![Len(c.rules)] = rule]] \in Configs
  <2>1. /\ [c.rules EXCEPT ![Len(c.rules)] = rule] \in Seq(Rules)
        /\ Len([c.rules EXCEPT ![Len(c.rules)] = rule]) = Len(c.rules)
    BY <1>1, <1>2, <1>3, ExceptSeq
  <2>2. [c.rules EXCEPT ![Len(c.rules)] = rule] \in RuleLists
    BY <1>1, <2>1, RuleListsAreSequences
  <2> QED
    BY <2>2 DEF Configs, RuleLists
<1>4. ASSUME NEW path \in RootPaths PROVE SetRule(c, "path", path) \in Configs
  <2>1. CASE c.rules = <<>>
    BY <2>1 DEF SetRule
  <2>2. CASE c.rules # <<>>
    <3> DEFINE rule == [c.rules[Len(c.rules)] EXCEPT !["path"] = path]
    <3>1. rule \in Rules
      BY <1>2, <2>2 DEF Rules
    <3>2. SetRule(c, "path", path) = [c EXCEPT !.rules = [c.rules EXCEPT ![Len(c.rules)] = rule]]
      BY <2>2 DEF SetRule
    <3> HIDE DEF rule
    <3> QED
      BY <1>3, <2>2, <3>1, <3>2
  <2> QED
    BY <2>1, <2>2
<1>5. ASSUME NEW writable \in BOOLEAN PROVE SetRule(c, "writable", writable) \in Configs
  <2>1. CASE c.rules = <<>>
    BY <2>1 DEF SetRule
  <2>2. CASE c.rules # <<>>
    <3> DEFINE rule == [c.rules[Len(c.rules)] EXCEPT !["writable"] = writable]
    <3>1. rule \in Rules
      BY <1>2, <2>2 DEF Rules
    <3>2. SetRule(c, "writable", writable)
             = [c EXCEPT !.rules = [c.rules EXCEPT ![Len(c.rules)] = rule]]
      BY <2>2 DEF SetRule
    <3> HIDE DEF rule
    <3> QED
      BY <1>3, <2>2, <3>1, <3>2
  <2> QED
    BY <2>1, <2>2
<1> QED
  BY <1>4, <1>5

LEMMA AddRuleTyped == ASSUME NEW c \in Configs PROVE AddRule(c) \subseteq Configs
<1> DEFINE rule == [path |-> <<>>, writable |-> FALSE]
<1>1. c.rules \in Seq(Rules) /\ Len(c.rules) <= MaxRules
  BY RuleListsAreSequences DEF Configs, RuleLists
<1>2. rule \in Rules
  BY DEF Rules
<1>3. Append(c.rules, rule) \in Seq(Rules) /\ Len(Append(c.rules, rule)) = Len(c.rules) + 1
  <2> HIDE DEF rule
  <2> QED
    BY <1>1, <1>2, AppendProperties
<1> HIDE DEF rule
<1>4. Len(c.rules) < MaxRules => Append(c.rules, rule) \in RuleLists
  <2>1. Len(c.rules) \in Nat /\ MaxRules \in Nat
    BY <1>1, LenProperties, PathsAssumption
  <2>2. Len(c.rules) < MaxRules => Len(c.rules) + 1 <= MaxRules
    BY <2>1
  <2> QED
    BY <1>3, <2>2, RuleListsAreSequences
<1>5. Len(c.rules) < MaxRules => [c EXCEPT !.rules = Append(c.rules, rule)] \in Configs
  BY <1>4 DEF Configs, RuleLists
<1> QED
  BY <1>5 DEF AddRule, AddRuleUnbounded, rule

\* A line of the file leaves a configuration.
LEMMA EntriesTyped == ASSUME NEW c \in Configs PROVE Entries(c) \subseteq Configs
<1>1. \A path \in LogPaths : [c EXCEPT !.audit = path] \in Configs
  BY DEF Configs
<1>2. \A sane \in BOOLEAN : [c EXCEPT !.sane = sane] \in Configs
  BY DEF Configs
<1>3. \A required \in BOOLEAN : [c EXCEPT !.required = required] \in Configs
  BY DEF Configs
<1>4. \A key \in IdKeys, ids \in SUBSET Ids : SetIds(c, key, ids) \in Configs
  <2> SUFFICES ASSUME NEW key \in IdKeys, NEW ids \in SUBSET Ids
               PROVE  SetIds(c, key, ids) \in Configs
    OBVIOUS
  <2> DEFINE admins == {a \in c.admins : a[1] # key} \cup ({key} \X ids)
  <2>1. admins \in SUBSET (IdKeys \X Ids)
    BY DEF Configs
  <2>2. SetIds(c, key, ids) = [c EXCEPT !.admins = admins]
    BY DEF SetIds
  <2> HIDE DEF admins
  <2> QED
    BY <2>1, <2>2 DEF Configs
<1> QED
  BY <1>1, <1>2, <1>3, <1>4, SetRuleTyped, AddRuleTyped DEF Entries

\* Of what serves, reads and waits: the types but for the file's.
BootTyped == /\ phase \in {"off", "read", "reread", "audit", "serving"}
             /\ insecure \in BOOLEAN /\ fresh \in BOOLEAN /\ split \in BOOLEAN
             /\ config \in Configs /\ kind \in Kinds
             /\ listed \subseteq IdKeys \X Ids
             /\ pc # "idle" => phase = "serving"

LEMMA InitBootTyped == Boot => BootTyped
<1> SUFFICES ASSUME Boot PROVE BootTyped
  OBVIOUS
<1>1. insecure \in BOOLEAN /\ fresh \in BOOLEAN /\ split \in BOOLEAN
  BY DEF Boot
<1>2. config \in Configs
  BY DefaultsTyped DEF Boot
<1> QED
  BY <1>1, <1>2 DEF Boot, Init, BootTyped

LEMMA NextBootTyped == BootTyped /\ [BootNext]_allVars => BootTyped'
<1> SUFFICES ASSUME BootTyped, [BootNext]_allVars PROVE BootTyped'
  OBVIOUS
<1> USE DEF BootTyped
<1>1. CASE UNCHANGED allVars
  BY <1>1 DEF allVars, vars, bootVars
<1>2. CASE Load \/ LoadAgain \/ BadLine
  <2>1. config' \in Configs
    BY <1>2, DefaultsTyped DEF Load, LoadAgain, BadLine
  <2>2. insecure' \in BOOLEAN
    BY <1>2 DEF Load, LoadAgain, BadLine
  <2>3. fresh' \in BOOLEAN /\ split' \in BOOLEAN
    BY <1>2 DEF Load, LoadAgain, BadLine
  <2>4. /\ phase # "serving" /\ pc' = pc /\ phase' \in {"read", "reread", "off"}
        /\ kind' = kind /\ listed' \in {listed, {}}
    BY <1>2 DEF Load, LoadAgain, BadLine, vars
  <2> QED
    BY <2>1, <2>2, <2>3, <2>4
<1>3. CASE ReadEntry \/ ReadTail
  <2>1. config' \in Configs
    BY <1>3, EntriesTyped DEF ReadEntry, ReadTail
  <2>2. listed' \subseteq IdKeys \X Ids
    BY <1>3, <2>1 DEF ReadEntry, ReadTail, Configs
  <2>3. insecure' \in BOOLEAN /\ fresh' \in BOOLEAN /\ split' \in BOOLEAN
    BY <1>3 DEF ReadEntry, ReadTail
  <2>4. phase = "read" /\ UNCHANGED <<pc, phase, kind>>
    BY <1>3 DEF ReadEntry, ReadTail, vars
  <2> QED
    BY <2>1, <2>2, <2>3, <2>4
<1>4. CASE Validate
  <2>1. /\ phase # "serving" /\ phase' \in {"audit", "off"}
        /\ UNCHANGED <<pc, insecure, config, kind, fresh, listed, split>>
    BY <1>4 DEF Validate, vars
  <2> QED
    BY <2>1
<1>5. CASE CheckLog
  <2>1. /\ phase # "serving" /\ phase' \in {"serving", "off"}
        /\ UNCHANGED <<pc, insecure, config, listed, split>>
    BY <1>5 DEF CheckLog, vars
  <2>2. fresh' \in BOOLEAN
    BY <1>5 DEF CheckLog
  <2>3. kind' \in Kinds
    BY <1>5 DEF CheckLog, Kinds
  <2> QED
    BY <2>1, <2>2, <2>3
<1>6. CASE Serve
  BY <1>6 DEF Serve, bootVars
<1>7. CASE End
  <2>1. pc' = "idle" /\ phase' = "off" /\ UNCHANGED <<insecure, config, kind, fresh, listed, split>>
    BY <1>7 DEF End, Abandon, vars
  <2> QED
    BY <2>1
<1> QED
  BY <1>1, <1>2, <1>3, <1>4, <1>5, <1>6, <1>7 DEF BootNext

LEMMA BootTypedInvariant == BootSpec => []BootTyped
BY InitBootTyped, NextBootTyped, PTL DEF BootSpec

\* No configuration has more rules than there is room for, and events are written by a
\* daemon that serves (config.c:222-229, anythingd.c:286-306).
THEOREM BootTypeCorrect == BootSpec => []BootTypeOK
<1>1. TypeOK /\ BootTyped => BootTypeOK
  BY DEF BootTyped, BootTypeOK
<1> QED
  BY <1>1, StartsWriteOneFile, FileTypeCorrect, BootTypedInvariant, PTL
-----------------------------------------------------------------------------
(* Paths *)

\* What paths are made of.
Names == STRING \cup {"/", "d", "log"}

LEMMA SeqMonotone == ASSUME NEW S, NEW T, S \subseteq T PROVE Seq(S) \subseteq Seq(T)
OBVIOUS

\* realpath of a root is / or ends in a name, and is / for / only.
LEMMA CanonicalRoot ==
    ASSUME NEW root \in RootPaths, root # <<>>
    PROVE  /\ Canonical(root) \in Seq(Names) /\ Len(Canonical(root)) > 0
           /\ Len(Canonical(root)) > 1 => Canonical(root)[Len(Canonical(root))] # "/"
           /\ Canonical(root) = <<"/">> => root = <<"/">>
<1> DEFINE trimmed == IF Len(root) > 1 /\ Last(root) = "/" THEN Front(root) ELSE root
<1>1. /\ root \in Seq(Names) /\ Len(root) \in Nat \ {0}
      /\ \A i \in 1..(Len(root) - 1) : root[i] = "/" => root[i + 1] # "/"
  <2>1. STRING \subseteq Names
    BY DEF Names
  <2>2. root \in Seq(STRING)
    BY PathsAssumption
  <2>3. root \in Seq(Names)
    BY <2>1, <2>2, SeqMonotone
  <2> QED
    BY <2>3, PathsAssumption, EmptySeq
<1>2. /\ trimmed \in Seq(Names) /\ Len(trimmed) \in Nat \ {0}
      /\ Len(trimmed) > 1 => trimmed[Len(trimmed)] # "/"
      /\ trimmed = <<"/">> => root = <<"/">>
  <2>1. CASE Len(root) > 1 /\ Last(root) = "/"
    <3> DEFINE n == Len(root) - 1
    <3>1. n \in Nat \ {0} /\ n \in 1..(Len(root) - 1) /\ root[n + 1] = "/"
      BY <1>1, <2>1 DEF Last
    <3>2. \A i \in 1..n : root[i] \in Names
      BY <1>1, <3>1, ElementOfSeq
    <3>3. trimmed = SubSeq(root, 1, n)
      BY <2>1 DEF Front
    <3>4. /\ SubSeq(root, 1, n) \in Seq(Names) /\ Len(SubSeq(root, 1, n)) = n
          /\ \A i \in 1..n : SubSeq(root, 1, n)[i] = root[i]
      <4>1. /\ SubSeq(root, 1, n) \in Seq(Names)
            /\ Len(SubSeq(root, 1, n)) = n - 1 + 1
            /\ \A i \in 1..(n - 1 + 1) : SubSeq(root, 1, n)[i] = root[1 + i - 1]
        BY <3>1, <3>2, SubSeqProperties
      <4>2. n - 1 + 1 = n /\ \A i \in 1..n : 1 + i - 1 = i
        BY <3>1
      <4> QED
        BY <4>1, <4>2
    <3>5. root[n] # "/"
      BY <1>1, <3>1
    <3>6. trimmed[n] # "/" /\ Len(trimmed) = n
      BY <3>1, <3>3, <3>4, <3>5
    <3>7. trimmed # <<"/">>
      BY <3>6
    <3> QED
      BY <3>1, <3>3, <3>4, <3>6, <3>7
  <2>2. CASE ~(Len(root) > 1 /\ Last(root) = "/")
    BY <1>1, <2>2 DEF Last
  <2> QED
    BY <2>1, <2>2
<1>3. Canonical(root) = IF IsPrefix(<<"/", "link">>, trimmed)
                        THEN <<"/", "d">> \o SubSeq(trimmed, 3, Len(trimmed))
                        ELSE trimmed
  BY DEF Canonical
<1> HIDE DEF trimmed
<1>0. \A n \in Nat : n >= 2 => n = 2 \/ (n >= 3 /\ n > 2)
  OBVIOUS
<1>4. CASE IsPrefix(<<"/", "link">>, trimmed)
  <2> DEFINE rest == SubSeq(trimmed, 3, Len(trimmed))
  <2>1. Len(trimmed) >= 2
    BY <1>4 DEF IsPrefix
  <2>2. /\ rest \in Seq(Names) /\ Len(rest) = Len(trimmed) - 2
        /\ \A i \in 1..(Len(trimmed) - 2) : rest[i] = trimmed[i + 2]
    <3>1. \A i \in 3..Len(trimmed) : trimmed[i] \in Names
      BY <1>2, ElementOfSeq
    <3>2. /\ rest \in Seq(Names)
          /\ Len(rest) = IF 3 <= Len(trimmed) THEN Len(trimmed) - 3 + 1 ELSE 0
          /\ \A i \in 1..(Len(trimmed) - 3 + 1) : rest[i] = trimmed[3 + i - 1]
      BY <1>2, <3>1, SubSeqProperties
    <3>3. Len(trimmed) - 3 + 1 = Len(trimmed) - 2
      BY <1>2
    <3>4. \A i \in 1..(Len(trimmed) - 2) : 3 + i - 1 = i + 2
      BY <1>2
    <3> HIDE DEF rest
    <3>5. Len(rest) = Len(trimmed) - 2
      <4>1. CASE 3 <= Len(trimmed)
        BY <3>2, <3>3, <4>1
      <4>2. CASE ~(3 <= Len(trimmed))
        <5>1. Len(trimmed) = 2
          BY <1>0, <1>2, <2>1, <4>2
        <5> QED
          BY <3>2, <4>2, <5>1
      <4> QED
        BY <4>1, <4>2
    <3> QED
      BY <3>2, <3>3, <3>4, <3>5
  <2> HIDE DEF rest
  <2>3. /\ <<"/", "d">> \o rest \in Seq(Names) /\ Len(<<"/", "d">> \o rest) = Len(trimmed)
        /\ \A i \in 1..Len(trimmed) :
              (<<"/", "d">> \o rest)[i] = IF i <= 2 THEN <<"/", "d">>[i] ELSE rest[i - 2]
    <3>1. <<"/", "d">> \in Seq(Names) /\ Len(<<"/", "d">>) = 2
      BY DEF Names
    <3>2. 2 + (Len(trimmed) - 2) = Len(trimmed)
      BY <1>2
    <3>3. /\ <<"/", "d">> \o rest \in Seq(Names)
          /\ Len(<<"/", "d">> \o rest) = 2 + (Len(trimmed) - 2)
          /\ \A i \in 1..(2 + (Len(trimmed) - 2)) :
                (<<"/", "d">> \o rest)[i] = IF i <= 2 THEN <<"/", "d">>[i] ELSE rest[i - 2]
      BY <2>2, <3>1, ConcatProperties
    <3> QED
      BY <3>2, <3>3
  <2>4. Canonical(root) = <<"/", "d">> \o rest
    BY <1>3, <1>4 DEF rest
  <2>5. (<<"/", "d">> \o rest)[Len(trimmed)] # "/"
    <3>1. CASE Len(trimmed) = 2
      BY <2>3, <3>1
    <3>2. CASE Len(trimmed) > 2
      <4>1. /\ Len(trimmed) - 2 \in 1..(Len(trimmed) - 2) /\ Len(trimmed) \in 1..Len(trimmed)
            /\ Len(trimmed) - 2 + 2 = Len(trimmed) /\ ~(Len(trimmed) <= 2)
        BY <1>2, <3>2
      <4>2. rest[Len(trimmed) - 2] = trimmed[Len(trimmed)]
        BY <2>2, <4>1
      <4>3. trimmed[Len(trimmed)] # "/"
        BY <1>2, <3>2
      <4> QED
        BY <2>3, <4>1, <4>2, <4>3
    <3>3. Len(trimmed) = 2 \/ Len(trimmed) > 2
      BY <1>0, <1>2, <2>1
    <3> QED
      BY <3>1, <3>2, <3>3
  <2> QED
    BY <1>2, <2>1, <2>3, <2>4, <2>5
<1>5. CASE ~IsPrefix(<<"/", "link">>, trimmed)
  BY <1>2, <1>3, <1>5
<1> QED
  BY <1>4, <1>5

\* A root that contains the log's directory and is no / is found to.
LEMMA HoldersAreFound ==
    ASSUME NEW root \in RootPaths, HoldsLog(root), root # <<"/">>
    PROVE  Under(RealLog, Canonical(root))
<1> DEFINE c == Canonical(root)
<1>1. /\ c \in Seq(Names) /\ Len(c) > 0 /\ Len(c) \in Nat
      /\ Len(c) > 1 => c[Len(c)] # "/"
      /\ c # <<"/">>
  BY CanonicalRoot, LenProperties DEF HoldsLog
<1>2. /\ Len(RealLog) = 4 /\ RealLog \in Seq(Names) /\ RealLog[1] = "/" /\ RealLog[2] = "d"
      /\ RealLog[3] = "/" /\ RealLog[4] = "log"
  BY DEF RealLog, Names
<1> HIDE DEF c
<1>3. IsPrefix(c, RealLog)
  BY DEF HoldsLog, c
<1>4. Len(c) <= 4 /\ SubSeq(c, 1, Len(c)) = SubSeq(RealLog, 1, Len(c))
  BY <1>2, <1>3 DEF IsPrefix
<1>5. \A i \in 1..Len(c) : c[i] = RealLog[i]
  <2>1. \A i \in 1..Len(c) : c[i] \in Names /\ RealLog[i] \in Names
    BY <1>1, <1>2, <1>4, ElementOfSeq
  <2>2. \A i \in 1..(Len(c) - 1 + 1) : SubSeq(c, 1, Len(c))[i] = c[1 + i - 1]
    BY <1>1, <2>1, SubSeqProperties
  <2>3. \A i \in 1..(Len(c) - 1 + 1) : SubSeq(RealLog, 1, Len(c))[i] = RealLog[1 + i - 1]
    BY <1>1, <2>1, SubSeqProperties
  <2>4. Len(c) - 1 + 1 = Len(c) /\ \A i \in 1..Len(c) : 1 + i - 1 = i
    BY <1>1
  <2> QED
    BY <1>4, <2>2, <2>3, <2>4
<1>6. Len(c) # 1
  <2> SUFFICES ASSUME Len(c) = 1 PROVE FALSE
    OBVIOUS
  <2>1. c[1] = "/"
    BY <1>2, <1>5
  <2>2. c = <<"/">>
    BY <1>1, <2>1
  <2> QED
    BY <1>1, <2>2
<1>7. Len(c) # 3
  <2> SUFFICES ASSUME Len(c) = 3 PROVE FALSE
    OBVIOUS
  <2>1. c[3] = "/"
    BY <1>2, <1>5
  <2> QED
    BY <1>1, <2>1
<1>8. Len(c) = 2 \/ Len(c) = 4
  <2>1. \A n \in Nat : n > 0 /\ n <= 4 /\ n # 1 /\ n # 3 => n = 2 \/ n = 4
    OBVIOUS
  <2> QED
    BY <1>1, <1>4, <1>6, <1>7, <2>1
<1>9. c # <<>>
  BY <1>1, EmptySeq
<1>10. CASE Len(c) = 4
  BY <1>2, <1>3, <1>9, <1>10 DEF Under, c
<1>11. CASE Len(c) = 2
  BY <1>2, <1>3, <1>9, <1>11 DEF Under, c
<1> QED
  BY <1>8, <1>10, <1>11

\* A log that was there when the daemon started is in no directory that an agent may write
\* to, / excepted, whatever links lead to it (audit.c:52-59).
THEOREM ExistingLogStaysOutside == BootSpec => []ExistingLogIsOutside
<1>1. ASSUME BootTyped, BootInv PROVE ExistingLogIsOutside
  <2> SUFFICES ASSUME phase = "serving", ~fresh, NEW root \in WritableRoots \ {<<"/">>},
                      HoldsLog(root)
               PROVE  FALSE
    BY DEF ExistingLogIsOutside
  <2>1. /\ kind = "regular" /\ LeadsToLog(config.audit)
        /\ ~CanonicalUnder(config.audit, root)
    BY <1>1 DEF BootInv, Checked
  <2>2. root \in RootPaths /\ root # <<>>
    <3>1. root # <<>>
      BY DEF HoldsLog
    <3>2. PICK i \in DOMAIN config.rules : root = config.rules[i].path
      BY DEF WritableRoots
    <3>3. config.rules \in Seq(Rules)
      BY <1>1, RuleListsAreSequences DEF BootTyped, Configs, RuleLists
    <3>4. config.rules[i] \in Rules
      BY <3>2, <3>3, LenProperties, ElementOfSeq
    <3> QED
      BY <3>1, <3>2, <3>4 DEF Rules
  <2>3. Under(RealLog, Canonical(root))
    BY <2>2, HoldersAreFound
  <2>4. Canonical(config.audit) = RealLog
    BY <2>1 DEF LeadsToLog
  <2>5. CanonicalUnder(config.audit, root)
    BY <2>1, <2>2, <2>3, <2>4 DEF CanonicalUnder
  <2> QED
    BY <2>1, <2>5
<1> QED
  BY <1>1, BootTypedInvariant, BootInvariant, PTL
=============================================================================
