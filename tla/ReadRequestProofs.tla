-------------------------- MODULE ReadRequestProofs --------------------------
(***************************************************************************)
(* What holds of one read for every limit, every deadline and every way a  *)
(* client spreads its bytes.                                               *)
(***************************************************************************)
EXTENDS ReadRequest, SequenceTheorems, TLAPS

\* A read() begins before the deadline and ends when its timeout has passed; between
\* two of them no time passes.
Timely == /\ clock <= 2 * Deadline
          /\ pc = "read" => /\ reading <= Deadline /\ reading <= clock
                            /\ clock <= reading + Deadline

\* No byte is lost, and what follows the loop knows why the loop ended.
Faithful == /\ buffer \o socket = sent
            /\ pc = "final" => \/ Len(buffer) = MaxBytes \/ HasLine(buffer)
                               \/ client = "closed" /\ socket = <<>>
            /\ pc = "read" => Len(buffer) < MaxBytes
            /\ pc = "accepted" => \/ HasLine(buffer)
                                  \/ client = "closed" /\ socket = <<>>
            /\ pc = "accepted" => clock <= Deadline /\ Len(buffer) < MaxBytes

IInv == TypeOK /\ Timely /\ Faithful
-----------------------------------------------------------------------------
\* Bytes appended one after the other.
LEMMA Regroup ==
    ASSUME NEW a \in Seq(Bytes), NEW b \in Seq(Bytes), NEW c \in Seq(Bytes)
    PROVE  (a \o b) \o c = a \o (b \o c)
BY ConcatAssociative

LEMMA InitIInv == Init => IInv
BY LimitsAssumption, ConcatEmptySeq
   DEF Init, IInv, TypeOK, Timely, Faithful, Bytes

\* read() moves bytes from the socket to the buffer.
LEMMA ReadStep == ASSUME IInv, Read PROVE IInv'
<1> USE DEF IInv
<1>1. PICK n \in 1..Len(socket) : /\ Len(buffer) + n <= MaxBytes
                                  /\ buffer' = buffer \o SubSeq(socket, 1, n)
                                  /\ socket' = SubSeq(socket, n + 1, Len(socket))
  BY DEF Read
<1> DEFINE head == SubSeq(socket, 1, n)
           rest == SubSeq(socket, n + 1, Len(socket))
<1>2. /\ buffer \in Seq(Bytes) /\ socket \in Seq(Bytes)
      /\ head \in Seq(Bytes) /\ Len(head) = n /\ rest \in Seq(Bytes)
  BY SubSeqProperties DEF TypeOK
<1>3. head \o rest = socket
  <2>1. SubSeq(socket, 1, n) \o SubSeq(socket, n + 1, Len(socket))
          = SubSeq(socket, 1, Len(socket))
    BY <1>2, ConcatAdjacentSubSeq
  <2> QED
    BY <1>2, <2>1, SubSeqFull
<1> HIDE DEF head, rest
<1>4. buffer' \in Seq(Bytes) /\ Len(buffer') = Len(buffer) + n
  BY <1>1, <1>2, ConcatProperties DEF head
<1>5. buffer' \o socket' = sent'
  <2>1. (buffer \o head) \o rest = buffer \o (head \o rest)
    <3>1. buffer \in Seq(Bytes) /\ head \in Seq(Bytes) /\ rest \in Seq(Bytes)
      BY <1>2
    <3> QED
      BY <3>1, Regroup
  <2>2. sent' = sent
    BY DEF Read
  <2> QED
    BY <1>1, <1>3, <2>1, <2>2 DEF head, rest, Faithful
<1>6. TypeOK'
  BY <1>1, <1>2, <1>4 DEF Read, TypeOK, head, rest
<1>7. Timely'
  BY DEF Read, Timely
<1>8. Faithful'
  BY <1>5 DEF Read, Faithful
<1> QED
  BY <1>6, <1>7, <1>8

LEMMA SendStep == ASSUME IInv, Send PROVE IInv'
<1> USE DEF IInv
<1>1. PICK b \in Bytes : socket' = Append(socket, b) /\ sent' = Append(sent, b)
  BY DEF Send
<1>2. buffer \in Seq(Bytes) /\ socket \in Seq(Bytes) /\ sent \in Seq(Bytes)
  BY DEF TypeOK
<1>3. socket' \in Seq(Bytes) /\ sent' \in Seq(Bytes)
  BY <1>1, <1>2
<1>4. buffer \o socket' = sent'
  <2>1. Append(socket, b) = socket \o <<b>> /\ Append(sent, b) = sent \o <<b>>
        /\ <<b>> \in Seq(Bytes)
    BY <1>2
  <2>2. (buffer \o socket) \o <<b>> = buffer \o (socket \o <<b>>)
    <3>1. buffer \in Seq(Bytes) /\ socket \in Seq(Bytes)
      BY <1>2
    <3> QED
      BY <2>1, <3>1, Regroup
  <2> QED
    BY <1>1, <2>1, <2>2 DEF Faithful
<1>5. TypeOK' /\ Timely' /\ Faithful'
  BY <1>3, <1>4 DEF Send, TypeOK, Timely, Faithful, Ended
<1> QED
  BY <1>5

LEMMA NextIInv == IInv /\ [Next]_vars => IInv'
<1> SUFFICES ASSUME IInv, [Next]_vars PROVE IInv'
  OBVIOUS
<1> USE LimitsAssumption DEF IInv, TypeOK, Timely, Faithful
<1>1. CASE UNCHANGED vars
  BY <1>1 DEF vars, HasLine
<1>2. CASE Check
  BY <1>2 DEF Check
<1>3. CASE EndOfFile \/ TimedOut \/ Interrupted
  <2>1. CASE EndOfFile
    BY <2>1 DEF EndOfFile
  <2>2. CASE TimedOut
    BY <2>2 DEF TimedOut
  <2>3. CASE Interrupted
    BY <2>3 DEF Interrupted
  <2> QED
    BY <1>3, <2>1, <2>2, <2>3
<1>4. CASE Final
  BY <1>4 DEF Final, HasLine
<1>5. CASE Shut
  BY <1>5 DEF Shut, Ended, HasLine
<1>6. CASE Tick
  BY <1>6 DEF Tick
<1> QED
  BY <1>1, <1>2, <1>3, <1>4, <1>5, <1>6, ReadStep, SendStep DEF Next, Daemon

\* No client holds the daemon for longer than twice the deadline, for every deadline and
\* every size.
THEOREM HoldsAreBounded == Spec => []HoldIsBounded
<1>1. IInv => HoldIsBounded
  BY DEF IInv, Timely, HoldIsBounded
<1> QED
  BY <1>1, InitIInv, NextIInv, PTL DEF Spec

\* A handler gets the client's bytes, in time, within the buffer and never half a line
\* of a client that is still writing, for every deadline and every size.
THEOREM AcceptedAreComplete == Spec => []AcceptedIsComplete
<1>1. IInv => AcceptedIsComplete
  <2> SUFFICES ASSUME IInv, client = "closed", socket = <<>> PROVE buffer = sent
    BY DEF IInv, Faithful, AcceptedIsComplete
  <2> QED
    BY ConcatEmptySeq DEF IInv, TypeOK, Faithful
<1> QED
  BY <1>1, InitIInv, NextIInv, PTL DEF Spec

\* Whatever the client spreads its bytes over, the call keeps no more than its buffer
\* holds beside the NUL (transport.c:72, 87).
THEOREM ReadTypeCorrect == Spec => []TypeOK
<1>1. IInv => TypeOK
  BY DEF IInv
<1> QED
  BY <1>1, InitIInv, NextIInv, PTL DEF Spec

\* The daemon reads on only as long as there is no line, and knows why it stopped.
Reasoned == /\ pc \in {"check", "read"} => ~HasLine(buffer)
            /\ RefusalIsJustified

LEMMA InitReasoned == Init => Reasoned
<1> SUFFICES ASSUME Init PROVE Reasoned
  OBVIOUS
<1>1. DOMAIN buffer = {}
  BY DEF Init
<1> QED
  BY <1>1 DEF Init, Reasoned, RefusalIsJustified, HasLine

LEMMA NextReasoned == IInv /\ Reasoned /\ [Next]_vars => Reasoned'
<1> SUFFICES ASSUME IInv, Reasoned, [Next]_vars PROVE Reasoned'
  OBVIOUS
<1> USE DEF Reasoned, RefusalIsJustified
<1>0. /\ clock \in Nat /\ reading \in Nat /\ Deadline \in Nat /\ MaxBytes \in Nat
      /\ Len(buffer) \in Nat /\ Len(buffer) <= MaxBytes
  BY LimitsAssumption DEF IInv, TypeOK
<1>1. CASE UNCHANGED vars
  BY <1>1 DEF vars, HasLine
<1>2. CASE Check
  BY <1>0, <1>2 DEF Check, HasLine
<1>3. CASE Read
  BY <1>3 DEF Read, HasLine
<1>4. CASE EndOfFile \/ Interrupted
  BY <1>4 DEF EndOfFile, Interrupted, HasLine
<1>5. CASE TimedOut
  <2>1. clock >= Deadline /\ client = "open" /\ pc' = "refused"
    BY <1>0, <1>5 DEF TimedOut
  <2>2. sent = buffer
    BY <1>5, ConcatEmptySeq DEF TimedOut, IInv, TypeOK, Faithful
  <2>3. ~HasLine(sent)
    BY <1>5, <2>2 DEF TimedOut
  <2>4. clock > Deadline \/ clock = Deadline
    BY <1>0, <2>1
  <2> QED
    BY <1>5, <2>1, <2>3, <2>4 DEF TimedOut, HasLine
<1>6. CASE Final
  BY <1>0, <1>6 DEF Final, HasLine
<1>7. CASE Send \/ Shut
  BY <1>7 DEF Send, Shut, Ended, HasLine
<1>8. CASE Tick
  BY <1>8 DEF Tick, HasLine
<1> QED
  BY <1>1, <1>2, <1>3, <1>4, <1>5, <1>6, <1>7, <1>8 DEF Next, Daemon

\* No signal, and no way to spread the bytes, has a client refused that sent a short line
\* in time, for every deadline and every size (transport.c:80-110).
THEOREM RefusalsAreJustified == Spec => []RefusalIsJustified
<1>1. Init => IInv /\ Reasoned
  BY InitIInv, InitReasoned
<1>2. IInv /\ Reasoned /\ [Next]_vars => (IInv /\ Reasoned)'
  BY NextIInv, NextReasoned
<1>3. Reasoned => RefusalIsJustified
  BY DEF Reasoned
<1> QED
  BY <1>1, <1>2, <1>3, PTL DEF Spec
=============================================================================
