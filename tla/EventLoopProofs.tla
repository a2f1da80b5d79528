---------------------------- MODULE EventLoopProofs ----------------------------
(***************************************************************************)
(* What holds of EventLoop for any number of clients on either socket, any *)
(* backlog, any number of starts and whatever clients, signals and other   *)
(* daemons do.                                                             *)
(*                                                                         *)
(* The argument: a connection is in one place, so that only accept takes   *)
(* it off its queue; hence what poll saw is still there when its turn      *)
(* comes.  A round of the loop accepts one connection of a plane at most,  *)
(* and a signal or a newcomer waits for one round and no longer.           *)
(***************************************************************************)
EXTENDS EventLoop, SequenceTheorems, FiniteSetTheorems, TLAPS

Typed == /\ pc \in Planes \cup {"check", "poll", "read", "write"} \cup Starting \cup Ended
         /\ revents \subseteq Planes /\ stop \in BOOLEAN
         /\ queue \in [Planes -> Seq(Clients)]
         /\ client \in [Clients -> {"away", "slow", "sent", "gone", "reset"}]
         /\ current \in Clients \cup {None}
         /\ lag \in [Clients -> Int] /\ late \in Nat
         /\ path \in [Planes -> {"none", "own", "other", "stale"}]
         /\ taken \in BOOLEAN /\ fault \subseteq Planes /\ starts \in Nat

\* Every connection is in one place, and there once.
Placed == /\ current # None <=> pc \in {"read", "write"}
          /\ current # None => client[current] \notin {"away", "reset"}
          /\ \A p \in Planes :
               /\ IsInjective(queue[p])
               /\ Waiting(p) = {c \in Clients \ {current} :
                                   PlaneOf[c] = p /\ client[c] \notin {"away", "reset"}}

\* The tool socket's turn is over in this round, the admin socket's is not.
Between == \/ pc = "admin"
           \/ pc \in {"read", "write"} /\ PlaneOf[current] = "tool"

\* What poll saw is there until its turn comes.
Polled == /\ pc = "tool" => \A p \in revents : queue[p] # <<>>
          /\ Between /\ "admin" \in revents => queue["admin"] # <<>>

\* The rest of a round is what a signal waits for.
Stopping == /\ ~stop \/ pc \in {"poll", "tool"} => late = 0
            /\ Between => late <= 1
            /\ late <= 2

\* How far ahead of a waiting client the other plane may be: who came after poll is
\* passed over in this round.
AheadOf(p) == IF p = "admin"
              THEN IF Between /\ "admin" \in revents THEN 2
                   ELSE IF pc = "tool" /\ "admin" \notin revents THEN 0 ELSE 1
              ELSE IF Between \/ (pc = "tool" /\ "tool" \notin revents) THEN 0 ELSE 1
Fairly == \A p \in Planes : \A c \in Waiting(p) : lag[c] <= AheadOf(p)

\* Whose the socket files are as a start goes on, as long as nobody else touches them.
Owned == /\ pc = "failed" => fault # {} \/ taken
         /\ ~taken => /\ \A p \in Planes : pc = BindAt[p] => path[p] = "none" \/ p \in fault
                      /\ pc \in {UnlinkAt["admin"], BindAt["admin"]} => path["tool"] = "own"
                      /\ Serving => \A p \in Planes : path[p] = "own"
         /\ pc = "exited" => \A p \in Planes \ fault : path[p] # "stale"

IInv == Typed /\ Placed
-----------------------------------------------------------------------------
(* Queues in which no client waits twice *)

LEMMA TailOfDistinct ==
    ASSUME NEW S, NEW s \in Seq(S), s # <<>>, IsInjective(s)
    PROVE  /\ Tail(s) \in Seq(S) /\ Head(s) \in S /\ Head(s) \in Range(s)
           /\ IsInjective(Tail(s)) /\ Range(Tail(s)) = Range(s) \ {Head(s)}
<1>1. /\ DOMAIN s = 1..Len(s) /\ Len(s) \in Nat \ {0} /\ Head(s) = s[1]
      /\ Tail(s) \in Seq(S) /\ Len(Tail(s)) = Len(s) - 1
      /\ \A i \in 1..(Len(s) - 1) : Tail(s)[i] = s[i + 1]
  BY HeadTailProperties, EmptySeq, LenProperties
<1>2. DOMAIN Tail(s) = 1..(Len(s) - 1)
  BY <1>1, LenProperties
<1>3. \A i, j \in 1..Len(s) : s[i] = s[j] => i = j
  BY <1>1 DEF IsInjective
<1>4. IsInjective(Tail(s))
  BY <1>1, <1>2, <1>3 DEF IsInjective
<1>5. Range(Tail(s)) = Range(s) \ {Head(s)}
  <2>1. ASSUME NEW x \in Range(Tail(s)) PROVE x \in Range(s) \ {Head(s)}
    BY <1>1, <1>2, <1>3 DEF Range
  <2>2. ASSUME NEW i \in 1..Len(s), s[i] # s[1] PROVE s[i] \in Range(Tail(s))
    <3>1. i - 1 \in 1..(Len(s) - 1) /\ Tail(s)[i - 1] = s[i]
      BY <1>1, <2>2
    <3> QED
      BY <1>2, <3>1 DEF Range
  <2>3. ASSUME NEW x \in Range(s) \ {Head(s)} PROVE x \in Range(Tail(s))
    <3>1. PICK i \in 1..Len(s) : s[i] = x
      BY <1>1 DEF Range
    <3> QED
      BY <1>1, <2>2, <3>1
  <2> QED
    BY <2>1, <2>3
<1>6. s[1] \in S /\ s[1] \in Range(s)
  BY <1>1 DEF Range
<1> QED
  BY <1>1, <1>4, <1>5, <1>6

LEMMA AppendDistinct ==
    ASSUME NEW S, NEW s \in Seq(S), NEW e \in S, e \notin Range(s), IsInjective(s)
    PROVE  /\ Append(s, e) \in Seq(S) /\ Append(s, e) # <<>>
           /\ IsInjective(Append(s, e)) /\ Range(Append(s, e)) = Range(s) \cup {e}
<1>1. /\ DOMAIN s = 1..Len(s) /\ Len(s) \in Nat /\ DOMAIN Append(s, e) = 1..(Len(s) + 1)
      /\ Append(s, e) \in Seq(S) /\ Append(s, e) # <<>>
      /\ \A i \in 1..Len(s) : Append(s, e)[i] = s[i]
      /\ Append(s, e)[Len(s) + 1] = e
  BY AppendProperties, LenProperties
<1>2. \A i \in 1..Len(s) : s[i] # e
  BY <1>1 DEF Range
<1>3. IsInjective(Append(s, e))
  BY <1>1, <1>2 DEF IsInjective
<1>4. Range(Append(s, e)) = Range(s) \cup {e}
  BY <1>1 DEF Range
<1> QED
  BY <1>1, <1>3, <1>4

LEMMA CountDistinct ==
    ASSUME NEW S, NEW s \in Seq(S), IsInjective(s)
    PROVE  Len(s) = Cardinality(Range(s))
<1>1. Len(s) \in Nat /\ s \in [1..Len(s) -> S] /\ DOMAIN s = 1..Len(s)
  BY LenProperties
<1>2. s \in [1..Len(s) -> Range(s)]
  BY <1>1 DEF Range
<1>3. s \in Bijection(1..Len(s), Range(s))
  BY <1>1, <1>2 DEF Bijection, Injection, Surjection, Range
<1> QED
  BY <1>1, <1>3, FS_CountingElements DEF ExistsBijection

LEMMA EmptyDistinct ==
    ASSUME NEW S
    PROVE  <<>> \in Seq(S) /\ IsInjective(<<>>) /\ Range(<<>>) = {}
BY EmptySeq DEF IsInjective, Range
-----------------------------------------------------------------------------
(* Types and places *)

LEMMA InitIInv == Init => IInv
<1> SUFFICES ASSUME Init PROVE IInv
  OBVIOUS
<1> USE LoopAssumption
<1>1. Typed
  <2>1. queue \in [Planes -> Seq(Clients)]
    BY EmptyDistinct DEF Init
  <2>2. /\ client \in [Clients -> {"away", "slow", "sent", "gone", "reset"}]
        /\ lag \in [Clients -> Int] /\ path \in [Planes -> {"none", "own", "other", "stale"}]
    BY DEF Init
  <2>3. pc \in Ended
    BY DEF Init, Ended
  <2> QED
    BY <2>1, <2>2, <2>3 DEF Init, Typed
<1>2. Placed
  <2>1. ASSUME NEW p \in Planes PROVE queue[p] = <<>> /\ Waiting(p) = {}
    BY EmptyDistinct DEF Init, Waiting
  <2> QED
    BY <2>1, EmptyDistinct DEF Init, Placed
<1> QED
  BY <1>1, <1>2 DEF IInv

\* Steps of main between two connections, and steps of others than its clients.
LEMMA QuietStep ==
    ASSUME IInv, UNCHANGED <<queue, current, client>>,
           pc \in {"read", "write"} <=> pc' \in {"read", "write"},
           Typed'
    PROVE  IInv'
BY DEF IInv, Placed, Waiting

\* The process ends: nobody is connected any more.
LEMMA EndStep ==
    ASSUME IInv, NEW label \in Ended, End(label),
           path' \in [Planes -> {"none", "own", "other", "stale"}],
           taken' = taken, fault' \subseteq Planes, starts' = starts
    PROVE  IInv'
<1> USE DEF IInv
<1>1. /\ pc' = label /\ current' = None /\ queue' = [p \in Planes |-> <<>>]
      /\ client' \in [Clients -> {"away", "slow", "sent", "gone", "reset"}]
      /\ \A c \in Clients : client'[c] \in {"away", "reset"}
      /\ lag' \in [Clients -> Int] /\ UNCHANGED <<revents, stop, late>>
  BY DEF End, Typed
<1>2. Typed'
  <2>1. queue' \in [Planes -> Seq(Clients)]
    BY <1>1, EmptyDistinct
  <2> QED
    BY <1>1, <2>1 DEF Typed
<1>3. Placed'
  <2>1. ASSUME NEW p \in Planes PROVE queue'[p] = <<>> /\ Waiting(p)' = {}
    BY <1>1 DEF Waiting
  <2> QED
    BY <1>1, <2>1, EmptyDistinct DEF Placed, Ended
<1> QED
  BY <1>2, <1>3

\* accept moves the first client of a queue from there to the daemon's hands.
LEMMA AcceptStep == ASSUME IInv, Accept PROVE IInv'
<1> USE LoopAssumption DEF IInv
<1>1. /\ pc \in Planes /\ pc' = "read" /\ queue[pc] # <<>> /\ current = None
      /\ queue[pc] \in Seq(Clients) /\ IsInjective(queue[pc])
      /\ current' = Head(queue[pc]) /\ queue' = [queue EXCEPT ![pc] = Tail(@)]
      /\ UNCHANGED <<revents, stop, client, files>>
  BY DEF Accept, Typed, Placed, Planes
<1>2. /\ Tail(queue[pc]) \in Seq(Clients) /\ Head(queue[pc]) \in Clients
      /\ Head(queue[pc]) \in Waiting(pc)
      /\ IsInjective(Tail(queue[pc]))
      /\ Range(Tail(queue[pc])) = Waiting(pc) \ {Head(queue[pc])}
  BY <1>1, TailOfDistinct DEF Waiting, Range
<1>3. Typed'
  <2>1. lag' \in [Clients -> Int]
    BY DEF Accept, Typed
  <2>2. late' \in Nat
    BY DEF Accept, Typed
  <2> QED
    BY <1>1, <1>2, <2>1, <2>2 DEF Typed, files
<1>4. ASSUME NEW p \in Planes
      PROVE  /\ IsInjective(queue'[p])
             /\ Waiting(p)' = Waiting(p) \ {current'}
  <2>1. CASE p = pc
    <3>1. queue'[p] = Tail(queue[p])
      BY <1>1, <2>1 DEF Typed
    <3>2. Waiting(p)' = Range(Tail(queue[p]))
      BY <3>1 DEF Waiting, Range
    <3> QED
      BY <1>1, <1>2, <2>1, <3>1, <3>2
  <2>2. CASE p # pc
    <3>1. queue'[p] = queue[p] /\ current' \notin Waiting(p)
      BY <1>1, <1>2, <2>2 DEF Typed, Placed
    <3> QED
      BY <3>1 DEF Placed, Waiting
  <2> QED
    BY <2>1, <2>2
<1>5. current' # None /\ client'[current'] \notin {"away", "reset"}
  BY <1>1, <1>2 DEF Placed
<1>6. Placed'
  BY <1>1, <1>4, <1>5 DEF Placed
<1> QED
  BY <1>3, <1>6

LEMMA WriteStep == ASSUME IInv, Write PROVE IInv'
<1> USE LoopAssumption DEF IInv
<1>1. Typed'
  BY DEF Write, Typed, Placed, After, Planes, files
<1>2. /\ pc = "write" /\ current \in Clients /\ current' = None /\ queue' = queue
      /\ client' = [client EXCEPT ![current] = "away"] /\ pc' \in {"admin", "check"}
  BY DEF Write, Typed, Placed, After
<1>3. ASSUME NEW p \in Planes
      PROVE  /\ Waiting(p)' = Waiting(p) /\ queue'[p] = queue[p]
             /\ {c \in Clients \ {current'} : PlaneOf[c] = p /\ client'[c] \notin {"away", "reset"}}
                  = {c \in Clients \ {current} : PlaneOf[c] = p /\ client[c] \notin {"away", "reset"}}
  BY <1>2 DEF Typed, Waiting
<1>4. Placed'
  BY <1>2, <1>3 DEF Placed
<1> QED
  BY <1>1, <1>4

LEMMA ConnectStep == ASSUME IInv, NEW c \in Clients, Connect(c) PROVE IInv'
<1> USE LoopAssumption DEF IInv
<1> DEFINE q == PlaneOf[c]
<1>1. /\ q \in Planes /\ client[c] \in {"away", "reset"} /\ c # current
      /\ queue[q] \in Seq(Clients) /\ IsInjective(queue[q]) /\ c \notin Waiting(q)
      /\ queue' = [queue EXCEPT ![q] = Append(@, c)] /\ UNCHANGED <<pc, current>>
  <2>1. /\ q \in Planes /\ client[c] \in {"away", "reset"}
        /\ queue' = [queue EXCEPT ![q] = Append(@, c)] /\ UNCHANGED <<pc, current>>
    BY DEF Connect
  <2>2. c # current /\ c \notin Waiting(q)
    BY <2>1 DEF Placed
  <2>3. queue[q] \in Seq(Clients) /\ IsInjective(queue[q])
    BY <2>1 DEF Typed, Placed
  <2> QED
    BY <2>1, <2>2, <2>3
<1>2. PICK state \in {"slow", "sent"} : client' = [client EXCEPT ![c] = state]
  BY DEF Connect
<1>3. /\ Append(queue[q], c) \in Seq(Clients) /\ IsInjective(Append(queue[q], c))
      /\ Range(Append(queue[q], c)) = Waiting(q) \cup {c}
  <2>1. Waiting(q) = Range(queue[q])
    BY DEF Waiting, Range
  <2> HIDE DEF q
  <2> QED
    BY <1>1, <2>1, AppendDistinct
<1>4. Typed'
  BY <1>1, <1>2, <1>3 DEF Connect, Typed, files
<1>5. ASSUME NEW p \in Planes
      PROVE  /\ IsInjective(queue'[p])
             /\ Waiting(p)' = IF p = q THEN Waiting(p) \cup {c} ELSE Waiting(p)
  <2>1. CASE p = q
    <3>1. queue'[p] = Append(queue[q], c)
      BY <1>1, <2>1 DEF Typed
    <3>2. Waiting(p)' = Range(Append(queue[q], c))
      BY <3>1 DEF Waiting, Range
    <3> QED
      BY <1>3, <2>1, <3>1, <3>2
  <2>2. CASE p # q
    BY <1>1, <2>2 DEF Typed, Placed, Waiting
  <2> QED
    BY <2>1, <2>2
<1>6. ASSUME NEW p \in Planes
      PROVE  Waiting(p)' = {d \in Clients \ {current'} :
                               PlaneOf[d] = p /\ client'[d] \notin {"away", "reset"}}
  <2>1. Waiting(p) = {d \in Clients \ {current} :
                         PlaneOf[d] = p /\ client[d] \notin {"away", "reset"}}
    BY DEF Placed
  <2>2. \A d \in Clients : IF d = c THEN client'[d] \notin {"away", "reset"}
                                   ELSE client'[d] = client[d]
    BY <1>2 DEF Typed
  <2> QED
    BY <1>1, <1>5, <2>1, <2>2
<1>7. Placed'
  BY <1>1, <1>2, <1>5, <1>6 DEF Typed, Placed
<1> QED
  BY <1>4, <1>7

\* A request is completed, or its sender leaves: the connection stays where it is.
LEMMA ClientStep == ASSUME IInv, NEW c \in Clients, Send(c) \/ Leave(c) PROVE IInv'
<1> USE DEF IInv
<1>1. PICK state \in {"sent", "gone"} : client' = [client EXCEPT ![c] = state]
  BY DEF Send, Leave
<1>2. client[c] \in {"slow", "sent"} /\ UNCHANGED <<pc, queue, current>>
  BY DEF Send, Leave
<1>3. Typed'
  BY <1>1 DEF Send, Leave, Typed, files
<1>4. \A d \in Clients : client'[d] \in {"away", "reset"} <=> client[d] \in {"away", "reset"}
  BY <1>1, <1>2 DEF Typed
<1>5. Placed'
  BY <1>2, <1>4 DEF Typed, Placed, Waiting
<1> QED
  BY <1>3, <1>5

LEMMA Labels ==
    /\ Starting = {"unlink_tool", "unlink_admin", "bind_tool", "bind_admin"}
    /\ \A p \in Planes : UnlinkAt[p] \in Starting /\ BindAt[p] \in Starting
BY DEF Starting, Planes, UnlinkAt, BindAt

LEMMA RemovesFiles ==
    /\ Sticking \subseteq Planes
    /\ \A file \in {"none", "own", "other", "stale"} :
          Orphan(file) \in {"none", "other", "stale"}
BY DEF Sticking, Orphan

LEMMA NextIInv == IInv /\ [Next]_vars => IInv'
<1> SUFFICES ASSUME IInv, [Next]_vars PROVE IInv'
  OBVIOUS
<1> USE LoopAssumption
<1>0. Typed
  BY DEF IInv
<1>1. CASE UNCHANGED vars
  BY <1>1, <1>0, QuietStep DEF vars, files, Typed
<1>2. ASSUME NEW p \in Planes, Unlink(p) \/ Bind(p) PROVE IInv'
  <2>1. pc \in Starting /\ pc' \in Starting \cup {"check"} /\ UNCHANGED <<queue, current, client>>
    BY <1>2, Labels DEF Unlink, Bind, Planes
  <2>2. path' \in [Planes -> {"none", "own", "other", "stale"}]
    BY <1>0, <1>2 DEF Unlink, Bind, Typed
  <2>3. Typed'
    BY <1>0, <1>2, <2>1, <2>2 DEF Unlink, Bind, Typed
  <2> QED
    BY <2>1, <2>3, Labels, QuietStep
<1>3. ASSUME NEW p \in Planes, ListenFails(p) PROVE IInv'
  <2>1. /\ End("failed") /\ taken' = taken /\ starts' = starts /\ fault' \subseteq Planes
        /\ path' \in [Planes -> {"none", "own", "other", "stale"}]
    <3> DEFINE Of == {"none", "own", "other", "stale"}
    <3>1. PICK left \in {path[p], "stale"}, kept \in SUBSET Sticking :
             /\ path' = [path EXCEPT ![p] = left,
                                     !["tool"] = CASE p = "tool" -> left
                                                   [] "tool" \in kept -> Orphan(@)
                                                   [] OTHER -> "none"]
             /\ fault' = fault \cup (kept \cap {"tool"})
                              \cup {q \in {p} : pc = UnlinkAt[p] \/ path[p] = "none"}
      BY <1>3 DEF ListenFails
    <3>2. path \in [Planes -> Of] /\ fault \subseteq Planes /\ left \in Of
      BY <1>0 DEF Typed
    <3>3. kept \cap {"tool"} \subseteq Planes
      BY DEF Planes
    <3>4. fault' \subseteq Planes
      BY <3>1, <3>2, <3>3
    <3>5. \A file \in Of : (CASE p = "tool" -> left
                               [] "tool" \in kept -> Orphan(file)
                               [] OTHER -> "none") \in Of
      BY <3>2, RemovesFiles
    <3>6. path' \in [Planes -> Of]
      BY <3>1, <3>2, <3>5
    <3> QED
      BY <1>3, <3>4, <3>6 DEF ListenFails
  <2> QED
    BY <2>1, EndStep DEF Ended
<1>4. CASE Start \/ Check \/ Poll \/ Skip \/ Signal
  <2>1. Typed' /\ UNCHANGED <<queue, current, client>>
    <3>1. CASE Start
      <4>1. pc' \in Starting
        BY <3>1, Labels DEF Start, Planes
      <4>2. /\ revents' = {} /\ late' = 0 /\ starts' = starts + 1
            /\ UNCHANGED <<queue, current, client, lag, path>>
            /\ stop' \in BOOLEAN /\ taken' \in BOOLEAN /\ fault' \subseteq Planes
        BY <3>1 DEF Start
      <4> QED
        BY <1>0, <4>1, <4>2 DEF Typed
    <3>2. CASE Check \/ Poll \/ Signal
      BY <1>0, <3>2 DEF Check, Poll, Signal, Ready, Planes, files, Typed
    <3>3. CASE Skip
      BY <1>0, <3>3 DEF Skip, After, Planes, files, Typed
    <3> QED
      BY <1>4, <3>1, <3>2, <3>3
  <2>2. pc \in {"read", "write"} <=> pc' \in {"read", "write"}
    BY <1>4, Labels DEF Start, Check, Poll, Skip, Signal, After, Planes, Ended
  <2> QED
    BY <2>1, <2>2, QuietStep
<1>5. CASE ReadRequest \/ Deadline
  <2>1. Typed' /\ UNCHANGED <<queue, current, client>> /\ pc = "read" /\ pc' = "write"
    BY <1>0, <1>5 DEF ReadRequest, Deadline, files, Typed
  <2> QED
    BY <2>1, QuietStep
<1>6. CASE Exit \/ BrokenPipe \/ Killed
  <2>1. /\ \E label \in Ended : End(label)
        /\ taken' = taken /\ starts' = starts /\ fault' \subseteq Planes
        /\ path' \in [Planes -> {"none", "own", "other", "stale"}]
    <3>1. fault \subseteq Planes /\ \A p \in Planes : path[p] \in {"none", "own", "other", "stale"}
      BY <1>0 DEF Typed
    <3>2. CASE Exit
      <4>1. PICK kept \in SUBSET Sticking :
               /\ path' = [p \in Planes |-> IF p \in kept THEN Orphan(path[p]) ELSE "none"]
               /\ fault' = fault \cup kept
        BY <3>2 DEF Exit
      <4>2. path' \in [Planes -> {"none", "own", "other", "stale"}] /\ fault' \subseteq Planes
        BY <3>1, <4>1, RemovesFiles
      <4> QED
        BY <3>2, <4>2 DEF Exit, Ended
    <3>3. CASE BrokenPipe \/ Killed
      <4>1. path' = [p \in Planes |-> Orphan(path[p])] /\ End("dead")
            /\ UNCHANGED <<taken, fault, starts>>
        BY <3>3 DEF BrokenPipe, Killed, Dies
      <4> QED
        BY <3>1, <4>1, RemovesFiles DEF Ended
    <3> QED
      BY <1>6, <3>2, <3>3
  <2> QED
    BY <2>1, EndStep
<1>7. ASSUME NEW p \in Planes, OtherDaemon(p) PROVE IInv'
  <2>1. Typed' /\ UNCHANGED <<pc, queue, current, client>>
    BY <1>0, <1>7 DEF OtherDaemon, Typed
  <2> QED
    BY <2>1, QuietStep
<1> QED
  BY <1>1, <1>2, <1>3, <1>4, <1>5, <1>6, <1>7, AcceptStep, WriteStep, ConnectStep, ClientStep
     DEF Next, Daemon

\* The daemon's state is well typed for any clients and backlogs, and every connection
\* waits on its own socket or is being served.
THEOREM LoopTypeCorrect == Spec => []TypeOK
<1>1. ASSUME IInv PROVE TypeOK
  <2>1. ASSUME NEW p \in Planes PROVE Len(queue[p]) = Cardinality(Waiting(p))
    <3>1. queue[p] \in Seq(Clients) /\ IsInjective(queue[p]) /\ Waiting(p) = Range(queue[p])
      BY <1>1 DEF IInv, Typed, Placed, Waiting, Range
    <3> QED
      BY <3>1, CountDistinct
  <2> QED
    BY <1>1, <2>1 DEF IInv, Typed, Placed, TypeOK
<1> QED
  BY <1>1, InitIInv, NextIInv, PTL DEF Spec
-----------------------------------------------------------------------------
(* A round of the loop *)

RoundInv == Polled /\ Stopping /\ Fairly

InRound == {"poll", "tool", "admin", "read", "write"}

\* Before the loop, and between its end and the next start.
LEMMA OutsideRound ==
    ASSUME RoundInv, pc \notin InRound, pc' \notin InRound, UNCHANGED <<queue, lag>>,
           late' = 0 \/ UNCHANGED <<stop, late>>
    PROVE  RoundInv'
<1> USE DEF RoundInv, InRound
<1>1. Polled' /\ Stopping'
  BY DEF Polled, Stopping, Between
<1>2. AheadOf("admin") = 1 /\ AheadOf("admin")' = 1 /\ AheadOf("tool") = 1 /\ AheadOf("tool")' = 1
  BY DEF AheadOf, Between
<1>3. Fairly'
  BY <1>2 DEF Fairly, Waiting, Planes
<1> QED
  BY <1>1, <1>3

\* Main stays where it is in the round, and so do those who wait.
LEMMA SameRound ==
    ASSUME RoundInv, UNCHANGED <<revents, queue, current, lag, late>>,
           pc' = pc \/ (pc = "read" /\ pc' = "write"),
           stop' = stop \/ stop'
    PROVE  RoundInv'
<1> USE DEF RoundInv
<1>1. Between' <=> Between
  BY DEF Between
<1>2. Polled' /\ Stopping'
  BY <1>1 DEF Polled, Stopping
<1>3. \A p \in Planes : AheadOf(p)' = AheadOf(p) /\ Waiting(p)' = Waiting(p)
  BY <1>1 DEF AheadOf, Waiting
<1>4. Fairly'
  BY <1>3 DEF Fairly
<1> QED
  BY <1>2, <1>4

LEMMA EndRound == ASSUME RoundInv, NEW label \in Ended, End(label) PROVE RoundInv'
<1>1. /\ pc' \in Ended /\ UNCHANGED <<stop, late>>
      /\ \A p \in Planes : Waiting(p)' = {}
  BY EmptyDistinct DEF End, Waiting
<1> QED
  BY <1>1 DEF RoundInv, Polled, Stopping, Fairly, Between, Ended

\* Once per round poll looks at both queues.
LEMMA PollRound == ASSUME IInv, RoundInv, Check \/ Poll PROVE RoundInv'
<1> USE DEF RoundInv
<1>1. CASE Check
  <2>1. Polled' /\ Stopping' /\ \A p \in Planes : Waiting(p)' = Waiting(p)
    BY <1>1 DEF Check, Polled, Stopping, Between, Waiting
  <2>2. \A p \in Planes : AheadOf(p) = 1 /\ AheadOf(p)' = 1
    BY <1>1 DEF Check, AheadOf, Between
  <2> QED
    BY <1>1, <2>1, <2>2 DEF Check, Fairly
<1>2. CASE Poll
  <2>1. /\ pc = "poll" /\ revents' = Ready /\ UNCHANGED <<queue, lag, late>> /\ late = 0
        /\ \/ pc' = "check" /\ Ready = {}
           \/ pc' = "tool"
    BY <1>2 DEF Poll, Stopping
  <2>2. Polled' /\ Stopping'
    BY <2>1 DEF Polled, Stopping, Between, Ready
  <2>3. \A p \in Planes : p \notin Ready => Waiting(p) = {}
    BY EmptyDistinct DEF Ready, Waiting
  <2>4. \A p \in Planes : AheadOf(p) = 1 /\ (p \in Ready => AheadOf(p)' = 1)
    BY <2>1 DEF AheadOf, Between, Planes
  <2>5. Fairly'
    BY <2>1, <2>3, <2>4 DEF Fairly, Waiting
  <2> QED
    BY <2>2, <2>5
<1> QED
  BY <1>1, <1>2

\* A plane's turn ends: the other one's comes, or the next round's.
LEMMA TurnRound == ASSUME IInv, RoundInv, Skip \/ Write PROVE RoundInv'
<1> USE DEF RoundInv
<1>1. /\ UNCHANGED <<revents, stop, queue, lag, late>>
      /\ \/ Between /\ pc' = "admin" /\ pc # "admin"
         \/ pc = "tool" /\ "tool" \notin revents /\ pc' = "admin"
         \/ pc = "admin" /\ "admin" \notin revents /\ pc' = "check"
         \/ ~Between /\ pc \notin {"poll", "tool"} /\ pc' = "check"
  BY DEF Skip, Write, After, Between, Planes, IInv, Placed
<1>2. Between' <=> pc' = "admin"
  BY <1>1 DEF Between
<1>3. Polled' /\ Stopping'
  BY <1>1, <1>2 DEF Polled, Stopping, Between, Planes
<1>4. \A p \in Planes : AheadOf(p) <= AheadOf(p)' /\ AheadOf(p) \in Int /\ AheadOf(p)' \in Int
  BY <1>1, <1>2 DEF AheadOf, Between, Planes
<1>5. Fairly'
  <2>1. \A p \in Planes : Waiting(p)' = Waiting(p) /\ \A c \in Waiting(p) : lag[c] \in Int
    BY <1>1 DEF Waiting, IInv, Typed, Placed
  <2> QED
    BY <1>1, <1>4, <2>1 DEF Fairly
<1> QED
  BY <1>3, <1>5

\* A plane's turn is used: its clients are one ahead, the other plane's one behind.
LEMMA AcceptRound == ASSUME IInv, RoundInv, Accept PROVE RoundInv'
<1> USE LoopAssumption DEF RoundInv
<1>1. /\ pc \in Planes /\ pc \in revents /\ queue[pc] # <<>> /\ pc' = "read"
      /\ current' = Head(queue[pc]) /\ queue' = [queue EXCEPT ![pc] = Tail(@)]
      /\ UNCHANGED <<revents, stop>> /\ late \in Nat
      /\ late' = IF stop /\ late < 3 THEN late + 1 ELSE late
      /\ queue \in [Planes -> Seq(Clients)] /\ IsInjective(queue[pc])
  BY DEF Accept, IInv, Typed, Placed, Planes, MaxLate
<1>2. /\ Head(queue[pc]) \in Waiting(pc)
      /\ Range(Tail(queue[pc])) = Waiting(pc) \ {Head(queue[pc])}
  BY <1>1, TailOfDistinct DEF Waiting, Range
<1>3. PlaneOf[current'] = pc
  BY <1>1, <1>2 DEF IInv, Placed
<1>4. Between' <=> pc = "tool"
  BY <1>1, <1>3 DEF Between, Planes
<1>5. Polled' /\ Stopping'
  BY <1>1, <1>4 DEF Polled, Stopping, Between, Planes
<1>6. \A p \in Planes : Waiting(p)' \subseteq Waiting(p)
  BY <1>1, <1>2 DEF Waiting, Range
<1>7. \A p \in Planes : IF p = pc THEN AheadOf(p) <= AheadOf(p)' + 1 ELSE AheadOf(p) + 1 <= AheadOf(p)'
  BY <1>1, <1>4 DEF AheadOf, Between, Planes
<1>8. Fairly'
  <2> SUFFICES ASSUME NEW p \in Planes, NEW c \in Waiting(p)' PROVE lag'[c] <= AheadOf(p)'
    BY DEF Fairly
  <2>1. c \in Clients /\ PlaneOf[c] = p /\ lag[c] \in Int /\ lag[c] <= AheadOf(p)
    BY <1>6 DEF IInv, Typed, Placed, Fairly
  <2>2. lag'[c] = IF p = pc THEN lag[c] - 1 ELSE lag[c] + 1
    BY <2>1 DEF Accept
  <2>3. AheadOf(p) \in Int /\ AheadOf(p)' \in Int
    BY DEF AheadOf
  <2> QED
    BY <1>7, <2>1, <2>2, <2>3
<1> QED
  BY <1>5, <1>8

\* A newcomer has nobody ahead of it.
LEMMA ConnectRound == ASSUME IInv, RoundInv, NEW c \in Clients, Connect(c) PROVE RoundInv'
<1> USE LoopAssumption DEF RoundInv
<1> DEFINE q == PlaneOf[c]
<1>1. /\ UNCHANGED <<pc, revents, stop, current, late>> /\ lag' = [lag EXCEPT ![c] = 0]
      /\ queue' = [queue EXCEPT ![q] = Append(@, c)] /\ q \in Planes
      /\ queue \in [Planes -> Seq(Clients)] /\ lag \in [Clients -> Int]
  BY DEF Connect, IInv, Typed, files
<1>2. \A p \in Planes : /\ queue[p] # <<>> => queue'[p] # <<>>
                        /\ Waiting(p)' \subseteq Waiting(p) \cup {c}
  <2> SUFFICES ASSUME NEW p \in Planes
               PROVE  /\ queue[p] # <<>> => queue'[p] # <<>>
                      /\ Waiting(p)' \subseteq Waiting(p) \cup {c}
    OBVIOUS
  <2>1. CASE p = q
    <3>1. queue'[p] = Append(queue[p], c) /\ queue[p] \in Seq(Clients)
      BY <1>1, <2>1
    <3> QED
      BY <3>1, AppendProperties DEF Waiting
  <2>2. CASE p # q
    <3>1. queue'[p] = queue[p]
      BY <1>1, <2>2
    <3> QED
      BY <3>1 DEF Waiting
  <2> QED
    BY <2>1, <2>2
<1>3. Polled' /\ Stopping'
  <2>1. Polled'
    <3>1. Between' <=> Between
      BY <1>1 DEF Between
    <3>2. "admin" \in Planes /\ revents' \subseteq Planes
      BY <1>1 DEF IInv, Typed, Planes
    <3> QED
      BY <1>1, <1>2, <3>1, <3>2 DEF Polled
  <2>2. Stopping'
    BY <1>1 DEF Stopping, Between
  <2> QED
    BY <2>1, <2>2
<1>4. \A p \in Planes : AheadOf(p)' = AheadOf(p) /\ AheadOf(p) >= 0
  BY <1>1 DEF AheadOf, Between
<1>5. Fairly'
  <2> SUFFICES ASSUME NEW p \in Planes, NEW d \in Waiting(p)' PROVE lag'[d] <= AheadOf(p)
    BY <1>4 DEF Fairly
  <2>1. CASE d = c
    BY <1>1, <1>4, <2>1
  <2>2. CASE d # c
    BY <1>1, <1>2, <2>2 DEF Fairly
  <2> QED
    BY <2>1, <2>2
<1> QED
  BY <1>3, <1>5

LEMMA InitRound == Init => RoundInv
<1> SUFFICES ASSUME Init PROVE RoundInv
  OBVIOUS
<1>1. \A p \in Planes : Waiting(p) = {}
  BY EmptyDistinct DEF Init, Waiting
<1> QED
  BY <1>1 DEF Init, RoundInv, Polled, Stopping, Fairly, Between

LEMMA NextRound == IInv /\ RoundInv /\ [Next]_vars => RoundInv'
<1> SUFFICES ASSUME IInv, RoundInv, [Next]_vars PROVE RoundInv'
  OBVIOUS
<1>1. CASE UNCHANGED vars
  BY <1>1, SameRound DEF vars, files
<1>2. ASSUME NEW p \in Planes, Unlink(p) \/ Bind(p) \/ ListenFails(p) PROVE RoundInv'
  <2>1. CASE Unlink(p) \/ Bind(p)
    <3>1. pc \in Starting /\ pc' \in Starting \cup {"check"} /\ UNCHANGED <<queue, lag, stop, late>>
      BY <2>1, Labels DEF Unlink, Bind, Planes
    <3> QED
      BY <3>1, Labels, OutsideRound DEF InRound
  <2>2. CASE ListenFails(p)
    BY <2>2, EndRound DEF ListenFails, Ended
  <2> QED
    BY <1>2, <2>1, <2>2
<1>3. CASE Start
  <2>1. pc' \in Starting
    BY <1>3, Labels DEF Start, Planes
  <2> QED
    BY <1>3, <2>1, Labels, OutsideRound DEF Start, Ended, InRound
<1>4. CASE Exit \/ BrokenPipe \/ Killed
  BY <1>4, EndRound DEF Exit, BrokenPipe, Killed, Dies, Ended
<1>5. CASE ReadRequest \/ Deadline
  BY <1>5, SameRound DEF ReadRequest, Deadline
<1>6. CASE Signal \/ \E p \in Planes : OtherDaemon(p)
  BY <1>6, SameRound DEF Signal, OtherDaemon
<1>7. ASSUME NEW c \in Clients, Send(c) \/ Leave(c) PROVE RoundInv'
  BY <1>7, SameRound DEF Send, Leave
<1> QED
  BY <1>1, <1>2, <1>3, <1>4, <1>5, <1>6, <1>7, PollRound, TurnRound, AcceptRound, ConnectRound
     DEF Next, Daemon

LEMMA RoundInvariant == Spec => [](IInv /\ RoundInv)
BY InitIInv, InitRound, NextIInv, NextRound, PTL DEF Spec

\* accept never waits: what poll reported is still there, for any number of clients,
\* whatever they do while the tool connection is served.
THEOREM AcceptsNeverBlock == Spec => []AcceptNeverBlocks
<1>1. IInv /\ RoundInv => AcceptNeverBlocks
  BY DEF RoundInv, Polled, Between, Planes, IInv, Typed, AcceptNeverBlocks
<1> QED
  BY <1>1, RoundInvariant, PTL

\* Neither plane starves the other, for any numbers of clients and any backlogs.
THEOREM PlanesShare == Spec => []NoPlaneStarves
<1>1. IInv /\ RoundInv => NoPlaneStarves
  <2> SUFFICES ASSUME IInv, RoundInv, NEW p \in Planes, NEW c \in Waiting(p)
               PROVE  lag[c] <= IF p = "admin" THEN 2 ELSE 1
    BY DEF NoPlaneStarves
  <2>1. lag[c] \in Int /\ lag[c] <= AheadOf(p)
    BY DEF IInv, Typed, Placed, RoundInv, Fairly
  <2> QED
    BY <2>1 DEF AheadOf, Planes
<1> QED
  BY <1>1, RoundInvariant, PTL

\* A signal waits for the rest of one round at most.
THEOREM StopsArePrompt == Spec => []StopIsPrompt
<1>1. RoundInv => StopIsPrompt
  BY DEF RoundInv, Stopping, StopIsPrompt
<1> QED
  BY <1>1, RoundInvariant, PTL
-----------------------------------------------------------------------------
(* Socket files *)

LEMMA NextOwned == IInv /\ Owned /\ [Next]_vars => Owned'
<1> SUFFICES ASSUME IInv, Owned, [Next]_vars PROVE Owned'
  OBVIOUS
<1> USE DEF Owned, Serving, Ended
<1>1. path \in [Planes -> {"none", "own", "other", "stale"}]
  BY DEF IInv, Typed
<1>2. CASE UNCHANGED <<pc, files>>
  BY <1>2 DEF files
<1>3. ASSUME NEW p \in Planes, Unlink(p) PROVE Owned'
  BY <1>1, <1>3 DEF Unlink, UnlinkAt, BindAt, Planes, Starting
<1>4. ASSUME NEW p \in Planes, Bind(p) PROVE Owned'
  BY <1>1, <1>4 DEF Bind, UnlinkAt, BindAt, Planes, Starting
<1>5. ASSUME NEW p \in Planes, ListenFails(p) PROVE Owned'
  BY <1>5, Labels DEF ListenFails, End, UnlinkAt, BindAt, Planes
<1>6. CASE Start
  BY <1>6 DEF Start, UnlinkAt, BindAt, Planes, Starting
<1>7. CASE Exit \/ BrokenPipe \/ Killed
  BY <1>7, Labels DEF Exit, BrokenPipe, Killed, Dies, End, UnlinkAt, BindAt, Planes
<1>8. CASE Check \/ Poll \/ Skip \/ Accept \/ ReadRequest \/ Deadline \/ Write
  <2>1. UNCHANGED files /\ pc \in {"check", "poll", "tool", "admin", "read", "write"}
    BY <1>8 DEF Check, Poll, Skip, Accept, ReadRequest, Deadline, Write, Planes, IInv, Typed
  <2>2. pc' \in {"check", "poll", "tool", "admin", "read", "write"}
    BY <1>8 DEF Check, Poll, Skip, Accept, ReadRequest, Deadline, Write, After
  <2> QED
    BY <2>1, <2>2, Labels DEF files, UnlinkAt, BindAt, Planes
<1>9. ASSUME NEW p \in Planes, OtherDaemon(p) PROVE Owned'
  BY <1>1, <1>9 DEF OtherDaemon
<1> QED
  BY <1>2, <1>3, <1>4, <1>5, <1>6, <1>7, <1>8, <1>9
     DEF Next, Daemon, vars, Signal, Connect, Send, Leave

LEMMA OwnedInvariant == Spec => []Owned
<1>1. Init => Owned
  BY DEF Init, Owned, Serving, Ended, UnlinkAt, BindAt
<1> QED
  BY <1>1, InitIInv, NextIInv, NextOwned, PTL DEF Spec

\* Whatever earlier daemons left behind, only a failing call - unlink is one - or
\* another daemon makes a start fail.
THEOREM StartsFailOnlyByFault == Spec => []StartFailsOnlyByFault
<1>1. Owned => StartFailsOnlyByFault
  BY DEF Owned, StartFailsOnlyByFault
<1> QED
  BY <1>1, OwnedInvariant, PTL

\* The paths lead to the daemon that serves, whatever unlink did, and nowhere after it
\* has ended in order, but for a file that its last unlink did not remove.
THEOREM PathsAreOwned == Spec => []PathsLeadHere
<1>1. Owned => PathsLeadHere
  BY DEF Owned, PathsLeadHere
<1> QED
  BY <1>1, OwnedInvariant, PTL
=============================================================================
