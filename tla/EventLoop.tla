------------------------------ MODULE EventLoop ------------------------------
(***************************************************************************)
(* The life of the daemon's process and its clients (main and accept_one   *)
(* in anythingd.c, transport.c): two socket files that are taken over from *)
(* whoever left them, one connection served at a time, a read deadline,    *)
(* signals that ask the loop to stop, clients that are slow or leave,      *)
(* processes that are killed and started again, other daemons that use the *)
(* same paths.  What a handler does between reading and writing is the     *)
(* subject of Anythingd, what comes before the sockets that of Startup.    *)
(***************************************************************************)
EXTENDS Integers, Sequences, FiniteSets

CONSTANTS Clients,       \* processes that connect, again and again
          PlaneOf,       \* the socket each of them connects to
          None,          \* no client
          Backlog,       \* connections the kernel keeps waiting per socket
          ClientsLeave,  \* may a client close before it has its answer?
          Faults,        \* may system calls fail, the process be killed, and
                         \* another daemon use the same paths?
          MaxStarts      \* bound: how often the daemon is started

Planes == {"tool", "admin"}

ASSUME LoopAssumption == /\ PlaneOf \in [Clients -> Planes]
                         /\ None \notin Clients
                         /\ Backlog \in Nat \ {0}
                         /\ ClientsLeave \in BOOLEAN /\ Faults \in BOOLEAN
                         /\ MaxStarts \in Nat

VARIABLES pc,       \* where main is; the name of a plane: at its if statement
          revents,  \* the planes that were readable when poll returned
          stop,     \* g_stop
          queue,    \* connections of each plane waiting to be accepted
          current,  \* the client being served
          client,   \* each client's connection: "away" (none), "slow" (its
                    \* request is not complete), "sent", "gone" (it has left)
                    \* or "reset" (the daemon's process has ended)
          lag,      \* history: since this client connected, how many more of
                    \* the other plane's connections were accepted than of its own
          late,     \* history: connections accepted since the signal
          path,     \* whose the socket file of each plane is: "none", "own",
                    \* "other" (another daemon's) or "stale" (a dead one's)
          taken,    \* history: since its start another daemon touched a path
          fault,    \* history: the planes whose last system call failed in this
                    \* start: unlink, or what opens the socket
          starts    \* history: number of starts

\* Bound: late counts no further than this.
MaxLate == 3

files == <<path, taken, fault, starts>>
vars == <<pc, revents, stop, queue, current, client, lag, late, files>>

Ended == {"off", "exited", "failed", "dead"}
UnlinkAt == [tool |-> "unlink_tool", admin |-> "unlink_admin"]
BindAt == [tool |-> "bind_tool", admin |-> "bind_admin"]
Starting == {UnlinkAt[p] : p \in Planes} \cup {BindAt[p] : p \in Planes}
Serving == pc \notin Ended \cup Starting

Waiting(p) == {queue[p][i] : i \in DOMAIN queue[p]}

\* Every connection is in one place: waiting on its plane, or being served.
TypeOK ==
    /\ pc \in Planes \cup {"check", "poll", "read", "write"} \cup Starting \cup Ended
    /\ revents \subseteq Planes /\ stop \in BOOLEAN
    /\ queue \in [Planes -> Seq(Clients)]
    /\ client \in [Clients -> {"away", "slow", "sent", "gone", "reset"}]
    /\ current \in Clients \cup {None}
    /\ pc \in {"read", "write"} => current # None
    /\ \A p \in Planes : /\ Waiting(p) = {c \in Clients \ {current} :
                                PlaneOf[c] = p /\ client[c] \notin {"away", "reset"}}
                         /\ Len(queue[p]) = Cardinality(Waiting(p))
    /\ lag \in [Clients -> Int] /\ late \in Nat
    /\ path \in [Planes -> {"none", "own", "other", "stale"}]
    /\ taken \in BOOLEAN /\ fault \subseteq Planes /\ starts \in Nat
-----------------------------------------------------------------------------
Init == /\ pc = "off" /\ revents = {} /\ stop = FALSE
        /\ queue = [p \in Planes |-> <<>>] /\ current = None
        /\ client = [c \in Clients |-> "away"]
        /\ lag = [c \in Clients |-> 0] /\ late = 0
        /\ path = [p \in Planes |-> "none"]
        /\ taken = FALSE /\ fault = {} /\ starts = 0

Start == /\ pc \in Ended /\ starts < MaxStarts
         /\ pc' = UnlinkAt["tool"]
         /\ revents' = {} /\ stop' = FALSE /\ late' = 0
         /\ taken' = FALSE /\ fault' = {} /\ starts' = starts + 1
         /\ UNCHANGED <<queue, current, client, lag, path>>

\* The files that unlink may fail to remove.  Nobody looks at what it returns.
Sticking == IF Faults THEN {p \in Planes : path[p] # "none"} ELSE {}

UnlinkOwn(p) == /\ pc = UnlinkAt[p] /\ pc' = BindAt[p]
                /\ path' = [path EXCEPT ![p] = IF @ = "own" THEN "none" ELSE @]
                /\ UNCHANGED <<revents, stop, queue, current, client, lag, late,
                               taken, fault, starts>>

\* anything_transport_listen removes what is there, be it in use or not, ...
Unlink(p) == /\ pc = UnlinkAt[p] /\ pc' = BindAt[p]
             /\ \E kept \in SUBSET (Sticking \cap {p}) :
                   /\ path' = [path EXCEPT ![p] = IF p \in kept THEN @ ELSE "none"]
                   /\ fault' = fault \cup kept
             /\ UNCHANGED <<revents, stop, queue, current, client, lag, late,
                            taken, starts>>

\* ... binds and listens: from here on clients may connect.
Bind(p) == /\ pc = BindAt[p] /\ path[p] = "none"
           /\ path' = [path EXCEPT ![p] = "own"] /\ fault' = fault \ {p}
           /\ pc' = IF p = "tool" THEN UnlinkAt["admin"] ELSE "check"
           /\ UNCHANGED <<revents, stop, queue, current, client, lag, late,
                          taken, starts>>

\* The kernel closes what the process had open; who was connected notices.
End(label) == /\ pc' = label /\ current' = None
              /\ queue' = [p \in Planes |-> <<>>]
              /\ client' = [c \in Clients |-> CASE client[c] \in {"slow", "sent"} -> "reset"
                                                [] client[c] = "gone" -> "away"
                                                [] OTHER -> client[c]]
              /\ lag' = [c \in Clients |-> 0]
              /\ UNCHANGED <<revents, stop, late>>

\* A socket file without a process behind it.
Orphan(file) == IF file = "own" THEN "stale" ELSE file

\* socket, bind or listen fails; of a file that was bound already nobody takes care.
\* When it is the admin socket's, main removes the tool socket's file.
ListenFails(p) ==
    /\ pc \in {UnlinkAt[p], BindAt[p]}
    /\ Faults \/ (pc = BindAt[p] /\ path[p] # "none")
    /\ \E left \in {path[p]} \cup (IF pc = BindAt[p] /\ path[p] = "none" THEN {"stale"} ELSE {}) :
       \E kept \in SUBSET (Sticking \ {p}) :
          /\ path' = [path EXCEPT ![p] = left,
                                  !["tool"] = CASE p = "tool" -> left
                                                [] "tool" \in kept -> Orphan(@)
                                                [] OTHER -> "none"]
          /\ fault' = fault \cup (kept \cap {"tool"})
                           \cup {q \in {p} : pc = UnlinkAt[p] \/ path[p] = "none"}
    /\ End("failed")
    /\ UNCHANGED <<taken, starts>>

\* g_stop is read here and nowhere else.
CheckWhenIdle == /\ pc = "check" /\ ~(stop /\ \A p \in Planes : queue[p] = <<>>)
                 /\ pc' = "poll"
                 /\ UNCHANGED <<revents, stop, queue, current, client, lag, late, files>>
Check == /\ pc = "check" /\ ~stop
         /\ pc' = "poll"
         /\ UNCHANGED <<revents, stop, queue, current, client, lag, late, files>>

ExitToolOnly == /\ pc = "check" /\ stop
                /\ path' = [path EXCEPT !["tool"] = "none",
                                        !["admin"] = Orphan(@)]
                /\ End("exited")
                /\ UNCHANGED <<taken, fault, starts>>

\* Both sockets are closed and their files removed, whoever they belong to by now.
Exit == /\ pc = "check" /\ stop
        /\ \E kept \in SUBSET Sticking :
              /\ path' = [p \in Planes |-> IF p \in kept THEN Orphan(path[p]) ELSE "none"]
              /\ fault' = fault \cup kept
        /\ End("exited")
        /\ UNCHANGED <<taken, starts>>

\* poll returns what is ready now; with nothing ready it ends after 500 ms, or at
\* once if a signal arrives.
Ready == {p \in Planes : queue[p] # <<>>}

PollKeeps == /\ pc = "poll"
             /\ revents' = revents \cup Ready
             /\ pc' = IF Ready = {} THEN "check" ELSE "tool"
             /\ UNCHANGED <<stop, queue, current, client, lag, late, files>>
Poll == /\ pc = "poll"
        /\ revents' = Ready
        /\ pc' = IF Ready = {} THEN "check" ELSE "tool"
        /\ UNCHANGED <<stop, queue, current, client, lag, late, files>>

\* The tool socket's turn comes first, then the admin socket's, then the next poll.
AfterToolFirst(p) == "check"
After(p) == IF p = "tool" THEN "admin" ELSE "check"

Skip == /\ pc \in Planes \ revents
        /\ pc' = After(pc)
        /\ UNCHANGED <<revents, stop, queue, current, client, lag, late, files>>

\* accept blocks, like both listening sockets, until there is a connection.
AcceptPeeks == /\ pc \in revents /\ queue[pc] # <<>>
               /\ current' = Head(queue[pc])
               /\ lag' = [c \in Clients |-> IF PlaneOf[c] = pc THEN lag[c] - 1 ELSE lag[c] + 1]
               /\ late' = late
               /\ pc' = "read"
               /\ UNCHANGED <<revents, stop, queue, client, files>>
Accept == /\ pc \in revents /\ queue[pc] # <<>>
          /\ current' = Head(queue[pc])
          /\ queue' = [queue EXCEPT ![pc] = Tail(@)]
          /\ lag' = [c \in Clients |-> IF c \notin Waiting(PlaneOf[c])' THEN 0
                                       ELSE IF PlaneOf[c] = pc THEN lag[c] - 1
                                       ELSE lag[c] + 1]
          /\ late' = IF stop /\ late < MaxLate THEN late + 1 ELSE late
          /\ pc' = "read"
          /\ UNCHANGED <<revents, stop, client, files>>

\* anything_transport_read_request has a whole request, or sees the end of one.
ReadRequest == /\ pc = "read" /\ client[current] \in {"sent", "gone"}
               /\ pc' = "write"
               /\ UNCHANGED <<revents, stop, queue, current, client, lag, late, files>>

\* It gives up when deadline_ms are over, whatever trickles in.
DeadlineAtEnd == /\ pc = "read" /\ client[current] = "gone"
                 /\ pc' = "write"
                 /\ UNCHANGED <<revents, stop, queue, current, client, lag, late, files>>
Deadline == /\ pc = "read" /\ client[current] = "slow"
            /\ pc' = "write"
            /\ UNCHANGED <<revents, stop, queue, current, client, lag, late, files>>

\* The answer is written and the connection closed.
Write == /\ pc = "write" /\ client[current] # "gone"
         /\ client' = [client EXCEPT ![current] = "away"]
         /\ current' = None
         /\ pc' = After(PlaneOf[current])
         /\ UNCHANGED <<revents, stop, queue, lag, late, files>>

Dies == /\ path' = [p \in Planes |-> Orphan(path[p])]
        /\ End("dead")
        /\ UNCHANGED <<taken, fault, starts>>

\* write to a socket whose peer has closed raises SIGPIPE, which nobody handles.
BrokenPipe == pc = "write" /\ client[current] = "gone" /\ Dies

Killed == Faults /\ pc \notin Ended /\ Dies

\* on_signal, for SIGINT and SIGTERM
Signal == /\ pc \notin Ended /\ ~stop /\ stop' = TRUE
          /\ UNCHANGED <<pc, revents, queue, current, client, lag, late, files>>

\* Another daemon with the same paths starts or ends: it does what this one does.
OtherDaemon(p) == /\ Faults
                  /\ path' \in {[path EXCEPT ![p] = "other"], [path EXCEPT ![p] = "none"]}
                  /\ taken' = TRUE
                  /\ UNCHANGED <<pc, revents, stop, queue, current, client, lag, late,
                                 fault, starts>>
-----------------------------------------------------------------------------
(* Clients *)

Connect(c) == /\ client[c] \in {"away", "reset"} /\ path[PlaneOf[c]] = "own"
              /\ Len(queue[PlaneOf[c]]) < Backlog
              /\ queue' = [queue EXCEPT ![PlaneOf[c]] = Append(@, c)]
              /\ \E state \in {"slow", "sent"} : client' = [client EXCEPT ![c] = state]
              /\ lag' = [lag EXCEPT ![c] = 0]
              /\ UNCHANGED <<pc, revents, stop, current, late, files>>

Send(c) == /\ client[c] = "slow"
           /\ client' = [client EXCEPT ![c] = "sent"]
           /\ UNCHANGED <<pc, revents, stop, queue, current, lag, late, files>>

Leave(c) == /\ ClientsLeave /\ client[c] \in {"slow", "sent"}
            /\ client' = [client EXCEPT ![c] = "gone"]
            /\ UNCHANGED <<pc, revents, stop, queue, current, lag, late, files>>

Daemon == \/ \E p \in Planes : Unlink(p) \/ Bind(p) \/ ListenFails(p)
          \/ Check \/ Exit \/ Poll \/ Skip \/ Accept \/ ReadRequest \/ Deadline
          \/ Write \/ BrokenPipe

Next == \/ Daemon
        \/ Start \/ Signal \/ Killed
        \/ \E p \in Planes : OtherDaemon(p)
        \/ \E c \in Clients : Connect(c) \/ Send(c) \/ Leave(c)

Spec == Init /\ [][Next]_vars

\* The daemon's process is scheduled and its timeouts expire; clients and signals
\* owe nothing.
FairSpec == Spec /\ WF_vars(Daemon)
-----------------------------------------------------------------------------
(* Properties *)

\* accept never blocks the loop: both listening sockets are blocking, and what poll
\* reported before the tool connection was served is used after it
\* (anythingd.c:327-336).
AcceptNeverBlocks == pc \in revents => queue[pc] # <<>>

\* Neither plane starves the other: while a client waits, at most two more tool
\* connections than admin connections are accepted, and at most one more admin
\* connection than tool connections (the order of the two ifs, anythingd.c:331-336).
NoPlaneStarves ==
    \A p \in Planes : \A c \in Waiting(p) : lag[c] <= IF p = "admin" THEN 2 ELSE 1

\* After a signal at most the rest of the round in progress is served: one
\* connection per plane (while (!g_stop), anythingd.c:322).
StopIsPrompt == late <= 2

\* A slow client cannot block the ones behind it: who waits on either socket, and
\* stays, is answered, unless the daemon was told to stop (the deadline of
\* anything_transport_read_request).
WaitingIsServed ==
    \A c \in Clients : (\E p \in Planes : c \in Waiting(p)) ~>
        (client[c] \in {"away", "gone"} \/ pc = "exited")

\* Nobody hangs: who waits on either socket is answered or, when the process ends,
\* reset; also who connected to the tool socket while the admin socket could not be
\* set up (anythingd.c:309-318), and who waits at a daemon whose socket files another
\* one has taken.
NobodyHangs ==
    \A c \in Clients : (\E p \in Planes : c \in Waiting(p)) ~>
        (client[c] \in {"away", "gone", "reset"})

\* A daemon that is told to stop comes to its end, however many clients keep coming.
StopCompletes == stop ~> pc \in Ended

\* A start never fails for what earlier daemons left in the file system, crashed ones
\* included, only when a system call fails - be it unlink, whose failure shows at the
\* bind - or another daemon is in between the unlink and the bind (transport.c:20-33).
StartFailsOnlyByFault == pc = "failed" => fault # {} \/ taken

\* While it serves, both paths lead to the daemon unless another one has taken them,
\* whatever unlink did; and after an orderly end neither leads to a dead socket but
\* one whose own unlink failed (transport.c:20, anythingd.c:339-342).
PathsLeadHere == /\ Serving /\ ~taken => \A p \in Planes : path[p] = "own"
                 /\ pc = "exited" => \A p \in Planes \ fault : path[p] # "stale"
=============================================================================
