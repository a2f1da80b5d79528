----------------------------- MODULE ReadRequest -----------------------------
(***************************************************************************)
(* One call of anything_transport_read_request (transport.c): the daemon   *)
(* collects bytes from a client until there is a newline, the client has   *)
(* closed, the buffer is full or time is up.                               *)
(*                                                                         *)
(* Time is what a client can take from the daemon: it passes while the     *)
(* daemon is blocked in read().  The daemon's own steps take none.         *)
(***************************************************************************)
EXTENDS Integers, Sequences

CONSTANTS MaxBytes,      \* limits.max_request_bytes
          Deadline,      \* limits.read_timeout_ms: the deadline and SO_RCVTIMEO
          MaxSent,       \* bound: how many bytes the client sends
          MaxInterrupts  \* bound: how often a signal interrupts read()

\* config.c:118-124; a timeout of zero would make read() wait for ever.
ASSUME LimitsAssumption == /\ MaxBytes \in Nat \ {0} /\ Deadline \in Nat \ {0}
                           /\ MaxSent \in Nat /\ MaxInterrupts \in Nat

VARIABLES pc,          \* "check", "read", "final", "accepted" or "refused"
          clock,       \* time since the call
          reading,     \* when the read() in progress was called
          buffer,      \* buffer[0 .. total - 1]
          socket,      \* what has arrived and was not read
          client,      \* "open" or "closed": the writing end
          sent,        \* history: all that the client has written
          interrupts   \* history: number of interrupted reads

vars == <<pc, clock, reading, buffer, socket, client, sent, interrupts>>

Bytes == {"x", "newline"}
HasLine(bytes) == \E i \in DOMAIN bytes : bytes[i] = "newline"
Ended == pc \in {"accepted", "refused"}

\* One byte of room is left for the NUL: calloc(1, max_request_bytes + 1).
TypeOK == /\ pc \in {"check", "read", "final", "accepted", "refused"}
          /\ clock \in Nat /\ reading \in Nat
          /\ buffer \in Seq(Bytes) /\ Len(buffer) <= MaxBytes
          /\ socket \in Seq(Bytes) /\ sent \in Seq(Bytes)
          /\ client \in {"open", "closed"} /\ interrupts \in Nat
-----------------------------------------------------------------------------
(* The daemon *)

Init == /\ pc = "check" /\ clock = 0 /\ reading = 0 /\ interrupts = 0
        /\ buffer = <<>> /\ socket = <<>> /\ client = "open" /\ sent = <<>>

CheckRoomOnly == /\ pc = "check"
                 /\ pc' = IF Len(buffer) < MaxBytes THEN "read" ELSE "final"
                 /\ reading' = clock
                 /\ UNCHANGED <<clock, buffer, socket, client, sent, interrupts>>

\* The head of the loop.
Check == /\ pc = "check"
         /\ pc' = IF Len(buffer) >= MaxBytes THEN "final"
                  ELSE IF clock > Deadline THEN "refused" ELSE "read"
         /\ reading' = clock
         /\ UNCHANGED <<clock, buffer, socket, client, sent, interrupts>>

ReadTooMuch == /\ pc = "read" /\ socket # <<>>
               /\ buffer' = buffer \o socket
               /\ socket' = <<>>
               /\ pc' = IF HasLine(buffer') THEN "final" ELSE "check"
               /\ UNCHANGED <<clock, reading, client, sent, interrupts>>

\* read() returns some of what is there, no more than there is room for.
Read == /\ pc = "read" /\ socket # <<>>
        /\ \E n \in 1..Len(socket) :
             /\ Len(buffer) + n <= MaxBytes
             /\ buffer' = buffer \o SubSeq(socket, 1, n)
             /\ socket' = SubSeq(socket, n + 1, Len(socket))
        /\ pc' = IF HasLine(buffer') THEN "final" ELSE "check"
        /\ UNCHANGED <<clock, reading, client, sent, interrupts>>

\* read() returns 0.
EndOfFile == /\ pc = "read" /\ socket = <<>> /\ client = "closed"
             /\ pc' = "final"
             /\ UNCHANGED <<clock, reading, buffer, socket, client, sent, interrupts>>

TimedOutNever == FALSE /\ UNCHANGED vars

\* read() fails with EAGAIN when SO_RCVTIMEO has passed.
TimedOut == /\ pc = "read" /\ socket = <<>> /\ client = "open"
            /\ clock >= reading + Deadline
            /\ pc' = "refused"
            /\ UNCHANGED <<clock, reading, buffer, socket, client, sent, interrupts>>

InterruptedRefuses == /\ pc = "read" /\ socket = <<>> /\ interrupts < MaxInterrupts
                      /\ pc' = "refused" /\ interrupts' = interrupts + 1
                      /\ UNCHANGED <<clock, reading, buffer, socket, client, sent>>

InterruptedEnds == /\ pc = "read" /\ socket = <<>> /\ interrupts < MaxInterrupts
                   /\ pc' = "final" /\ interrupts' = interrupts + 1
                   /\ UNCHANGED <<clock, reading, buffer, socket, client, sent>>

\* read() fails with EINTR: around again, with a new timeout.
Interrupted == /\ pc = "read" /\ socket = <<>> /\ interrupts < MaxInterrupts
               /\ pc' = "check" /\ interrupts' = interrupts + 1
               /\ UNCHANGED <<clock, reading, buffer, socket, client, sent>>

\* What follows the loop.
Final == /\ pc = "final"
         /\ pc' = IF clock > Deadline \/ Len(buffer) >= MaxBytes
                  THEN "refused" ELSE "accepted"
         /\ UNCHANGED <<clock, reading, buffer, socket, client, sent, interrupts>>
-----------------------------------------------------------------------------
(* The client, and time *)

Send == /\ client = "open" /\ ~Ended /\ Len(sent) < MaxSent
        /\ \E b \in Bytes : socket' = Append(socket, b) /\ sent' = Append(sent, b)
        /\ UNCHANGED <<pc, clock, reading, buffer, client, interrupts>>

Shut == /\ client = "open" /\ ~Ended
        /\ client' = "closed"
        /\ UNCHANGED <<pc, clock, reading, buffer, socket, sent, interrupts>>

Tick == /\ pc = "read" /\ socket = <<>> /\ client = "open"
        /\ clock < reading + Deadline
        /\ clock' = clock + 1
        /\ UNCHANGED <<pc, reading, buffer, socket, client, sent, interrupts>>

Daemon == Check \/ Read \/ EndOfFile \/ TimedOut \/ Interrupted \/ Final

Next == Daemon \/ Send \/ Shut \/ Tick

\* The daemon is scheduled and time passes; nothing is asked of the client.
Spec == Init /\ [][Next]_vars /\ WF_vars(Daemon) /\ WF_vars(Tick)
-----------------------------------------------------------------------------
(* Properties *)

\* No client keeps the daemon from everybody else for longer than twice the
\* deadline, however it spreads its bytes: the deadline is looked at before each
\* read() (transport.c:81), and that read() waits once more.
HoldIsBounded == clock <= 2 * Deadline

\* What a handler gets is what the client sent, from its first byte, in time, with
\* room for the NUL, and all of it or a whole line at least: neither an interrupted
\* nor a short read() passes for the end of the request.
AcceptedIsComplete ==
    pc = "accepted" =>
        /\ buffer \o socket = sent
        /\ clock <= Deadline /\ Len(buffer) < MaxBytes
        /\ HasLine(buffer) \/ (client = "closed" /\ buffer = sent)

\* A client is turned away only for filling the buffer, for being late, or for
\* being silent for the whole of the deadline; one whose line was short and in time
\* is not, whatever signals arrive.
RefusalIsJustified ==
    pc = "refused" => \/ Len(buffer) = MaxBytes
                      \/ clock > Deadline
                      \/ clock = Deadline /\ client = "open" /\ ~HasLine(sent)

\* The call returns, also on a client that sends nothing and does not close.
Returns == <>Ended
=============================================================================
