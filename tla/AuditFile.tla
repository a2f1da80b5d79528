------------------------------ MODULE AuditFile ------------------------------
(***************************************************************************)
(* The audit log as a file (anything_audit_write_event in audit.c).  An    *)
(* event is opened, written in two or three fragments of one line, the     *)
(* last of which ends it, and closed.  Each of these may fail, a fragment  *)
(* may be cut short, and the process may die in between; the next event    *)
(* is appended to whatever is there.                                       *)
(***************************************************************************)
EXTENDS Integers, Sequences, FiniteSets

CONSTANTS MaxEvents,      \* bound: the events of one history
          WithApprover    \* those that name an approver

ASSUME AuditFileAssumption == MaxEvents \in Nat /\ WithApprover \subseteq 1..MaxEvents

VARIABLES file,     \* the fragments in the file
          pc,       \* the fragment to write next, "close", or "idle"
          event,    \* the number of the event being written
          failed,   \* the code's variable of that name
          acked,    \* history: the events reported as written
          lost      \* history: the events reported as failed, or cut by a crash

vars == <<file, pc, event, failed, acked, lost>>

Parts == {"head", "approver", "tail"}
Fragment(n, part, whole) == [event |-> n, part |-> part, whole |-> whole]

\* The line of event n as it should be.
Line(n) == IF n \in WithApprover
           THEN <<Fragment(n, "head", TRUE), Fragment(n, "approver", TRUE),
                  Fragment(n, "tail", TRUE)>>
           ELSE <<Fragment(n, "head", TRUE), Fragment(n, "tail", TRUE)>>

\* Every event so far was reported, one way, and none takes more than its line.
TypeOK == /\ file \in Seq([event : 1..MaxEvents, part : Parts, whole : BOOLEAN])
          /\ Len(file) <= 3 * event
          /\ pc \in Parts \cup {"close", "idle"}
          /\ event \in 0..MaxEvents /\ failed \in BOOLEAN
          /\ acked \cap lost = {}
          /\ acked \cup lost = 1..(IF pc = "idle" THEN event ELSE event - 1)
-----------------------------------------------------------------------------
Init == /\ file = <<>> /\ pc = "idle" /\ event = 0 /\ failed = FALSE
        /\ acked = {} /\ lost = {}

\* open_audit_fd, then the escapes, which write nothing.
Open == /\ pc = "idle" /\ event < MaxEvents
        /\ event' = event + 1
        /\ pc' = "head" /\ failed' = FALSE
        /\ UNCHANGED <<file, acked, lost>>

OpenFails == /\ pc = "idle" /\ event < MaxEvents
             /\ event' = event + 1
             /\ lost' = lost \cup {event + 1}
             /\ UNCHANGED <<file, pc, failed, acked>>

After(part) == IF part = "head" /\ event \in WithApprover THEN "approver"
               ELSE IF part = "tail" THEN "close"
               ELSE "tail"

\* O_APPEND
WriteFragment == /\ pc \in Parts
                 /\ file' = Append(file, Fragment(event, pc, TRUE))
                 /\ pc' = After(pc)
                 /\ UNCHANGED <<event, failed, acked, lost>>

\* A failed dprintf may have written a part; no other fragment is tried.
WriteUnchecked == /\ pc \in Parts
                  /\ file' \in {file, Append(file, Fragment(event, pc, FALSE))}
                  /\ failed' = (pc # "approver")
                  /\ pc' = IF pc = "approver" THEN "tail" ELSE "close"
                  /\ UNCHANGED <<event, acked, lost>>
WriteFails == /\ pc \in Parts
              /\ file' \in {file, Append(file, Fragment(event, pc, FALSE))}
              /\ failed' = TRUE
              /\ pc' = "close"
              /\ UNCHANGED <<event, acked, lost>>

SucceedsAlways == TRUE
Succeeds == ~failed

\* close and the return value
Close == /\ pc = "close" /\ pc' = "idle"
         /\ IF Succeeds THEN acked' = acked \cup {event} /\ UNCHANGED lost
                        ELSE lost' = lost \cup {event} /\ UNCHANGED acked
         /\ UNCHANGED <<file, event, failed>>

\* close fails, or the process dies before it is there.
Abandon == /\ pc # "idle" /\ pc' = "idle"
           /\ lost' = lost \cup {event}
           /\ UNCHANGED <<file, event, failed, acked>>

Next == Open \/ OpenFails \/ WriteFragment \/ WriteFails \/ Close \/ Abandon

Spec == Init /\ [][Next]_vars
-----------------------------------------------------------------------------
(* Properties *)

Ends(i) == file[i].part = "tail" /\ file[i].whole

\* The lines a reader of the file sees, as <<first, last>> fragment.
Lines == {l \in (DOMAIN file) \X (DOMAIN file) :
             /\ l[1] <= l[2]
             /\ l[1] = 1 \/ Ends(l[1] - 1)
             /\ \A i \in l[1]..l[2] : Ends(i) <=> i = l[2]}
Text(l) == SubSeq(file, l[1], l[2])

\* An event that was reported as written is in the file from its first character to
\* the end of its line, without a gap, and stays there: what checked_audit relies on
\* before the daemon goes on (anythingd.c:36-39).
AcknowledgedIsWritten ==
    \A n \in acked : \E l \in (DOMAIN file) \X (DOMAIN file) : Text(l) = Line(n)

\* A failed write spoils one line at most, be it its own or the next event's
\* (three dprintf calls to one line, audit.c:143-155).
DamageIsBounded ==
    Cardinality({l \in Lines : \A n \in 1..MaxEvents : Text(l) # Line(n)})
        <= Cardinality(lost)
=============================================================================
