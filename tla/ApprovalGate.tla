---------------------------- MODULE ApprovalGate ----------------------------
(***************************************************************************)
(* What per-call approval promises, without sockets, files or a store of   *)
(* bounded size.  Every tool request gets a ticket.  A ticket passes a     *)
(* gate: it waits, somebody other than its owner who is on the approvers'  *)
(* team opens it before its deadline, it is admitted before its deadline,  *)
(* and it runs, once.  Anythingd is shown to implement this module.         *)
(***************************************************************************)
EXTENDS Integers

CONSTANTS Tickets,      \* names of requests, never reused
          Identities,   \* who may ask and who may approve
          Nobody        \* stands for "no owner"

VARIABLES gate,         \* each ticket's owner, deadline and state: "none", "waiting",
                        \* "open", "admitted", "closed" or "void"
          team,         \* the identities that may approve
          ran,          \* the tickets whose tool has run
          clock         \* the wall clock, which may be set back

vars == <<gate, team, ran, clock>>

\* A ticket that has no owner: not yet issued, or forgotten.
Blank(state) == [state |-> state, owner |-> Nobody, deadline |-> 0]

\* The ticket t moves from one of the states in from to the state to.
Move(t, from, to) == /\ gate[t].state \in from
                     /\ gate' = [gate EXCEPT ![t].state = to]
-----------------------------------------------------------------------------
Init == /\ gate = [t \in Tickets |-> Blank("none")]
        /\ team \in SUBSET Identities
        /\ ran = {}
        /\ clock \in Int

\* The deadline is the implementation's choice.
Request(t, who) ==
    /\ gate[t].state = "none"
    /\ gate'[t].deadline \in Int
    /\ gate' = [gate EXCEPT ![t] = [state |-> "waiting", owner |-> who,
                                    deadline |-> gate'[t].deadline]]
    /\ UNCHANGED <<team, ran, clock>>

Open(t, who) == /\ who \in team \ {gate[t].owner}
                /\ clock <= gate[t].deadline
                /\ Move(t, {"waiting"}, "open")
                /\ UNCHANGED <<team, ran, clock>>

Admit(t) == /\ clock <= gate[t].deadline
            /\ Move(t, {"open"}, "admitted")
            /\ UNCHANGED <<team, ran, clock>>

\* The admission came to nothing; the ticket may be admitted again.
Abort(t) == /\ Move(t, {"admitted"}, "open")
            /\ UNCHANGED <<team, ran, clock>>

Run(t) == /\ t \notin ran
          /\ Move(t, {"admitted"}, "closed")
          /\ ran' = ran \cup {t}
          /\ UNCHANGED <<team, clock>>

\* A ticket can be closed, even one that was closed before, by a team
\* member other than its owner, unless it is being run.
Close(t, who) == /\ who \in team \ {gate[t].owner}
                 /\ Move(t, {"waiting", "open", "closed"}, "closed")
                 /\ UNCHANGED <<team, ran, clock>>

\* All tickets in circulation lose their value at once, and for good.
Forget == /\ gate' = [t \in Tickets |-> IF gate[t].state = "none"
                                          THEN gate[t] ELSE Blank("void")]
          /\ UNCHANGED <<team, ran, clock>>

\* The team changes only while no ticket is in circulation.
Reform == /\ \A t \in Tickets : gate[t].state \in {"none", "void"}
          /\ team' \in SUBSET Identities
          /\ UNCHANGED <<gate, ran, clock>>

Tick == /\ clock' \in Int
        /\ UNCHANGED <<gate, team, ran>>

Next == \/ \E t \in Tickets :
             \/ \E who \in Identities : \/ Request(t, who)
                                        \/ Open(t, who)
                                        \/ Close(t, who)
             \/ Admit(t) \/ Abort(t) \/ Run(t)
        \/ Forget
        \/ Reform
        \/ Tick

Spec == Init /\ [][Next]_vars
=============================================================================
