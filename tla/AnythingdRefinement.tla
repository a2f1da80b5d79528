------------------------- MODULE AnythingdRefinement -------------------------
(***************************************************************************)
(* Anythingd implements ApprovalGate: every step of the daemon is, under   *)
(* the mapping TicketGate, a step of the abstract specification or none.   *)
(***************************************************************************)
EXTENDS AnythingdProofs

\* The abstract state of all tickets.
G == [t \in Tickets |-> TicketGate(t)]
Ran == {t \in Tickets : runs[t] > 0}
Team == {i \in Identities : IsAdmin(config, i)}

\* Tickets are issued with their entries, in this run of the daemon or an earlier one.
Issued == /\ \A t \in issued : t.boot <= boot
          /\ \A t \in issued : t.boot = boot /\ pc # "down" => t.id <= Len(pending)
          /\ \A i \in 1..Len(pending) : [boot |-> boot, id |-> i] \in issued
          /\ pc = "down" => pending = <<>>

RInv == IInv /\ Issued

\* The handler holds an entry admitted at these two stops.
Holding == pc \in {"execution_started", "run"}
-----------------------------------------------------------------------------
LEMMA EntryTicket ==
    ASSUME IInv, NEW i \in DOMAIN pending
    PROVE  /\ Ticket(i) = [boot |-> boot, id |-> i] /\ Ticket(i) \in Tickets
           /\ pending[i] \in Entries
           /\ G[Ticket(i)].state = GateState(i)
           /\ G[Ticket(i)].owner = pending[i].requester
           /\ G[Ticket(i)].deadline = pending[i].expires
           /\ G[Ticket(i)] = [state |-> GateState(i), owner |-> pending[i].requester,
                              deadline |-> pending[i].expires]
<1>1. pending[i] \in Entries /\ i \in 1..Len(pending) /\ pending[i].id = i
  BY DEF IInv, TypeOK, Numbered
<1>2. Ticket(i) = [boot |-> boot, id |-> i]
  BY <1>1 DEF Ticket
<1>3. Ticket(i) \in Tickets
  BY <1>1, <1>2, ConstantsAssumption DEF IInv, TypeOK, Tickets
<1> QED
  BY <1>1, <1>2, <1>3 DEF G, TicketGate

\* Nothing about tickets changes while the store stands still and the handler neither
\* takes nor leaves an entry.
LEMMA StutterStep ==
    ASSUME UNCHANGED <<store, boot, issued, config, now, runs>>,
           Holding \/ Holding' => UNCHANGED slot /\ Holding /\ Holding'
    PROVE  UNCHANGED <<G, Team, Ran, now>>
<1>1. \A i : Held(i)' <=> Held(i)
  BY DEF Held, Holding
<1>2. \A i : GateState(i)' = GateState(i)
  BY <1>1 DEF GateState, store
<1>3. \A t : TicketGate(t)' = TicketGate(t)
  BY <1>2 DEF TicketGate, store
<1> QED
  BY <1>3 DEF G, Team, Ran, IsAdmin

\* One entry changes its state, or is taken or left by the handler.
LEMMA EntryStep ==
    ASSUME IInv, NEW i \in DOMAIN pending, NEW to,
           boot' = boot, issued' = issued, Len(pending') = Len(pending),
           pending' \in Seq(Entries),
           \A j \in DOMAIN pending : j # i =>
               pending'[j] = pending[j] /\ ~Held(j) /\ ~Held(j)',
           pending'[i].requester = pending[i].requester,
           pending'[i].expires = pending[i].expires,
           GateState(i)' = to
    PROVE  G' = [G EXCEPT ![Ticket(i)].state = to]
<1>1. Ticket(i) = [boot |-> boot, id |-> i] /\ Ticket(i) \in Tickets
      /\ G[Ticket(i)] = [state |-> GateState(i), owner |-> pending[i].requester,
                         deadline |-> pending[i].expires]
  BY EntryTicket
<1>2. DOMAIN pending' = DOMAIN pending /\ pending \in Seq(Entries)
  BY DEF IInv, TypeOK
<1>3. ASSUME NEW t \in Tickets, t = Ticket(i)
      PROVE  TicketGate(t)' = [G[t] EXCEPT !.state = to]
  <2>1. t.boot = boot /\ t.id = i
    BY <1>1, <1>3
  <2>2. TicketGate(t)' = [state |-> to, owner |-> pending[i].requester,
                          deadline |-> pending[i].expires]
    BY <1>2, <2>1 DEF TicketGate
  <2>3. G[t] = [state |-> GateState(i), owner |-> pending[i].requester,
                deadline |-> pending[i].expires]
    BY <1>1, <1>3, Zenon
  <2>4. [G[t] EXCEPT !.state = to] = [state |-> to, owner |-> pending[i].requester,
                                      deadline |-> pending[i].expires]
    BY <2>3
  <2> QED
    BY <2>2, <2>4
<1>4. ASSUME NEW t \in Tickets, t # Ticket(i)
      PROVE  TicketGate(t)' = TicketGate(t)
  <2>1. t = [boot |-> t.boot, id |-> t.id]
    BY DEF Tickets
  <2>2. CASE t.boot = boot /\ t.id \in DOMAIN pending
    <3>1. t.id # i
      BY <1>1, <1>4, <2>1, <2>2
    <3>2. GateState(t.id)' = GateState(t.id)
      BY <2>2, <3>1 DEF GateState
    <3> QED
      BY <1>2, <2>2, <3>1, <3>2 DEF TicketGate
  <2>3. CASE ~(t.boot = boot /\ t.id \in DOMAIN pending)
    BY <1>2, <2>3 DEF TicketGate
  <2> QED
    BY <2>2, <2>3
<1>5. ASSUME NEW t \in Tickets
      PROVE  G'[t] = [G EXCEPT ![Ticket(i)].state = to][t]
  BY <1>1, <1>3, <1>4, <1>5 DEF G
<1>6. G' = [t \in Tickets |-> G'[t]] /\ G = [t \in Tickets |-> G[t]]
  BY DEF G
<1> QED
  BY <1>5, <1>6

\* Tickets name a run of the daemon and an entry by number.
LEMMA IssuedTickets ==
    ASSUME IInv
    PROVE  boot \in Int /\ \A t \in issued : t.boot \in Int /\ t.id \in Nat
<1>1. MaxBoots \in Int /\ MaxPending \in Int
  BY ConstantsAssumption
<1>2. boot \in 1..MaxBoots /\ issued \subseteq Tickets
  BY DEF IInv, TypeOK
<1> QED
  BY <1>1, <1>2 DEF Tickets

LEMMA NextIssued == IInv /\ Issued /\ [Next]_vars => Issued'
<1> SUFFICES ASSUME IInv, Issued, [Next]_vars PROVE Issued'
  OBVIOUS
<1> USE DEF Issued
<1>1. CASE UNCHANGED vars
  BY <1>1 DEF vars, store, job, history
<1>2. ASSUME NEW who \in Identities,
             \/ BadRequest(who) \/ NotAdmin(who) \/ AdminMisuse(who) \/ AdminList(who)
             \/ \E c \in Calls : ToolRequest(who, c)
             \/ \E t \in issued : \/ AdminNotFound(who, t) \/ AdminRefused(who, t)
                                 \/ AdminExecute(who, t)
      PROVE  Issued'
  BY <1>2 DEF BadRequest, NotAdmin, AdminMisuse, AdminList, ToolRequest, AdminNotFound,
              AdminRefused, AdminExecute, Admin, Accept, Answer, Goto, store, history
<1>3. CASE \/ RouteDenied \/ RouteFull \/ RunToolFails \/ Reply \/ ClockChanges
           \/ LogReceived \/ LogDenied \/ LogRequired \/ LogGranted \/ LogRejected
           \/ LogStarted \/ LogFinished \/ LogFailed \/ AuditFails
  BY <1>3 DEF RouteDenied, RouteFull, RunToolFails, Reply, ClockChanges, LogReceived, LogDenied,
              LogRequired, LogGranted, LogRejected, LogStarted, LogFinished, LogFailed,
              AuditFails, Log, Answer, Goto, store, job, history, Events, AdminEvents
<1>4. CASE AddPending
  <2>1. /\ Len(pending') = Len(pending) + 1 /\ next_id = Len(pending) + 1
        /\ issued' = issued \cup {[boot |-> boot, id |-> next_id]}
        /\ boot' = boot /\ pc = "route" /\ pc' = "approval_required" /\ boot \in Nat
        /\ Len(pending) \in Nat
    BY <1>4, ConstantsAssumption DEF AddPending, Goto, IInv, TypeOK, Numbered
  <2>2. \A t \in issued' : t \in issued \/ (t.boot = boot /\ t.id = Len(pending) + 1)
    BY <2>1
  <2>3. /\ \A t \in issued' : t.boot <= boot'
        /\ \A t \in issued' : t.boot = boot' => t.id <= Len(pending')
    <3>1. \A t \in issued : t.id \in Nat
      BY IssuedTickets
    <3> QED
      BY <2>1, <2>2, <3>1
  <2> QED
    BY <2>1, <2>3
<1>5. ASSUME NEW who \in Identities, NEW t \in issued, AdminApprove(who, t) \/ AdminReject(who, t)
      PROVE  Issued'
  <2>1. PICK i \in Find(t.id), status \in {"granted", "rejected"} : Decide(who, i, status)
    BY <1>5 DEF AdminApprove, AdminReject
  <2>2. i \in DOMAIN pending /\ pending \in Seq(Entries)
    BY DEF Find, IInv, TypeOK
  <2>3. Len(pending') = Len(pending)
    BY <2>1, <2>2, DecideEntry
  <2> QED
    BY <1>5, <2>3 DEF AdminApprove, AdminReject, Admin, Accept, Goto, history
<1>6. CASE RunTool
  <2>1. Len(pending') = Len(pending)
    BY <1>6 DEF RunTool, IInv, TypeOK
  <2> QED
    BY <1>6, <2>1 DEF RunTool, Goto
<1>7. CASE Stop
  BY <1>7 DEF Stop, EndJob, history
<1>8. CASE Start
  <2>1. \A t \in issued : t.boot # boot + 1 /\ t.boot <= boot + 1
    BY IssuedTickets
  <2> QED
    BY <1>8, <2>1 DEF Start
<1> QED
  BY <1>1, <1>2, <1>3, <1>4, <1>5, <1>6, <1>7, <1>8 DEF Next
-----------------------------------------------------------------------------
\* The parts of the abstract state are the ones named here.
LEMMA GateVars == UNCHANGED <<G, Team, Ran, now>> => UNCHANGED Gate!vars
BY DEF Gate!vars, G, Team, Ran

LEMMA InitGate == Init => Issued /\ Gate!Init
<1> SUFFICES ASSUME Init PROVE Issued /\ Gate!Init
  OBVIOUS
<1>1. Issued
  BY ConstantsAssumption DEF Init, Issued
<1>2. \A t \in Tickets : TicketGate(t) = Gate!Blank("none")
  BY DEF Init, TicketGate, Gate!Blank
<1>3. {t \in Tickets : runs[t] > 0} = {}
  BY DEF Init
<1> QED
  BY <1>1, <1>2, <1>3 DEF Init, Gate!Init

LEMMA QuietGate ==
    ASSUME UNCHANGED <<store, boot, issued, config, now, runs>>,
           Holding \/ Holding' => UNCHANGED slot /\ Holding /\ Holding'
    PROVE  [Gate!Next]_(Gate!vars)
BY StutterStep, GateVars

\* Deciding about an entry moves its ticket and no other.
LEMMA DecideMoves ==
    ASSUME IInv, NEW who \in Identities, NEW i \in DOMAIN pending,
           NEW status \in {"granted", "rejected"}, Decide(who, i, status),
           UNCHANGED <<boot, issued>>, pc = "idle",
           pc' \in {"approval_granted", "approval_rejected"}
    PROVE  G' = [G EXCEPT ![Ticket(i)].state = IF status = "granted" THEN "open" ELSE "closed"]
<1> DEFINE to == IF status = "granted" THEN "open" ELSE "closed"
<1>1. pending \in Seq(Entries)
  BY DEF IInv, TypeOK
<1>2. /\ pending' \in Seq(Entries) /\ Len(pending') = Len(pending)
      /\ \A j \in DOMAIN pending : j # i => pending'[j] = pending[j]
      /\ pending'[i].status = status
      /\ pending'[i].requester = pending[i].requester
      /\ pending'[i].expires = pending[i].expires
  BY <1>1, DecideEntry
<1>3. \A j : ~Held(j) /\ ~Held(j)'
  BY DEF Held
<1>4. GateState(i)' = to
  BY <1>2, <1>3 DEF GateState
<1> QED
  BY <1>2, <1>3, <1>4, EntryStep

\* Approving opens the ticket.
LEMMA ApproveOpens ==
    ASSUME IInv, NEW who \in Identities, NEW t \in issued, AdminApprove(who, t)
    PROVE  Gate!Next
<1>1. PICK i \in Find(t.id) : GrantError(pending[i], who) = "none"
                              /\ Decide(who, i, "granted")
  BY DEF AdminApprove
<1>2. i \in DOMAIN pending /\ pending[i] \in Entries
  BY DEF Find, IInv, TypeOK
<1>3. pc = "idle" /\ pc' = "approval_granted" /\ IsAdmin(config, who)
      /\ UNCHANGED <<boot, issued, config, now, runs>>
  BY DEF AdminApprove, Admin, Accept, Goto
<1>4. pending[i].status = "pending" /\ ~(now > pending[i].expires)
      /\ pending[i].requester # who
  BY <1>1 DEF GrantError
<1>5. G' = [G EXCEPT ![Ticket(i)].state = "open"]
  BY <1>1, <1>2, <1>3, DecideMoves
<1>6. /\ G[Ticket(i)].state = "waiting"
      /\ G[Ticket(i)].owner # who
      /\ now <= G[Ticket(i)].deadline
  <2>1. GateState(i) = "waiting"
    BY <1>3, <1>4 DEF GateState, Held
  <2>2. now \in Int /\ pending[i].expires \in Int
    BY <1>2 DEF IInv, TypeOK, Entries
  <2>3. /\ G[Ticket(i)].state = GateState(i)
        /\ G[Ticket(i)].owner = pending[i].requester
        /\ G[Ticket(i)].deadline = pending[i].expires
    BY <1>2, EntryTicket
  <2> QED
    BY <1>4, <2>1, <2>2, <2>3
<1>7. Gate!Open(Ticket(i), who)
  BY <1>3, <1>5, <1>6 DEF Gate!Open, Gate!Move, G, IsAdmin
<1> QED
  BY <1>2, <1>7, EntryTicket DEF Gate!Next

\* Rejecting closes it, whatever became of it before.
LEMMA RejectCloses ==
    ASSUME IInv, NEW who \in Identities, NEW t \in issued, AdminReject(who, t)
    PROVE  Gate!Next
<1>1. PICK i \in Find(t.id) : RejectError(pending[i], who) = "none"
                              /\ Decide(who, i, "rejected")
  BY DEF AdminReject
<1>2. i \in DOMAIN pending /\ pending[i] \in Entries
  BY DEF Find, IInv, TypeOK
<1>3. pc = "idle" /\ pc' = "approval_rejected" /\ IsAdmin(config, who)
      /\ UNCHANGED <<boot, issued, config, now, runs>>
  BY DEF AdminReject, Admin, Accept, Goto, history
<1>4. pending[i].requester # who
  BY <1>1 DEF RejectError
<1>5. G' = [G EXCEPT ![Ticket(i)].state = "closed"]
  BY <1>1, <1>2, <1>3, DecideMoves
<1>6. /\ G[Ticket(i)].state \in {"waiting", "open", "closed"}
      /\ G[Ticket(i)].owner # who
  <2>1. GateState(i) \in {"waiting", "open", "closed"}
    BY <1>2, <1>3 DEF GateState, Held, Entries
  <2> QED
    BY <1>2, <1>4, <2>1, EntryTicket
<1>7. Gate!Close(Ticket(i), who)
  BY <1>3, <1>5, <1>6 DEF Gate!Close, Gate!Move, G, IsAdmin
<1> QED
  BY <1>2, <1>7, EntryTicket DEF Gate!Next

\* The handler takes an entry: its ticket is admitted.
LEMMA ExecuteAdmits ==
    ASSUME IInv, NEW who \in Identities, NEW t \in issued, AdminExecute(who, t)
    PROVE  Gate!Next
<1>1. PICK i \in Find(t.id) : ExecuteError(pending[i]) = "none" /\ slot' = i
  BY DEF AdminExecute
<1>2. i \in DOMAIN pending /\ pending[i] \in Entries
  BY DEF Find, IInv, TypeOK
<1>3. pc = "idle" /\ pc' = "execution_started"
      /\ UNCHANGED <<store, boot, issued, config, now, runs>>
  BY DEF AdminExecute, Admin, Accept, Goto, history
<1>4. pending[i].status = "granted" /\ ~(now > pending[i].expires)
  BY <1>1, <1>2 DEF ExecuteError, Entries
<1>5. G' = [G EXCEPT ![Ticket(i)].state = "admitted"]
  <2>1. \A j : ~Held(j) /\ (Held(j)' <=> j = i)
    BY <1>1, <1>3 DEF Held
  <2>2. GateState(i)' = "admitted"
    BY <2>1 DEF GateState
  <2>3. pending' = pending /\ pending \in Seq(Entries)
    BY <1>3 DEF store, IInv, TypeOK
  <2> QED
    BY <1>2, <1>3, <2>1, <2>2, <2>3, EntryStep
<1>6. G[Ticket(i)].state = "open" /\ now <= G[Ticket(i)].deadline
  <2>1. GateState(i) = "open"
    BY <1>3, <1>4 DEF GateState, Held
  <2>2. now \in Int /\ pending[i].expires \in Int
    BY <1>2 DEF IInv, TypeOK, Entries
  <2>3. /\ G[Ticket(i)].state = GateState(i)
        /\ G[Ticket(i)].owner = pending[i].requester
        /\ G[Ticket(i)].deadline = pending[i].expires
    BY <1>2, EntryTicket
  <2> QED
    BY <1>4, <2>1, <2>2, <2>3
<1>7. Gate!Admit(Ticket(i))
  BY <1>3, <1>5, <1>6 DEF Gate!Admit, Gate!Move, G, IsAdmin
<1> QED
  BY <1>2, <1>7, EntryTicket DEF Gate!Next

\* The handler leaves an entry it had taken without running it: the tool failed, or
\* execution_started could not be written.
LEMMA LeavingAborts ==
    ASSUME IInv, pc \in {"execution_started", "run"}, ~Holding',
           UNCHANGED <<store, boot, issued, config, now, runs, slot>>
    PROVE  Gate!Next
<1>1. slot \in DOMAIN pending /\ pending \in Seq(Entries) /\ pending[slot].status = "granted"
  BY DEF IInv, TypeOK, Serving, AdminEvents
<1>2. PICK i \in DOMAIN pending : i = slot
  BY <1>1
<1>3. \A j : (Held(j) <=> j = i) /\ ~Held(j)'
  BY <1>2 DEF Held, Holding
<1>4. GateState(i) = "admitted"
  BY <1>3 DEF GateState
<1>5. GateState(i)' = "open"
  BY <1>1, <1>2, <1>3 DEF GateState, store
<1>6. G' = [G EXCEPT ![Ticket(i)].state = "open"]
  <2>1. pending' = pending
    BY DEF store
  <2> QED
    BY <1>1, <1>2, <1>3, <1>5, <2>1, EntryStep
<1>7. G[Ticket(i)].state = "admitted"
  BY <1>2, <1>4, EntryTicket
<1>8. Gate!Abort(Ticket(i))
  BY <1>6, <1>7 DEF Gate!Abort, Gate!Move, G, IsAdmin
<1> QED
  BY <1>2, <1>8, EntryTicket DEF Gate!Next

\* Running the tool runs the ticket, which has not run before.
LEMMA RunRuns == ASSUME IInv, RunTool PROVE Gate!Next
<1>1. slot \in DOMAIN pending /\ pending \in Seq(Entries) /\ pending[slot].status = "granted"
      /\ pc = "run"
  BY DEF IInv, TypeOK, Serving, RunTool
<1>2. PICK i \in DOMAIN pending : i = slot
  BY <1>1
<1>3. /\ pc' = "execution_finished"
      /\ runs' = [runs EXCEPT ![Ticket(i)] = @ + 1]
      /\ UNCHANGED <<boot, issued, config, now, slot>>
      /\ pending' = [pending EXCEPT ![slot].status = "executed"]
  BY <1>2 DEF RunTool, Goto
<1>4. /\ pending' \in Seq(Entries) /\ Len(pending') = Len(pending)
      /\ \A j \in DOMAIN pending : j # i => pending'[j] = pending[j]
      /\ pending'[i].status = "executed"
      /\ pending'[i].requester = pending[i].requester
      /\ pending'[i].expires = pending[i].expires
  BY <1>1, <1>2, <1>3, SpendEntry
<1>5. \A j : (Held(j) <=> j = i) /\ ~Held(j)'
  BY <1>1, <1>2, <1>3 DEF Held
<1>6. GateState(i) = "admitted"
  BY <1>5 DEF GateState
<1>7. G' = [G EXCEPT ![Ticket(i)].state = "closed"]
  <2>1. GateState(i)' = "closed"
    BY <1>4, <1>5 DEF GateState
  <2>2. boot' = boot /\ issued' = issued
    BY <1>3
  <2> QED
    BY <1>4, <1>5, <2>1, <2>2, EntryStep
<1>8. G[Ticket(i)].state = "admitted" /\ Ticket(i) \in Tickets
  BY <1>6, EntryTicket
<1>9. runs \in [Tickets -> Nat] /\ runs[Ticket(i)] = 0
  <2>1. Ticket(i).boot = boot /\ Ticket(i).id = i /\ i <= Len(pending)
    <3>1. Ticket(i) = [boot |-> boot, id |-> i]
      BY EntryTicket
    <3> QED
      BY <1>1, <3>1
  <2> QED
    BY <1>1, <1>2, <1>8, <2>1 DEF IInv, TypeOK, Accounted
<1>10. Ticket(i) \notin Ran /\ Ran' = Ran \cup {Ticket(i)}
  BY <1>3, <1>8, <1>9 DEF Ran
<1>11. PICK t \in Tickets : t = Ticket(i)
  BY <1>8
<1>12. Gate!Run(t)
  BY <1>3, <1>7, <1>8, <1>10, <1>11 DEF Gate!Run, Gate!Move, G, Ran, IsAdmin
<1> QED
  BY <1>12 DEF Gate!Next

\* A new entry is a ticket that was in no use before.
LEMMA AddRequests == ASSUME IInv, Issued, AddPending PROVE Gate!Next
<1> DEFINE e == NewEntry(caller, call)
<1>0. PICK n \in Nat : n = Len(pending) + 1
  BY DEF IInv, TypeOK
<1>1. /\ caller \in Identities /\ next_id = n /\ n \in 1..MaxPending /\ boot \in 1..MaxBoots
      /\ pc = "route" /\ pending \in Seq(Entries) /\ now \in Int /\ config.ttl \in Int
  BY <1>0, ConstantsAssumption DEF IInv, TypeOK, Numbered, Serving, AddPending, StoreFull
<1>2. PICK t \in Tickets : t = [boot |-> boot, id |-> n]
  BY <1>1 DEF Tickets
<1>3. t.boot = boot /\ t.id = n /\ t \notin issued
  BY <1>0, <1>1, <1>2 DEF Issued
<1>4. /\ e.requester = caller /\ e.expires = now + config.ttl /\ e.status = "pending"
  BY DEF NewEntry
<1>5. /\ boot' = boot /\ issued' = issued \cup {t} /\ pc' = "approval_required"
      /\ pending' = Append(pending, e)
      /\ UNCHANGED <<config, now, runs>>
  BY <1>1, <1>2 DEF AddPending, Goto
<1> HIDE DEF e
<1>6. DOMAIN pending' = DOMAIN pending \cup {n} /\ pending'[n] = e
      /\ \A j \in DOMAIN pending : pending'[j] = pending[j]
  BY <1>0, <1>1, <1>5
<1>7. \A j : ~Held(j) /\ ~Held(j)'
  BY <1>1, <1>5 DEF Held
<1>8. TicketGate(t) = Gate!Blank("none")
  BY <1>0, <1>1, <1>3 DEF TicketGate, Gate!Blank
<1>9. TicketGate(t)' = [state |-> "waiting", owner |-> caller, deadline |-> now + config.ttl]
  <2>1. GateState(n)' = "waiting"
    BY <1>4, <1>6, <1>7 DEF GateState
  <2>2. TicketGate(t)' = [state |-> GateState(n)', owner |-> pending'[n].requester,
                          deadline |-> pending'[n].expires]
    BY <1>3, <1>5, <1>6 DEF TicketGate
  <2> QED
    BY <1>4, <1>6, <2>1, <2>2
<1>10. ASSUME NEW u \in Tickets, u # t
       PROVE  TicketGate(u)' = TicketGate(u)
  <2>1. u = [boot |-> u.boot, id |-> u.id]
    BY DEF Tickets
  <2>2. CASE u.boot = boot /\ u.id \in DOMAIN pending
    <3>1. GateState(u.id)' = GateState(u.id)
      BY <1>6, <1>7, <2>2 DEF GateState
    <3> QED
      BY <1>5, <1>6, <2>2, <3>1 DEF TicketGate
  <2>3. CASE ~(u.boot = boot /\ u.id \in DOMAIN pending)
    <3>1. ~(u.boot = boot /\ u.id \in DOMAIN pending')
      BY <1>2, <1>6, <1>10, <2>1, <2>3
    <3>2. u \in issued' <=> u \in issued
      BY <1>5, <1>10
    <3> QED
      BY <1>5, <2>3, <3>1, <3>2 DEF TicketGate
  <2> QED
    BY <2>2, <2>3
<1>11. G[t] = Gate!Blank("none") /\ G'[t].deadline = now + config.ttl
  BY <1>8, <1>9 DEF G
<1>12. G' = [G EXCEPT ![t] = [state |-> "waiting", owner |-> caller,
                              deadline |-> now + config.ttl]]
  <2>1. ASSUME NEW u \in Tickets
        PROVE  G'[u] = [G EXCEPT ![t] = [state |-> "waiting", owner |-> caller,
                                         deadline |-> now + config.ttl]][u]
    BY <1>9, <1>10 DEF G
  <2>2. G' = [u \in Tickets |-> G'[u]] /\ G = [u \in Tickets |-> G[u]]
    BY DEF G
  <2> QED
    BY <2>1, <2>2
<1>13. PICK who \in Identities : who = caller
  BY <1>1
<1>14. G[t].state = "none"
  BY <1>11 DEF Gate!Blank
<1>15. Gate!Request(t, who)
  <2>1. G'[t].deadline \in Int
    BY <1>1, <1>11
  <2>2. G' = [G EXCEPT ![t] = [state |-> "waiting", owner |-> who,
                               deadline |-> G'[t].deadline]]
    BY <1>11, <1>12, <1>13
  <2> QED
    BY <1>5, <1>14, <2>1, <2>2 DEF Gate!Request, G, IsAdmin
<1> QED
  BY <1>15 DEF Gate!Next

\* When the process ends, every ticket it held is void.
LEMMA StopForgets == ASSUME IInv, Issued, Stop PROVE Gate!Next
<1>1. /\ pending' = <<>> /\ UNCHANGED <<boot, issued, config, now, runs>>
      /\ pc # "down" /\ pending \in Seq(Entries)
  BY DEF Stop, history, IInv, TypeOK
<1>2. ASSUME NEW t \in Tickets
      PROVE  TicketGate(t)' = IF TicketGate(t).state = "none"
                              THEN TicketGate(t) ELSE Gate!Blank("void")
  <2>1. t = [boot |-> t.boot, id |-> t.id]
    BY DEF Tickets
  <2>2. TicketGate(t)' = Gate!Blank(IF t \in issued THEN "void" ELSE "none")
    BY <1>1 DEF TicketGate, Gate!Blank
  <2>3. CASE t.boot = boot /\ t.id \in DOMAIN pending
    <3>1. t \in issued
      BY <1>1, <2>1, <2>3 DEF Issued
    <3>2. pending[t.id] \in Entries
      BY <1>1, <2>3
    <3>3. TicketGate(t).state # "none"
      BY <2>3, <3>2 DEF TicketGate, GateState, Entries
    <3> QED
      BY <2>2, <3>1, <3>3
  <2>4. CASE ~(t.boot = boot /\ t.id \in DOMAIN pending)
    BY <2>2, <2>4 DEF TicketGate, Gate!Blank
  <2> QED
    BY <2>3, <2>4
<1>3. G' = [t \in Tickets |-> IF G[t].state = "none" THEN G[t] ELSE Gate!Blank("void")]
  BY <1>2 DEF G
<1>4. Gate!Forget
  BY <1>1, <1>3 DEF Gate!Forget, G, IsAdmin
<1> QED
  BY <1>4 DEF Gate!Next

\* When it is started again no ticket is in circulation.
LEMMA StartReforms == ASSUME IInv, Issued, Start PROVE Gate!Next
<1>1. /\ pending' = <<>> /\ pending = <<>> /\ UNCHANGED <<issued, now, runs>>
      /\ config' \in Configs
  BY DEF Start, Issued
<1>2. \A t : TicketGate(t) = Gate!Blank(IF t \in issued THEN "void" ELSE "none")
             /\ TicketGate(t)' = TicketGate(t)
  BY <1>1 DEF TicketGate, Gate!Blank
<1>3. G' = G /\ \A t \in Tickets : G[t].state \in {"none", "void"}
  BY <1>2 DEF G, Gate!Blank
<1>4. Team' \in SUBSET Identities
  BY DEF Team
<1>5. Gate!Reform
  BY <1>1, <1>3, <1>4 DEF Gate!Reform, G, Team
<1> QED
  BY <1>5 DEF Gate!Next

\* Time is all that passes when the clock is set.
LEMMA ClockTicks == ASSUME IInv', ClockChanges PROVE Gate!Next
<1>1. UNCHANGED <<store, config, job, boot, issued, runs>> /\ now' \in Int
  BY DEF ClockChanges, history, IInv, TypeOK
<1>2. \A t : TicketGate(t)' = TicketGate(t)
  BY <1>1 DEF TicketGate, GateState, Held, store, job
<1>3. Gate!Tick
  BY <1>1, <1>2 DEF Gate!Tick, IsAdmin
<1> QED
  BY <1>3 DEF Gate!Next

\* A log that works, or fails where no entry is held, moves no ticket.
LEMMA LogIsQuiet ==
    ASSUME IInv, NEW event \in Events, NEW label \in {"route", "run", "reply"},
           Log(event, label), label = "run" <=> event = "execution_started"
    PROVE  [Gate!Next]_(Gate!vars)
BY QuietGate DEF Log, Holding, Events, AdminEvents

LEMMA FailedLog == ASSUME IInv, AuditFails PROVE [Gate!Next]_(Gate!vars)
<1>1. UNCHANGED <<store, boot, issued, config, now, runs, slot>> /\ pc \in Events /\ ~Holding'
  BY DEF AuditFails, Answer, Goto, Holding
<1>2. CASE pc = "execution_started"
  BY <1>1, <1>2, LeavingAborts
<1>3. CASE pc # "execution_started"
  BY <1>1, <1>3, QuietGate DEF Holding, Events, AdminEvents
<1> QED
  BY <1>2, <1>3

\* Every step of the daemon is a step of the gate or none.
LEMMA NextGate == RInv /\ RInv' /\ [Next]_vars => [Gate!Next]_(Gate!vars)
<1> SUFFICES ASSUME RInv, RInv', [Next]_vars PROVE [Gate!Next]_(Gate!vars)
  OBVIOUS
<1> USE DEF RInv
<1>1. CASE UNCHANGED vars
  BY <1>1, QuietGate DEF vars, store, job, history, Holding
<1>2. ASSUME NEW who \in Identities,
             \/ BadRequest(who) \/ NotAdmin(who) \/ AdminMisuse(who) \/ AdminList(who)
             \/ \E c \in Calls : ToolRequest(who, c)
             \/ \E t \in issued : AdminNotFound(who, t) \/ AdminRefused(who, t)
      PROVE  [Gate!Next]_(Gate!vars)
  <2>1. UNCHANGED <<store, boot, issued, config, now, runs>> /\ ~Holding /\ ~Holding'
    BY <1>2 DEF BadRequest, NotAdmin, AdminMisuse, AdminList, ToolRequest, AdminNotFound,
                AdminRefused, Admin, Accept, Answer, Goto, history, Holding
  <2> QED
    BY <2>1, QuietGate
<1>3. CASE RouteDenied \/ RouteFull \/ Reply
  <2>1. UNCHANGED <<store, boot, issued, config, now, runs>> /\ ~Holding /\ ~Holding'
    BY <1>3 DEF RouteDenied, RouteFull, Reply, Answer, Goto, history, Holding
  <2> QED
    BY <2>1, QuietGate
<1>4. CASE \/ LogReceived \/ LogDenied \/ LogRequired \/ LogGranted \/ LogRejected
           \/ LogStarted \/ LogFinished \/ LogFailed
  BY <1>4, LogIsQuiet DEF LogReceived, LogDenied, LogRequired, LogGranted, LogRejected,
                          LogStarted, LogFinished, LogFailed, Events, AdminEvents
<1>5. CASE RunToolFails
  <2>1. UNCHANGED <<store, boot, issued, config, now, runs, slot>> /\ pc = "run" /\ ~Holding'
    BY <1>5 DEF RunToolFails, Goto, history, Holding
  <2> QED
    BY <2>1, LeavingAborts
<1> QED
  BY <1>1, <1>2, <1>3, <1>4, <1>5, AddRequests, ApproveOpens, RejectCloses, ExecuteAdmits,
     RunRuns, FailedLog, StopForgets, StartReforms, ClockTicks DEF Next

\* The handlers, the store, the failing log, crashes and restarts keep the promise of
\* per-call approval: a request waits, is opened by another admin before its deadline,
\* admitted before its deadline and run once.
THEOREM ImplementsApprovalGate == Spec => ImplementsGate
<1>1. Init => RInv /\ Gate!Init
  BY InitIInv, InitGate DEF RInv
<1>2. RInv /\ [Next]_vars => RInv'
  BY NextIInv, NextIssued DEF RInv
<1> QED
  BY <1>1, <1>2, NextGate, PTL DEF Spec, ImplementsGate, Gate!Spec
=============================================================================
