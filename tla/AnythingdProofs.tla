-------------------------- MODULE AnythingdProofs --------------------------
(***************************************************************************)
(* What holds of Anythingd for all its constants: any number of identities *)
(* and calls, a store of any size, any number of starts, any clock.        *)
(*                                                                         *)
(* The argument: ids number the entries of the store, so an id names one   *)
(* entry; an entry that may still be run has not been run; and while the   *)
(* daemon is between admitting an entry and running it, nothing else       *)
(* touches the store.                                                      *)
(*                                                                         *)
(* What it tells its clients and leaves in the audit log: answers are      *)
(* true, refusals, runs and results are on record, a logged rejection is   *)
(* final and no entry is dropped or changed.  One connection is served at  *)
(* a time, so that between a change of the store and the answer nothing    *)
(* but events is written; and a handler cannot pass an event that was not  *)
(* written.                                                                *)
(***************************************************************************)
EXTENDS Anythingd, TLAPS

\* The entry in the n-th place has the n-th id of this run of the daemon.
Numbered == /\ next_id = Len(pending) + 1
            /\ \A i \in 1..Len(pending) : pending[i].id = i

\* What a handler knows at each of its stops.
Serving == /\ pc \in {"idle", "down"} => slot = 0
           /\ pc \in {"request_received", "route"} => caller \in Identities /\ call \in Calls
           /\ pc \in AdminEvents \cup {"approval_required", "run"} => slot # 0
           /\ pc \in {"execution_started", "run"} => pending[slot].status = "granted"

\* Runs are on the account of entries that are spent, or lost.
Accounted == \A t \in Tickets :
                /\ runs[t] <= 1
                /\ \/ t.boot > boot
                   \/ t.boot = boot /\ pc # "down" /\ t.id > Len(pending)
                   \/ t.boot = boot /\ t.id <= Len(pending)
                      /\ pending[t.id].status \in {"pending", "granted"}
                   => runs[t] = 0

IInv == TypeOK /\ Numbered /\ Serving /\ Accounted
-----------------------------------------------------------------------------
\* Steps that leave the store and the runs alone keep the accounts.
LEMMA Frame ==
    ASSUME Numbered, Accounted, UNCHANGED <<store, boot, runs>>,
           pc = "down" => pc' = "down"
    PROVE  Numbered' /\ Accounted'
BY DEF Numbered, Accounted, store

\* Deciding about an entry (anything_approval_grant, _reject) changes its approver
\* and its status and nothing else of the store.
LEMMA DecideEntry ==
    ASSUME NEW who \in Identities, NEW i \in DOMAIN pending, pending \in Seq(Entries),
           NEW status \in {"granted", "rejected"}, Decide(who, i, status)
    PROVE  /\ pending' \in Seq(Entries) /\ Len(pending') = Len(pending)
           /\ \A j \in DOMAIN pending : j # i => pending'[j] = pending[j]
           /\ pending'[i].approver = who /\ pending'[i].status = status
           /\ \A f \in {"id", "hash", "requester", "call", "expires"} :
                pending'[i][f] = pending[i][f]
<1> DEFINE e == [pending[i] EXCEPT !.approver = who, !.status = status]
<1>1. pending[i] \in Entries
  OBVIOUS
<1>2. /\ e \in Entries /\ e.approver = who /\ e.status = status
      /\ \A f \in {"id", "hash", "requester", "call", "expires"} : e[f] = pending[i][f]
  BY <1>1 DEF Entries
<1>3. pending' = [pending EXCEPT ![i] = e]
  BY DEF Decide
<1> HIDE DEF e
<1> QED
  BY <1>2, <1>3

\* Spending an entry (anythingd.c:165) changes its status and nothing else.
LEMMA SpendEntry ==
    ASSUME pending \in Seq(Entries), slot \in DOMAIN pending,
           pending' = [pending EXCEPT ![slot].status = "executed"]
    PROVE  /\ pending' \in Seq(Entries) /\ Len(pending') = Len(pending)
           /\ \A j \in DOMAIN pending : j # slot => pending'[j] = pending[j]
           /\ pending'[slot].status = "executed"
           /\ \A f \in {"id", "hash", "requester", "approver", "call", "expires"} :
                pending'[slot][f] = pending[slot][f]
<1> DEFINE e == [pending[slot] EXCEPT !.status = "executed"]
<1>1. pending[slot] \in Entries
  OBVIOUS
<1>2. /\ e \in Entries /\ e.status = "executed"
      /\ \A f \in {"id", "hash", "requester", "approver", "call", "expires"} :
           e[f] = pending[slot][f]
  BY <1>1 DEF Entries
<1>3. pending' = [pending EXCEPT ![slot] = e]
  OBVIOUS
<1> HIDE DEF e
<1> QED
  BY <1>2, <1>3

LEMMA InitIInv == Init => IInv
<1> SUFFICES ASSUME Init PROVE IInv
  OBVIOUS
<1> USE ConstantsAssumption
<1>1. TypeOK
  BY DEF Init, TypeOK, Answers
<1>2. Numbered
  BY DEF Init, Numbered
<1>3. Serving
  BY DEF Init, Serving, AdminEvents
<1>4. Accounted
  BY DEF Init, Accounted
<1> QED
  BY <1>1, <1>2, <1>3, <1>4 DEF IInv

\* What is written to the log is a record about an issued ticket.
LEMMA WrittenType ==
    ASSUME TypeOK, Numbered, pc \in Events
    PROVE  Written \subseteq AuditRecords
<1> SUFFICES ASSUME slot # 0 PROVE Record \in AuditRecords
  BY DEF TypeOK, Written
<1>1. slot \in DOMAIN pending /\ pending[slot] \in Entries /\ pending[slot].id = slot
  BY DEF TypeOK, Numbered
<1>2. Ticket(slot) \in Tickets
  BY <1>1, ConstantsAssumption DEF TypeOK, Ticket, Tickets
<1> QED
  BY <1>1, <1>2 DEF TypeOK, Record, AuditRecords, Entries

\* Each event of checked_audit, written or not, moves the handler on.
LEMMA LogStep ==
    ASSUME IInv, NEW event \in Events,
           NEW label \in {"route", "run", "reply"}, Log(event, label),
           label = "route" => event = "request_received",
           label = "run" => event = "execution_started"
    PROVE  IInv'
<1> USE DEF IInv
<1>1. TypeOK'
  BY WrittenType DEF Log, TypeOK, store
<1>2. Numbered' /\ Accounted'
  BY Frame DEF Log, Events, AdminEvents
<1>3. Serving'
  BY DEF Log, Serving, store, AdminEvents
<1> QED
  BY <1>1, <1>2, <1>3

LEMMA AuditFailsStep == ASSUME IInv, AuditFails PROVE IInv'
<1> USE DEF IInv
<1>1. TypeOK'
  BY WrittenType DEF AuditFails, Answer, Goto, TypeOK, Answers, store
<1>2. Numbered' /\ Accounted'
  BY Frame DEF AuditFails, Answer, Goto, Events, AdminEvents
<1>3. Serving'
  BY DEF AuditFails, Answer, Goto, Serving, AdminEvents
<1> QED
  BY <1>1, <1>2, <1>3

\* The handlers' steps that change neither store nor runs.
LEMMA QuietStep ==
    ASSUME IInv, UNCHANGED <<store, boot, runs, audit, issued, consents>>,
           TypeOK', Serving', pc = "down" => pc' = "down"
    PROVE  IInv'
BY Frame DEF IInv

LEMMA AddPendingStep == ASSUME IInv, AddPending PROVE IInv'
<1> USE DEF IInv
<1> DEFINE e == NewEntry(caller, call)
<1>1. e \in Entries /\ e.id = Len(pending) + 1 /\ e.status = "pending"
  <2>1. caller \in Identities /\ call \in Calls /\ next_id = Len(pending) + 1 /\ next_id \in Nat
    BY DEF AddPending, TypeOK, Numbered, Serving
  <2>2. config.ttl \in Int /\ now \in Int /\ now + config.ttl \in Int
    BY ConstantsAssumption DEF TypeOK
  <2> QED
    BY <2>1, <2>2, ConstantsAssumption DEF NewEntry, Entries, Hashes, NextId
<1>2. /\ pending' \in Seq(Entries) /\ Len(pending') = Len(pending) + 1
      /\ Len(pending') <= MaxPending
      /\ \A i \in 1..Len(pending) : pending'[i] = pending[i]
      /\ pending'[Len(pending) + 1] = e
  <2>1. pending' = Append(pending, e) /\ pending \in Seq(Entries)
    BY DEF AddPending, TypeOK
  <2>2. Len(pending) < MaxPending
    BY ConstantsAssumption DEF AddPending, TypeOK, StoreFull
  <2>3. Len(pending) + 1 <= MaxPending
    BY <2>1, <2>2, ConstantsAssumption
  <2> HIDE DEF e
  <2> QED
    BY <1>1, <2>1, <2>3
<1>3. TypeOK'
  <2>1. [boot |-> boot, id |-> next_id] \in Tickets
    BY <1>2, ConstantsAssumption DEF TypeOK, Numbered, Tickets
  <2> QED
    BY <1>2, <2>1 DEF AddPending, TypeOK, Goto, NextId, Answers, Events
<1>4. Numbered'
  BY <1>1, <1>2 DEF AddPending, TypeOK, Numbered, NextId
<1>5. Serving'
  BY DEF AddPending, TypeOK, Serving, Goto, AdminEvents
<1>6. Accounted'
  BY <1>1, <1>2 DEF AddPending, TypeOK, Accounted, Goto, Tickets
<1> QED
  BY <1>3, <1>4, <1>5, <1>6

LEMMA DecideStep ==
    ASSUME IInv, NEW who \in Identities, NEW i \in DOMAIN pending,
           NEW status \in {"granted", "rejected"}, Decide(who, i, status),
           status = "granted" => pending[i].status = "pending",
           next_id' = next_id, config' = config, now' = now, caller' = who,
           call' = call, slot' = i, answer' \in Answers, audit' = audit,
           pc' \in {"approval_granted", "approval_rejected"}, pc # "down",
           UNCHANGED <<boot, trail, issued, runs>>, consents' \subseteq Tickets \X Tickets
    PROVE  IInv'
<1> USE DEF IInv
<1>1. /\ pending' \in Seq(Entries) /\ Len(pending') = Len(pending)
      /\ \A j \in DOMAIN pending : j # i => pending'[j] = pending[j]
      /\ pending'[i].status = status /\ pending'[i].id = pending[i].id
  BY DecideEntry DEF TypeOK
<1>2. TypeOK'
  BY <1>1 DEF TypeOK, Events, AdminEvents
<1>3. Numbered'
  <2>1. next_id = Len(pending) + 1 /\ \A j \in 1..Len(pending) : pending[j].id = j
    BY DEF Numbered
  <2>2. DOMAIN pending = 1..Len(pending)
    BY DEF TypeOK
  <2>3. \A j \in 1..Len(pending) : pending'[j].id = j
    BY <1>1, <2>1, <2>2, Zenon
  <2> QED
    BY <1>1, <2>1, <2>3, Zenon DEF Numbered
<1>4. Serving'
  BY DEF TypeOK, Serving
<1>5. Accounted'
  <2> SUFFICES ASSUME NEW t \in Tickets
               PROVE  /\ runs[t] <= 1
                      /\ \/ t.boot > boot
                         \/ t.boot = boot /\ t.id > Len(pending)
                         \/ t.boot = boot /\ t.id <= Len(pending)
                            /\ pending'[t.id].status \in {"pending", "granted"}
                         => runs[t] = 0
    BY <1>1 DEF Accounted
  <2>1. t.id \in Nat \ {0}
    BY ConstantsAssumption DEF Tickets
  <2>2. CASE t.id = i
    BY <1>1, <2>2 DEF Accounted, TypeOK
  <2>3. CASE t.id # i
    BY <1>1, <2>1, <2>3 DEF Accounted, TypeOK
  <2> QED
    BY <2>2, <2>3
<1> QED
  BY <1>2, <1>3, <1>4, <1>5

\* The entry at hand has a ticket, which says where it is.
LEMMA TicketAtHand ==
    ASSUME IInv, NEW i \in 1..Len(pending)
    PROVE  Ticket(i) = [boot |-> boot, id |-> i] /\ Ticket(i) \in Tickets
<1>1. pending[i].id = i /\ boot \in 1..MaxBoots
  BY DEF IInv, TypeOK, Numbered
<1>2. i \in 1..MaxPending
  BY ConstantsAssumption DEF IInv, TypeOK
<1> QED
  BY <1>1, <1>2 DEF Ticket, Tickets

LEMMA RunToolStep == ASSUME IInv, RunTool PROVE IInv'
<1> USE DEF IInv
<1>1. slot \in DOMAIN pending /\ pending[slot] \in Entries /\ pending[slot].status = "granted"
  BY DEF RunTool, TypeOK, Serving
<1>2. /\ pending' \in Seq(Entries) /\ Len(pending') = Len(pending)
      /\ \A j \in DOMAIN pending : j # slot => pending'[j] = pending[j]
      /\ pending'[slot].id = pending[slot].id /\ pending'[slot].status = "executed"
  BY <1>1, SpendEntry DEF RunTool, TypeOK
<1>3. Ticket(slot) = [boot |-> boot, id |-> slot] /\ Ticket(slot) \in Tickets
  <2>1. slot \in 1..Len(pending)
    BY <1>1 DEF TypeOK
  <2> QED
    BY <2>1, TicketAtHand
<1>4. runs[Ticket(slot)] = 0
  BY <1>1, <1>3 DEF Accounted, TypeOK
<1>5. runs' = [runs EXCEPT ![Ticket(slot)] = 1]
  BY <1>3, <1>4 DEF RunTool, TypeOK
<1>6. TypeOK'
  <2>1. runs' \in [Tickets -> Nat]
    BY <1>3, <1>5 DEF TypeOK
  <2> QED
    BY <1>2, <2>1 DEF RunTool, TypeOK, Goto, Answers, Events, AdminEvents
<1>7. Numbered'
  BY <1>1, <1>2 DEF RunTool, TypeOK, Numbered
<1>8. Serving'
  BY <1>1 DEF RunTool, Serving, Goto
<1>9. Accounted'
  <2> SUFFICES ASSUME NEW t \in Tickets
               PROVE  /\ runs'[t] <= 1
                      /\ \/ t.boot > boot
                         \/ t.boot = boot /\ t.id > Len(pending)
                         \/ t.boot = boot /\ t.id <= Len(pending)
                            /\ pending'[t.id].status \in {"pending", "granted"}
                         => runs'[t] = 0
    BY <1>2 DEF RunTool, Accounted
  <2>1. t.id \in Nat \ {0} /\ t = [boot |-> t.boot, id |-> t.id]
    BY ConstantsAssumption DEF Tickets
  <2>2. CASE t = Ticket(slot)
    BY <1>1, <1>2, <1>3, <1>5, <2>2 DEF TypeOK
  <2>3. CASE t # Ticket(slot)
    <3>1. runs'[t] = runs[t] /\ pc # "down"
      BY <1>5, <2>3 DEF TypeOK, RunTool
    <3>2. t.boot = boot => t.id # slot
      BY <1>3, <2>1, <2>3
    <3> QED
      BY <1>2, <2>1, <3>1, <3>2 DEF Accounted, TypeOK
  <2> QED
    BY <2>2, <2>3
<1> QED
  BY <1>6, <1>7, <1>8, <1>9

LEMMA StopStep == ASSUME IInv, Stop PROVE IInv'
<1> USE DEF IInv
<1>1. TypeOK'
  <2>1. /\ pending' = <<>> /\ next_id' = 1 /\ slot' = 0 /\ pc' = "down" /\ caller' = None
        /\ call' = None /\ answer' = "none" /\ trail' = {} /\ UNCHANGED <<config, now, history>>
    BY DEF Stop, EndJob
  <2>2. pending' \in Seq(Entries) /\ Len(pending') = 0 /\ Len(pending') <= MaxPending
    BY <2>1, ConstantsAssumption
  <2>3. slot' \in 0..Len(pending') /\ next_id' \in Nat
    BY <2>1, <2>2
  <2> QED
    BY <2>1, <2>2, <2>3 DEF TypeOK, history, Answers
<1>2. Numbered'
  BY DEF Stop, Numbered
<1>3. Serving'
  BY DEF Stop, Serving, EndJob, AdminEvents
<1>4. Accounted'
  BY DEF Stop, TypeOK, Accounted, history, Tickets
<1> QED
  BY <1>1, <1>2, <1>3, <1>4

LEMMA StartStep == ASSUME IInv, Start PROVE IInv'
<1> USE DEF IInv
<1>1. TypeOK'
  <2>1. /\ pending' = <<>> /\ next_id' = 1 /\ slot' = slot /\ pc' = "idle" /\ slot = 0
        /\ config' \in Configs /\ boot < MaxBoots /\ boot' = boot + 1
    BY DEF Start, Serving
  <2>2. pending' \in Seq(Entries) /\ Len(pending') = 0 /\ Len(pending') <= MaxPending
    BY <2>1, ConstantsAssumption
  <2>3. slot' \in 0..Len(pending') /\ next_id' \in Nat
    BY <2>1, <2>2
  <2>4. boot' \in 1..MaxBoots
    <3>1. boot \in 1..MaxBoots /\ MaxBoots \in Int
      BY ConstantsAssumption DEF TypeOK
    <3> QED
      BY <2>1, <3>1
  <2>5. /\ now' \in Int /\ caller' \in Identities \cup {None} /\ call' \in Calls \cup {None}
        /\ answer' \in Answers /\ audit' \subseteq AuditRecords /\ trail' \subseteq Events
        /\ issued' \subseteq Tickets /\ runs' \in [Tickets -> Nat]
        /\ consents' \subseteq Tickets \X Tickets
    BY Zenon DEF Start, TypeOK
  <2> QED
    BY <2>1, <2>2, <2>3, <2>4, <2>5 DEF TypeOK
<1>2. Numbered'
  BY DEF Start, Numbered
<1>3. Serving'
  BY DEF Start, Serving, AdminEvents
<1>4. Accounted'
  <2>1. \A t \in Tickets : t.boot >= boot + 1 => runs[t] = 0
    BY DEF TypeOK, Accounted, Tickets
  <2>2. \A t \in Tickets : t.boot \in Nat /\ t.id \in Nat \ {0}
    BY ConstantsAssumption DEF Tickets
  <2> QED
    BY <2>1, <2>2 DEF Start, TypeOK, Accounted
<1> QED
  BY <1>1, <1>2, <1>3, <1>4

\* Commands about a ticket: only one that is carried out touches the store.
LEMMA TicketStep ==
    ASSUME IInv, NEW who \in Identities, NEW t \in issued,
           \/ AdminNotFound(who, t) \/ AdminRefused(who, t) \/ AdminApprove(who, t)
           \/ AdminReject(who, t) \/ AdminExecute(who, t)
    PROVE  IInv'
<1> USE DEF IInv, Admin, Accept, Goto, Answer
<1>1. CASE AdminNotFound(who, t)
  BY <1>1, QuietStep DEF AdminNotFound, TypeOK, Serving, Answers, AdminEvents, store, history
<1>2. CASE AdminRefused(who, t)
  <2>1. answer' \in Answers
    BY <1>2 DEF AdminRefused, GrantError, RejectError, ExecuteError, Answers
  <2> QED
    BY <1>2, <2>1, QuietStep DEF AdminRefused, TypeOK, Serving, AdminEvents, store, history
<1>3. CASE AdminApprove(who, t)
  <2>1. PICK i \in Find(t.id) : /\ GrantError(pending[i], who) = "none"
                               /\ Decide(who, i, "granted") /\ slot' = i
                               /\ consents' = consents \cup {<<Ticket(i), t>>}
    BY <1>3 DEF AdminApprove
  <2>2. i \in DOMAIN pending /\ pending[i].id = i
    BY DEF Find, TypeOK, Numbered
  <2>3. pending[i].status = "pending"
    BY <2>1 DEF GrantError
  <2>4. <<Ticket(i), t>> \in Tickets \X Tickets
    <3>1. t \in Tickets
      BY DEF TypeOK
    <3>2. Ticket(i) \in Tickets
      BY <2>2, TicketAtHand
    <3> QED
      BY <3>1, <3>2
  <2> QED
    BY <1>3, <2>1, <2>2, <2>3, <2>4, DecideStep DEF AdminApprove, TypeOK, Answers
<1>4. CASE AdminReject(who, t)
  <2>1. PICK i \in Find(t.id) : Decide(who, i, "rejected") /\ slot' = i
    BY <1>4 DEF AdminReject
  <2>2. i \in DOMAIN pending
    BY DEF Find
  <2> QED
    BY <1>4, <2>1, <2>2, DecideStep DEF AdminReject, TypeOK, Answers, history
<1>5. CASE AdminExecute(who, t)
  <2>1. PICK i \in Find(t.id) : ExecuteError(pending[i]) = "none" /\ slot' = i
    BY <1>5 DEF AdminExecute
  <2>2. i \in DOMAIN pending /\ i \in 1..Len(pending) /\ pending[i].status = "granted"
    BY <2>1 DEF Find, TypeOK, ExecuteError
  <2>3. TypeOK'
    BY <1>5, <2>1, <2>2 DEF AdminExecute, TypeOK, Events, AdminEvents, store, history
  <2>4. Serving'
    BY <1>5, <2>1, <2>2 DEF AdminExecute, Serving, store, AdminEvents
  <2> QED
    BY <1>5, <2>3, <2>4, QuietStep DEF AdminExecute, store, history
<1> QED
  BY <1>1, <1>2, <1>3, <1>4, <1>5

\* Every step of the daemon keeps the invariant, by the action that takes it.
LEMMA NextIInv == IInv /\ [Next]_vars => IInv'
<1> SUFFICES ASSUME IInv, [Next]_vars PROVE IInv'
  OBVIOUS
<1> USE DEF IInv
<1>1. CASE UNCHANGED vars
  <2>1. TypeOK' /\ Serving'
    BY <1>1 DEF vars, store, job, history, TypeOK, Serving
  <2> QED
    BY <1>1, <2>1, QuietStep DEF vars, store, job, history
<1>2. ASSUME NEW who \in Identities,
             \/ BadRequest(who) \/ NotAdmin(who) \/ AdminMisuse(who) \/ AdminList(who)
             \/ \E c \in Calls : ToolRequest(who, c)
      PROVE  IInv'
  <2> DEFINE Quiet == /\ TypeOK' /\ Serving' /\ pc # "down"
                      /\ UNCHANGED <<store, boot, runs, audit, issued, consents>>
  <2>1. CASE BadRequest(who) \/ \E c \in Calls : ToolRequest(who, c)
    <3>1. Quiet
      BY <2>1 DEF BadRequest, ToolRequest, Accept, Answer, Goto, TypeOK, Serving, store, history,
                  Answers, Events, AdminEvents
    <3> QED
      BY <3>1, QuietStep
  <2>2. CASE NotAdmin(who) \/ AdminMisuse(who) \/ AdminList(who)
    <3>1. Quiet
      BY <2>2 DEF NotAdmin, AdminMisuse, AdminList, Admin, Accept, Answer, Goto, TypeOK, Serving,
                  store, history, Answers, Events, AdminEvents
    <3> QED
      BY <3>1, QuietStep
  <2> QED
    BY <1>2, <2>1, <2>2
<1>3. CASE RouteDenied \/ RouteFull \/ RunToolFails \/ Reply \/ ClockChanges
  <2> DEFINE Quiet == /\ TypeOK' /\ Serving' /\ (pc = "down" => pc' = "down")
                      /\ UNCHANGED <<store, boot, runs, audit, issued, consents>>
  <2>1. CASE RouteDenied \/ RouteFull
    <3>1. Quiet
      BY <2>1 DEF RouteDenied, RouteFull, ToolDenial, Preflight, Answer, Goto, TypeOK, Serving,
                  store, history, Answers, Events, AdminEvents
    <3> QED
      BY <3>1, QuietStep
  <2>2. CASE RunToolFails
    <3>1. Quiet
      BY <2>2 DEF RunToolFails, Goto, Answers, TypeOK, Serving, store, history, Events, AdminEvents
    <3> QED
      BY <3>1, QuietStep
  <2>3. CASE Reply
    <3>1. Quiet
      BY <2>3 DEF Reply, EndJob, TypeOK, Serving, store, history, Answers, AdminEvents
    <3> QED
      BY <3>1, QuietStep
  <2>4. CASE ClockChanges
    <3>1. Quiet
      <4>1. now' \in Int
        BY <2>4, ConstantsAssumption DEF ClockChanges
      <4> QED
        BY <2>4, <4>1 DEF ClockChanges, TypeOK, Serving, store, job, history
    <3> QED
      BY <3>1, QuietStep
  <2> QED
    BY <1>3, <2>1, <2>2, <2>3, <2>4
<1>4. CASE \/ LogReceived \/ LogDenied \/ LogRequired \/ LogGranted \/ LogRejected
           \/ LogStarted \/ LogFinished \/ LogFailed
  BY <1>4, LogStep DEF LogReceived, LogDenied, LogRequired, LogGranted, LogRejected,
                       LogStarted, LogFinished, LogFailed, Events, AdminEvents
<1> QED
  BY <1>1, <1>2, <1>3, <1>4, AddPendingStep, AuditFailsStep, RunToolStep, StopStep, StartStep,
     TicketStep DEF Next

\* The daemon's state has the type the code gives it, in every reachable state: no
\* entry beyond the store's capacity, no handler at an entry that is not there.
THEOREM TypeCorrect == Spec => []TypeOK
<1>1. IInv => TypeOK
  BY DEF IInv
<1> QED
  BY <1>1, InitIInv, NextIInv, PTL DEF Spec

\* Per-call approval, for a store of any size, any clock, any failures and restarts:
\* an approved request runs at most once.
THEOREM RunsAtMostOnce == Spec => []AtMostOnce
<1>1. IInv => AtMostOnce
  BY DEF IInv, Accounted, AtMostOnce
<1> QED
  BY <1>1, InitIInv, NextIInv, PTL DEF Spec
-----------------------------------------------------------------------------
(* Separation of duties *)

\* Who decided was entitled to, and whoever is about to be logged as deciding too.
Decided == \A i \in 1..Len(pending) : pending[i].status # "pending" =>
              /\ pending[i].approver \in Identities
              /\ IsAdmin(config, pending[i].approver)
              /\ pending[i].approver # pending[i].requester
Deciding == pc \in {"approval_granted", "approval_rejected"} =>
              caller # pending[slot].requester
DecisionsLogged == \A r \in audit : r.event \in {"approval_granted", "approval_rejected"} =>
                      r.approver # r.caller

DutyInv == Decided /\ Deciding /\ DecisionsLogged

\* A record of a decision names the decider, who is not the requester.
LEMMA WrittenDuty ==
    ASSUME IInv, DutyInv, pc \in Events
    PROVE  \A r \in Written : r.event \in {"approval_granted", "approval_rejected"} =>
              r.approver # r.caller
BY DEF IInv, Serving, DutyInv, Deciding, DecisionsLogged, Written, Record, AdminEvents

LEMMA DecideDuty ==
    ASSUME IInv, DutyInv, NEW who \in Identities, NEW t \in issued,
           AdminApprove(who, t) \/ AdminReject(who, t)
    PROVE  DutyInv'
<1>1. PICK i \in Find(t.id), status \in {"granted", "rejected"} :
        /\ Decide(who, i, status) /\ slot' = i
        /\ pending[i].requester # who
  BY DEF AdminApprove, AdminReject, GrantError, RejectError
<1>2. /\ i \in DOMAIN pending /\ pending \in Seq(Entries)
      /\ IsAdmin(config, who) /\ config' = config /\ caller' = who /\ audit' = audit
  BY DEF Find, IInv, TypeOK, AdminApprove, AdminReject, Admin, Accept, history
<1>3. /\ Len(pending') = Len(pending)
      /\ \A j \in DOMAIN pending : j # i => pending'[j] = pending[j]
      /\ pending'[i].approver = who /\ pending'[i].requester = pending[i].requester
  BY <1>1, <1>2, DecideEntry
<1>4. Decided'
  BY <1>1, <1>2, <1>3 DEF DutyInv, Decided, IsAdmin
<1>5. Deciding' /\ DecisionsLogged'
  BY <1>1, <1>2, <1>3 DEF DutyInv, Deciding, DecisionsLogged
<1> QED
  BY <1>4, <1>5 DEF DutyInv

\* Steps that change neither store, configuration nor log, nor stand before the
\* logging of a decision.
LEMMA QuietDuty ==
    ASSUME DutyInv, UNCHANGED <<store, config, audit>>,
           \/ pc' \notin {"approval_granted", "approval_rejected"}
           \/ UNCHANGED <<pc, caller, slot>>
    PROVE  DutyInv'
BY DEF DutyInv, Decided, Deciding, DecisionsLogged, IsAdmin, store

LEMMA NextDuty == IInv /\ DutyInv /\ [Next]_vars => DutyInv'
<1> SUFFICES ASSUME IInv, DutyInv, [Next]_vars PROVE DutyInv'
  OBVIOUS
<1>1. CASE UNCHANGED vars
  BY <1>1, QuietDuty DEF vars, store, job, history
<1>2. ASSUME NEW who \in Identities,
             \/ BadRequest(who) \/ NotAdmin(who) \/ AdminMisuse(who) \/ AdminList(who)
             \/ \E c \in Calls : ToolRequest(who, c)
             \/ \E t \in issued : \/ AdminNotFound(who, t) \/ AdminRefused(who, t)
                                 \/ AdminExecute(who, t)
      PROVE  DutyInv'
  BY <1>2, QuietDuty
     DEF BadRequest, NotAdmin, AdminMisuse, AdminList, ToolRequest, AdminNotFound,
         AdminRefused, AdminExecute, Answer, Goto, history
<1>3. CASE RouteDenied \/ RouteFull \/ RunToolFails \/ Reply \/ ClockChanges
  BY <1>3, QuietDuty
     DEF RouteDenied, RouteFull, RunToolFails, Reply, ClockChanges, Answer, Goto, job, history
<1>4. CASE \/ LogReceived \/ LogDenied \/ LogRequired \/ LogGranted \/ LogRejected
           \/ LogStarted \/ LogFinished \/ LogFailed \/ AuditFails
  <2>1. /\ pc \in Events /\ audit' \in {audit, Written} /\ UNCHANGED <<store, config>>
        /\ pc' \in {"route", "run", "reply"}
    BY <1>4 DEF LogReceived, LogDenied, LogRequired, LogGranted, LogRejected, LogStarted,
                LogFinished, LogFailed, AuditFails, Log, Answer, Goto, Events, AdminEvents
  <2> QED
    BY <2>1, WrittenDuty DEF DutyInv, Decided, Deciding, DecisionsLogged, IsAdmin, store
<1>5. CASE AddPending
  <2>1. /\ pending' = Append(pending, NewEntry(caller, call)) /\ pending \in Seq(Entries)
        /\ config' = config /\ audit' = audit /\ pc' = "approval_required"
    BY <1>5 DEF AddPending, Goto, IInv, TypeOK
  <2>2. NewEntry(caller, call).status = "pending"
    BY DEF NewEntry
  <2> QED
    BY <2>1, <2>2 DEF DutyInv, Decided, Deciding, DecisionsLogged, IsAdmin
<1>6. CASE RunTool
  <2>1. /\ slot \in DOMAIN pending /\ pending \in Seq(Entries)
        /\ pending[slot].status = "granted"
        /\ pending' = [pending EXCEPT ![slot].status = "executed"]
        /\ config' = config /\ audit' = audit /\ pc' = "execution_finished"
    BY <1>6 DEF RunTool, Goto, IInv, TypeOK, Serving
  <2>2. /\ Len(pending') = Len(pending)
        /\ \A j \in DOMAIN pending : j # slot => pending'[j] = pending[j]
        /\ pending'[slot].approver = pending[slot].approver
        /\ pending'[slot].requester = pending[slot].requester
    BY <2>1, SpendEntry
  <2> QED
    BY <2>1, <2>2 DEF DutyInv, Decided, Deciding, DecisionsLogged, IsAdmin
<1>7. CASE Stop \/ Start
  BY <1>7 DEF Stop, Start, history, DutyInv, Decided, Deciding, DecisionsLogged
<1> QED
  BY <1>1, <1>2, <1>3, <1>4, <1>5, <1>6, <1>7, DecideDuty DEF Next

\* No connection decides about its own request, and only the configured admins
\* decide, for any identities and configurations; and the log never says otherwise.
THEOREM DutiesAreSeparate == Spec => []SeparationOfDuties
<1>1. Init => DutyInv
  BY DEF Init, DutyInv, Decided, Deciding, DecisionsLogged
<1>2. IInv /\ DutyInv => SeparationOfDuties
  BY DEF IInv, TypeOK, DutyInv, Decided, DecisionsLogged, SeparationOfDuties
<1> QED
  BY <1>1, <1>2, InitIInv, NextIInv, NextDuty, PTL DEF Spec

-----------------------------------------------------------------------------
(* Answers and records. *)

Bare == {"idle", "down", "request_received", "route", "execution_started", "run"}
Verdict == [approval_required |-> "approval_required", approval_granted |-> "approved",
            approval_rejected |-> "rejected", execution_finished |-> "result",
            execution_failed |-> "execution_failed"]

\* Which answer waits behind the event that is being written, and on which plane.
Answered == /\ pc \in Bare => answer = "none"
            /\ pc \in DOMAIN Verdict => answer = Verdict[pc]
            /\ answer \in {"approved", "rejected", "result"} => slot # 0
            /\ pc \in {"request_received", "route", "preflight_denied"} => slot = 0
            /\ call # None => pc \in {"request_received", "route", "preflight_denied",
                                      "approval_required", "reply"}

\* The entry at hand is what the answer says of it, from the moment there is one.
Told == slot # 0 =>
           /\ answer = "approval_required" =>
                /\ pending[slot].requester = caller /\ pending[slot].call = call
                /\ pending[slot].status = "pending"
           /\ answer = "approved" => pending[slot].status = "granted"
           /\ answer = "rejected" => pending[slot].status = "rejected"
           /\ answer = "result" => pending[slot].status = "executed"

TruthInv == Answered /\ Told /\ ToolRefusalsAreAudited

Wrote(log, event) == \E r \in log : /\ r.event = event /\ r.ticket = Ticket(slot)
                                    /\ r.approver = caller

\* A run is announced on record before it takes place, a result after it.
Framed == /\ pc = "run" \/ answer = "result" => Wrote(audit, "execution_started")
          /\ pc = "reply" /\ answer = "result" => Wrote(audit, "execution_finished")
          /\ answer = "result" => runs[Ticket(slot)] = 1

\* A ticket whose rejection is in the log has an entry that is rejected, or lost.
Settled == \A r \in audit : r.event = "approval_rejected" =>
              /\ r.ticket.boot <= boot
              /\ r.ticket.boot = boot /\ pc # "down" =>
                   /\ r.ticket.id \in DOMAIN pending
                   /\ pending[r.ticket.id].status = "rejected"

RecordInv == Framed /\ RunsAreOnRecord /\ Settled
-----------------------------------------------------------------------------
\* An entry that was found is the one with the ticket's number.
LEMMA Found ==
    ASSUME IInv, NEW t, NEW i \in Find(t.id)
    PROVE  i \in DOMAIN pending /\ i \in 1..Len(pending) /\ pending[i] \in Entries /\ i # 0
BY DEF IInv, TypeOK, Find

\* Ids name entries, for a store of any size.
LEMMA UniqueIds == IInv => IdsAreUnique
<1> SUFFICES ASSUME IInv PROVE IdsAreUnique
  OBVIOUS
<1>1. /\ DOMAIN pending = 1..Len(pending) /\ Len(pending) \in Nat
      /\ next_id = Len(pending) + 1 /\ \A i \in 1..Len(pending) : pending[i].id = i
  BY DEF IInv, TypeOK, Numbered
<1> QED
  BY <1>1 DEF IdsAreUnique, Find
-----------------------------------------------------------------------------
(* Answers *)

LEMMA InitTruth == Init => TruthInv
BY DEF Init, TruthInv, Answered, Told, ToolRefusalsAreAudited, Bare, Verdict

\* A connection that is answered at once, or goes on to its first event.
LEMMA AcceptTruth ==
    ASSUME IInv, TruthInv, NEW who \in Identities,
           \/ BadRequest(who) \/ NotAdmin(who) \/ AdminMisuse(who) \/ AdminList(who)
           \/ \E c \in Calls : ToolRequest(who, c)
           \/ \E t \in issued : AdminNotFound(who, t) \/ AdminRefused(who, t)
    PROVE  TruthInv'
<1>1. pc = "idle" /\ slot = 0 /\ slot' = 0 /\ answer = "none" /\ call = None
  BY DEF BadRequest, NotAdmin, AdminMisuse, AdminList, ToolRequest, AdminNotFound,
         AdminRefused, Admin, Accept, IInv, Serving, TruthInv, Answered, Bare
<1>2. \/ pc' = "request_received" /\ answer' = "none" /\ call' # None
      \/ /\ pc' \in {"preflight_denied", "reply"} /\ call' = None
         /\ answer' \notin {"approved", "rejected", "result"}
  BY <1>1, ConstantsAssumption
     DEF BadRequest, NotAdmin, AdminMisuse, AdminList, ToolRequest, AdminNotFound, AdminRefused,
         Admin, Accept, Answer, Goto, GrantError, RejectError, ExecuteError
<1> QED
  BY <1>1, <1>2 DEF TruthInv, Answered, Told, ToolRefusalsAreAudited, Bare, Verdict

\* Nothing but events is written between a change of the store and its answer.
LEMMA LogTruth ==
    ASSUME IInv, TruthInv, NEW event \in Events,
           NEW label \in {"route", "run", "reply"}, Log(event, label),
           label = "route" <=> event = "request_received",
           label = "run" <=> event = "execution_started"
    PROVE  TruthInv'
<1> USE DEF TruthInv, Answered
<1>1. Answered'
  BY DEF Log, Bare, Verdict, Events, AdminEvents
<1>2. Told'
  BY DEF Log, Told, store
<1>3. ToolRefusalsAreAudited'
  BY DEF Log, ToolRefusalsAreAudited, Verdict, Events, AdminEvents
<1> QED
  BY <1>1, <1>2, <1>3

LEMMA DecideTruth ==
    ASSUME IInv, TruthInv, NEW who \in Identities, NEW t \in issued,
           AdminApprove(who, t) \/ AdminReject(who, t)
    PROVE  TruthInv'
<1> USE DEF TruthInv, Answered
<1>1. PICK i \in Find(t.id), status \in {"granted", "rejected"} :
        /\ Decide(who, i, status) /\ slot' = i
        /\ \/ status = "granted" /\ answer' = "approved" /\ pc' = "approval_granted"
           \/ status = "rejected" /\ answer' = "rejected" /\ pc' = "approval_rejected"
  BY DEF AdminApprove, AdminReject, Goto
<1>2. call' = None
  BY DEF AdminApprove, AdminReject, Admin, Accept, Bare
<1>3. i # 0 /\ pending'[i].status = status
  <2>1. i \in DOMAIN pending /\ i # 0
    BY Found
  <2>2. pending \in Seq(Entries)
    BY DEF IInv, TypeOK
  <2> QED
    BY <1>1, <2>1, <2>2, DecideEntry
<1> QED
  BY <1>1, <1>2, <1>3 DEF Told, ToolRefusalsAreAudited, Bare, Verdict

LEMMA NextTruth == IInv /\ TruthInv /\ [Next]_vars => TruthInv'
<1> SUFFICES ASSUME IInv, TruthInv, [Next]_vars PROVE TruthInv'
  OBVIOUS
<1> USE DEF TruthInv, Answered, Told, ToolRefusalsAreAudited
<1>1. CASE UNCHANGED vars \/ ClockChanges
  BY <1>1 DEF vars, ClockChanges, store, job, Bare, Verdict
<1>2. CASE RouteDenied \/ RouteFull
  <2>1. answer' \notin {"approved", "rejected", "result"} /\ slot = 0 /\ slot' = 0
        /\ pc' \in {"preflight_denied", "reply"} /\ call' = call /\ pc = "route"
        /\ (pc' = "reply" => answer' = "resource_limit")
    BY <1>2 DEF RouteDenied, RouteFull, ToolDenial, Preflight, Goto, Answer, Serving, IInv
  <2> QED
    BY <2>1 DEF Bare, Verdict
<1>3. CASE AddPending
  <2>1. /\ pending' = Append(pending, NewEntry(caller, call)) /\ pending \in Seq(Entries)
        /\ slot' = Len(pending) + 1 /\ answer' = "approval_required"
        /\ pc' = "approval_required" /\ UNCHANGED <<caller, call>>
    BY <1>3 DEF AddPending, Goto, IInv, TypeOK
  <2>2. pending'[slot'] = NewEntry(caller, call)
    BY <2>1
  <2> QED
    BY <2>1, <2>2 DEF NewEntry, Bare, Verdict
<1>4. CASE \/ LogReceived \/ LogDenied \/ LogRequired \/ LogGranted \/ LogRejected
           \/ LogStarted \/ LogFinished \/ LogFailed
  BY <1>4, LogTruth DEF LogReceived, LogDenied, LogRequired, LogGranted, LogRejected,
                        LogStarted, LogFinished, LogFailed, Events, AdminEvents
<1>5. CASE AuditFails
  BY <1>5 DEF AuditFails, Answer, Goto, Bare, Verdict
<1>6. ASSUME NEW who \in Identities, NEW t \in issued, AdminExecute(who, t) PROVE TruthInv'
  BY <1>6 DEF AdminExecute, Admin, Accept, Goto, Bare, Verdict
<1>7. CASE RunTool \/ RunToolFails
  <2>1. pc = "run" /\ slot # 0 /\ call = None /\ call' = None /\ slot' = slot
        /\ pending \in Seq(Entries) /\ slot \in DOMAIN pending
    BY <1>7 DEF RunTool, RunToolFails, IInv, Serving, TypeOK
  <2>2. CASE RunTool
    BY <2>1, <2>2, SpendEntry DEF RunTool, Goto, Bare, Verdict
  <2>3. CASE RunToolFails
    BY <2>1, <2>3 DEF RunToolFails, Goto, Bare, Verdict
  <2> QED
    BY <1>7, <2>2, <2>3
<1>8. CASE Reply \/ Stop \/ Start
  BY <1>8 DEF Reply, Stop, Start, EndJob, IInv, Serving, Bare, Verdict
<1> QED
  BY <1>1, <1>2, <1>3, <1>4, <1>5, <1>6, <1>7, <1>8, AcceptTruth, DecideTruth DEF Next
-----------------------------------------------------------------------------
(* The audit log *)

LEMMA InitRecord == Init => RecordInv
BY DEF Init, RecordInv, Framed, RunsAreOnRecord, Settled

\* Steps that leave the store, the log and the runs alone.
LEMMA QuietRecord ==
    ASSUME RecordInv, UNCHANGED <<store, audit, boot, runs>>, pc = "down" => pc' = "down",
           \/ pc' # "run" /\ answer' # "result"
           \/ UNCHANGED <<pc, caller, slot, answer>>
    PROVE  RecordInv'
<1> USE DEF RecordInv, store
<1>1. Framed'
  BY DEF Framed, Wrote, Ticket
<1>2. RunsAreOnRecord' /\ Settled'
  BY DEF RunsAreOnRecord, Settled
<1> QED
  BY <1>1, <1>2

\* What a written event says of the ticket at hand: the admin who acts on it, and a
\* rejection only where the entry is rejected.
LEMMA WrittenRecord ==
    ASSUME IInv, TruthInv, RecordInv, pc \in Events, slot # 0
    PROVE  /\ Record.event = pc /\ Record.ticket = Ticket(slot)
           /\ pc \in AdminEvents => Record.approver = caller
           /\ pc = "approval_rejected" => pending[slot].status = "rejected"
BY DEF Record, TruthInv, Answered, Told, Verdict

\* An event, written or not, keeps the log true to the store.
LEMMA EventSettled ==
    ASSUME IInv, TruthInv, RecordInv, pc \in Events, audit' \in {audit, Written},
           UNCHANGED <<store, boot, runs>>, pc' # "down"
    PROVE  RunsAreOnRecord' /\ Settled'
<1>1. RunsAreOnRecord'
  BY DEF RecordInv, RunsAreOnRecord, Written
<1>2. ASSUME NEW r \in audit', r.event = "approval_rejected"
      PROVE  /\ r.ticket.boot <= boot
             /\ r.ticket.boot = boot => /\ r.ticket.id \in DOMAIN pending
                                        /\ pending[r.ticket.id].status = "rejected"
  <2>1. CASE r \in audit
    BY <1>2, <2>1 DEF RecordInv, Settled, Events, AdminEvents
  <2>2. CASE r \notin audit
    <3>1. r = Record /\ slot # 0
      BY <2>2 DEF Written
    <3>2. slot \in 1..Len(pending) /\ boot \in Int /\ DOMAIN pending = 1..Len(pending)
      BY <3>1 DEF IInv, TypeOK
    <3> QED
      BY <1>2, <3>1, <3>2, WrittenRecord, TicketAtHand
  <2> QED
    BY <2>1, <2>2
<1>3. Settled'
  BY <1>2 DEF Settled, store
<1> QED
  BY <1>1, <1>3

LEMMA LogRecord ==
    ASSUME IInv, TruthInv, RecordInv, NEW event \in Events,
           NEW label \in {"route", "run", "reply"}, Log(event, label),
           label = "run" <=> event = "execution_started"
    PROVE  RecordInv'
<1>1. RunsAreOnRecord' /\ Settled'
  BY EventSettled DEF Log
<1>2. /\ audit \subseteq audit' /\ pc = event /\ pc' = label /\ audit' = Written
      /\ UNCHANGED <<store, boot, runs, slot, answer, caller>>
  BY DEF Log, Written
<1>3. answer = "result" => pc = "execution_finished" /\ slot # 0
  BY <1>2 DEF TruthInv, Answered, Bare, Verdict, Events, AdminEvents
<1>4. pc = "execution_started" => slot # 0
  BY DEF IInv, Serving, AdminEvents
<1>5. pc \in {"execution_started", "execution_finished"} /\ slot # 0 =>
         Wrote(audit', pc)
  BY <1>2, WrittenRecord DEF Wrote, Written, AdminEvents
<1>6. Framed'
  <2>1. pc' = "run" \/ answer' = "result" => Wrote(audit', "execution_started")
    BY <1>2, <1>3, <1>4, <1>5 DEF RecordInv, Framed, Wrote
  <2>2. pc' = "reply" /\ answer' = "result" => Wrote(audit', "execution_finished")
    BY <1>2, <1>3, <1>5
  <2>3. answer' = "result" => runs[Ticket(slot)] = 1
    BY <1>2 DEF RecordInv, Framed
  <2> QED
    BY <1>2, <2>1, <2>2, <2>3 DEF Framed, Wrote, Ticket, store
<1> QED
  BY <1>1, <1>6 DEF RecordInv

LEMMA DecideRecord ==
    ASSUME IInv, RecordInv, NEW who \in Identities, NEW t \in issued,
           AdminApprove(who, t) \/ AdminReject(who, t)
    PROVE  RecordInv'
<1>1. PICK i \in Find(t.id), status \in {"granted", "rejected"} :
        /\ Decide(who, i, status)
        /\ status = "granted" => pending[i].status = "pending"
        /\ answer' \in {"approved", "rejected"}
        /\ pc' \in {"approval_granted", "approval_rejected"}
  BY DEF AdminApprove, AdminReject, Goto, GrantError
<1>2. /\ pc = "idle" /\ UNCHANGED <<audit, boot, runs>>
      /\ i \in DOMAIN pending /\ DOMAIN pending = 1..Len(pending)
  <2>1. i \in DOMAIN pending /\ DOMAIN pending = 1..Len(pending)
    BY Found DEF IInv, TypeOK
  <2> QED
    BY <2>1 DEF AdminApprove, AdminReject, Admin, Accept, history
<1>3. /\ Len(pending') = Len(pending) /\ DOMAIN pending' = DOMAIN pending
      /\ \A j \in DOMAIN pending : j # i => pending'[j] = pending[j]
      /\ pending'[i].status = status
  BY <1>1, <1>2, DecideEntry DEF IInv, TypeOK
<1>4. Framed' /\ RunsAreOnRecord'
  BY <1>1, <1>2 DEF RecordInv, Framed, RunsAreOnRecord
<1>5. Settled'
  BY <1>1, <1>2, <1>3 DEF RecordInv, Settled
<1> QED
  BY <1>4, <1>5 DEF RecordInv

LEMMA RunToolRecord == ASSUME IInv, RecordInv, RunTool PROVE RecordInv'
<1>1. /\ slot \in DOMAIN pending /\ slot \in 1..Len(pending) /\ pending \in Seq(Entries)
      /\ pending[slot].status = "granted" /\ pc = "run"
      /\ UNCHANGED <<boot, audit, slot, caller>> /\ answer' = "result"
      /\ pc' = "execution_finished" /\ runs \in [Tickets -> Nat]
      /\ \A r \in audit : r.ticket \in Tickets
  BY DEF RunTool, Goto, IInv, TypeOK, Serving, AuditRecords
<1>2. /\ DOMAIN pending' = DOMAIN pending
      /\ \A j \in DOMAIN pending : j # slot => pending'[j] = pending[j]
      /\ pending'[slot].id = pending[slot].id
  BY <1>1, SpendEntry DEF RunTool
<1>3. Ticket(slot)' = Ticket(slot) /\ Ticket(slot) \in Tickets
  BY <1>1, <1>2, TicketAtHand DEF Ticket
<1>4. /\ runs[Ticket(slot)] = 0 /\ runs'[Ticket(slot)] = 1
      /\ \A t \in Tickets : t # Ticket(slot) => runs'[t] = runs[t]
  BY <1>1, <1>3, TicketAtHand DEF RunTool, IInv, TypeOK, Accounted
<1>5. Wrote(audit, "execution_started")
  BY <1>1 DEF RecordInv, Framed
<1>6. Framed'
  BY <1>1, <1>3, <1>4, <1>5 DEF Framed, Wrote
<1>7. RunsAreOnRecord'
  BY <1>1, <1>4, <1>5 DEF RecordInv, RunsAreOnRecord, Wrote
<1>8. Settled'
  BY <1>1, <1>2 DEF RecordInv, Settled
<1> QED
  BY <1>6, <1>7, <1>8 DEF RecordInv

LEMMA NextRecord == IInv /\ TruthInv /\ RecordInv /\ [Next]_vars => RecordInv'
<1> SUFFICES ASSUME IInv, TruthInv, RecordInv, [Next]_vars PROVE RecordInv'
  OBVIOUS
<1>1. CASE UNCHANGED vars
  BY <1>1, QuietRecord DEF vars, store, job, history
<1>2. ASSUME NEW who \in Identities,
             \/ BadRequest(who) \/ NotAdmin(who) \/ AdminMisuse(who) \/ AdminList(who)
             \/ \E c \in Calls : ToolRequest(who, c)
             \/ \E t \in issued : \/ AdminNotFound(who, t) \/ AdminRefused(who, t)
                                 \/ AdminExecute(who, t)
      PROVE  RecordInv'
  <2>1. answer = "none" /\ pc = "idle"
    BY <1>2 DEF BadRequest, NotAdmin, AdminMisuse, AdminList, ToolRequest, AdminNotFound,
                AdminRefused, AdminExecute, Admin, Accept, TruthInv, Answered, Bare
  <2>2. /\ answer' # "result" /\ pc' # "run" /\ pc # "down"
        /\ UNCHANGED <<store, audit, boot, runs>>
    BY <1>2, <2>1
       DEF BadRequest, NotAdmin, AdminMisuse, AdminList, ToolRequest, AdminNotFound,
           AdminRefused, AdminExecute, Answer, Goto, GrantError, RejectError, ExecuteError,
           history
  <2> QED
    BY <2>2, QuietRecord
<1>3. CASE RouteDenied \/ RouteFull \/ RunToolFails \/ Reply
  <2>1. /\ answer' # "result" /\ pc' # "run" /\ pc # "down"
        /\ UNCHANGED <<store, audit, boot, runs>>
    BY <1>3 DEF RouteDenied, RouteFull, RunToolFails, Reply, ToolDenial, Preflight, EndJob,
                Answer, Goto, history
  <2> QED
    BY <2>1, QuietRecord
<1>4. CASE ClockChanges
  BY <1>4, QuietRecord DEF ClockChanges, job, history
<1>5. CASE \/ LogReceived \/ LogDenied \/ LogRequired \/ LogGranted \/ LogRejected
           \/ LogStarted \/ LogFinished \/ LogFailed
  BY <1>5, LogRecord DEF LogReceived, LogDenied, LogRequired, LogGranted, LogRejected,
                         LogStarted, LogFinished, LogFailed, Events, AdminEvents
<1>6. CASE AuditFails
  <2>1. RunsAreOnRecord' /\ Settled'
    BY <1>6, EventSettled DEF AuditFails, Answer, Goto
  <2> QED
    BY <1>6, <2>1 DEF AuditFails, Answer, Goto, RecordInv, Framed
<1>7. CASE AddPending
  <2>1. /\ pending' = Append(pending, NewEntry(caller, call)) /\ pending \in Seq(Entries)
        /\ UNCHANGED <<audit, boot, runs>> /\ pc = "route" /\ pc' = "approval_required"
        /\ answer' = "approval_required"
    BY <1>7 DEF AddPending, Goto, IInv, TypeOK
  <2>2. Framed' /\ RunsAreOnRecord'
    BY <2>1 DEF RecordInv, Framed, RunsAreOnRecord
  <2>3. Settled'
    BY <2>1 DEF RecordInv, Settled
  <2> QED
    BY <2>2, <2>3 DEF RecordInv
<1>8. CASE Stop \/ Start
  <2>1. /\ audit' = audit /\ runs' = runs /\ answer' # "result" /\ pc' \in {"idle", "down"}
        /\ boot \in Int /\ \A r \in audit : r.ticket.boot \in Int
        /\ \/ boot' = boot /\ pc' = "down"
           \/ boot' = boot + 1 /\ pc = "down"
    BY <1>8, ConstantsAssumption
       DEF Stop, Start, EndJob, history, TruthInv, Answered, Bare, IInv, TypeOK, AuditRecords,
           Tickets
  <2> QED
    BY <2>1 DEF RecordInv, Framed, RunsAreOnRecord, Settled
<1> QED
  BY <1>1, <1>2, <1>3, <1>4, <1>5, <1>6, <1>7, <1>8, DecideRecord, RunToolRecord DEF Next
-----------------------------------------------------------------------------
(* Answers on record *)

\* An answer that a decision or a new entry has brought about is in the log.
Noted == pc = "reply" /\ slot # 0 /\ answer \in DOMAIN Announcement =>
             \E r \in audit : r.event = Announcement[answer] /\ r.ticket = Ticket(slot)

LEMMA NextNoted == IInv /\ TruthInv /\ RecordInv /\ Noted /\ [Next]_vars => Noted'
<1> SUFFICES ASSUME IInv, TruthInv, RecordInv, Noted, [Next]_vars PROVE Noted'
  OBVIOUS
<1>1. CASE UNCHANGED vars \/ ClockChanges
  BY <1>1 DEF vars, ClockChanges, store, job, history, Noted, Ticket
<1>2. CASE \/ RouteFull \/ AuditFails
           \/ \E who \in Identities :
                \/ BadRequest(who) \/ AdminMisuse(who) \/ AdminList(who)
                \/ \E t \in issued : AdminNotFound(who, t) \/ AdminRefused(who, t)
  <2>1. CASE RouteFull \/ AuditFails
    BY <2>1 DEF RouteFull, AuditFails, Answer, Noted, Announcement
  <2>2. CASE \E who \in Identities :
               \/ BadRequest(who) \/ AdminMisuse(who) \/ AdminList(who)
               \/ \E t \in issued : AdminNotFound(who, t) \/ AdminRefused(who, t)
    <3>1. slot' = 0
      BY <2>2 DEF BadRequest, AdminMisuse, AdminList, AdminNotFound, AdminRefused, Admin,
                  Accept, IInv, Serving
    <3> QED
      BY <3>1 DEF Noted
  <2> QED
    BY <1>2, <2>1, <2>2
<1>3. CASE LogDenied \/ LogRequired \/ LogGranted \/ LogRejected \/ LogFinished \/ LogFailed
  <2>1. /\ pc \in {"preflight_denied", "approval_required", "approval_granted",
                  "approval_rejected", "execution_finished", "execution_failed"}
        /\ pc \in Events /\ audit' = Written
        /\ UNCHANGED <<store, boot, slot, answer>>
    BY <1>3 DEF LogDenied, LogRequired, LogGranted, LogRejected, LogFinished, LogFailed, Log,
                Events, AdminEvents
  <2>2. answer \in DOMAIN Announcement /\ slot # 0 => pc = Announcement[answer]
    BY <2>1 DEF TruthInv, Answered, Verdict, Announcement
  <2>3. slot # 0 => Record \in audit' /\ Record.event = pc /\ Record.ticket = Ticket(slot)
    BY <2>1, WrittenRecord DEF Written
  <2>4. Ticket(slot)' = Ticket(slot)
    BY <2>1 DEF Ticket, store
  <2> QED
    BY <2>1, <2>2, <2>3, <2>4 DEF Noted
<1>4. CASE \/ \E who \in Identities :
                \/ NotAdmin(who)
                \/ \E c \in Calls : ToolRequest(who, c)
                \/ \E t \in issued : AdminApprove(who, t) \/ AdminReject(who, t) \/ AdminExecute(who, t)
           \/ LogReceived \/ LogStarted \/ RouteDenied \/ AddPending
           \/ RunTool \/ RunToolFails \/ Reply \/ Stop \/ Start
  <2>1. pc' # "reply"
    BY <1>4 DEF NotAdmin, ToolRequest, AdminApprove, AdminReject, AdminExecute, LogReceived,
                LogStarted, Log, RouteDenied, AddPending, RunTool, RunToolFails, Reply, Stop,
                Start, Goto
  <2> QED
    BY <2>1 DEF Noted
<1> QED
  BY <1>1, <1>2, <1>3, <1>4 DEF Next
-----------------------------------------------------------------------------
(* Theorems *)

TrueInv == IInv /\ TruthInv /\ RecordInv /\ Noted

LEMMA TrueInvariant == Spec => []TrueInv
<1>1. Init => TrueInv
  <2>1. Init => Noted
    BY DEF Init, Noted
  <2> QED
    BY <2>1, InitIInv, InitTruth, InitRecord DEF TrueInv
<1>2. TrueInv /\ [Next]_vars => TrueInv'
  BY NextIInv, NextTruth, NextRecord, NextNoted DEF TrueInv
<1> QED
  BY <1>1, <1>2, PTL DEF Spec

\* An id names one entry of the store, and the next id none, for a store of any size.
THEOREM IdsNameEntries == Spec => []IdsAreUnique
<1>1. TrueInv => IdsAreUnique
  BY UniqueIds DEF TrueInv
<1> QED
  BY <1>1, TrueInvariant, PTL

\* Clients are told what has become of the request they named, and only what is on
\* record, whatever fails.
THEOREM AnswersHold == Spec => []AnswersAreTrue
<1>1. TrueInv => AnswersAreTrue
  BY DEF TrueInv, TruthInv, Told, Noted, AnswersAreTrue
<1> QED
  BY <1>1, TrueInvariant, PTL

\* No refusal but that of a full store leaves the tool socket unaudited.
THEOREM RefusalsAreAudited == Spec => []ToolRefusalsAreAudited
<1>1. TrueInv => ToolRefusalsAreAudited
  BY DEF TrueInv, TruthInv
<1> QED
  BY <1>1, TrueInvariant, PTL

\* Every run is announced in the log, across any number of crashes and failing writes.
THEOREM RunsAreRecorded == Spec => []RunsAreOnRecord
<1>1. TrueInv => RunsAreOnRecord
  BY DEF TrueInv, RecordInv
<1> QED
  BY <1>1, TrueInvariant, PTL

\* A result is sent for the one run of its ticket, framed by two events that name the
\* admin it is sent to.
THEOREM ResultsAreRecorded == Spec => []ResultsAreOnRecord
<1>1. TrueInv => ResultsAreOnRecord
  BY DEF TrueInv, RecordInv, Framed, Wrote, ResultsAreOnRecord
<1> QED
  BY <1>1, TrueInvariant, PTL

\* One step of the daemon on the store.
StableStep ==
    pc' # "down" /\ pc # "down" =>
        \A i \in DOMAIN pending :
            /\ i \in DOMAIN pending'
            /\ \A f \in {"id", "hash", "requester", "call", "expires"} :
                 pending'[i][f] = pending[i][f]
            /\ pending[i].status \in {"rejected", "executed"} =>
                 pending'[i].status \in {"rejected", "executed"}

LEMMA NextStable == IInv /\ [Next]_vars => [StableStep]_vars
<1> SUFFICES ASSUME IInv, [Next]_vars, pc # "down", pc' # "down", pending' # pending
             PROVE  StableStep
  BY DEF StableStep
<1>1. \/ \E who \in Identities, t \in issued : AdminApprove(who, t) \/ AdminReject(who, t)
      \/ AddPending \/ RunTool
  BY DEF Next, vars, store, job, history, BadRequest, NotAdmin, AdminMisuse, AdminList,
         ToolRequest, AdminNotFound, AdminRefused, AdminExecute, RouteDenied, RouteFull,
         LogReceived, LogDenied, LogRequired, LogGranted, LogRejected, LogStarted, LogFinished,
         LogFailed, Log, AuditFails, RunToolFails, Reply, Stop, Start, ClockChanges
<1>2. pending \in Seq(Entries)
  BY DEF IInv, TypeOK
<1>3. ASSUME NEW who \in Identities, NEW t \in issued, AdminApprove(who, t) \/ AdminReject(who, t)
      PROVE  StableStep
  <2>1. PICK i \in Find(t.id), status \in {"granted", "rejected"} :
          Decide(who, i, status) /\ (status = "granted" => pending[i].status = "pending")
    BY <1>3 DEF AdminApprove, AdminReject, GrantError
  <2>2. i \in DOMAIN pending
    BY Found
  <2>3. /\ Len(pending') = Len(pending) /\ pending' \in Seq(Entries)
        /\ \A j \in DOMAIN pending : j # i => pending'[j] = pending[j]
        /\ pending'[i].status = status
        /\ \A f \in {"id", "hash", "requester", "call", "expires"} :
             pending'[i][f] = pending[i][f]
    BY <1>2, <2>1, <2>2, DecideEntry
  <2>4. DOMAIN pending' = DOMAIN pending
    BY <1>2, <2>3
  <2> QED
    BY <2>1, <2>3, <2>4 DEF StableStep
<1>4. CASE AddPending
  BY <1>2, <1>4 DEF AddPending, StableStep
<1>5. CASE RunTool
  <2>1. slot \in DOMAIN pending /\ pending' = [pending EXCEPT ![slot].status = "executed"]
    BY <1>5 DEF RunTool, IInv, TypeOK, Serving
  <2>2. /\ Len(pending') = Len(pending) /\ pending' \in Seq(Entries)
        /\ \A j \in DOMAIN pending : j # slot => pending'[j] = pending[j]
        /\ pending'[slot].status = "executed"
        /\ \A f \in {"id", "hash", "requester", "approver", "call", "expires"} :
             pending'[slot][f] = pending[slot][f]
    BY <1>2, <2>1, SpendEntry
  <2>3. DOMAIN pending' = DOMAIN pending
    BY <1>2, <2>2
  <2> QED
    BY <2>2, <2>3 DEF StableStep
<1> QED
  BY <1>1, <1>3, <1>4, <1>5

\* While a daemon runs, entries keep their request, and a closed one stays closed.
THEOREM EntriesStayStable == Spec => EntriesAreStable
<1>1. TrueInv /\ [Next]_vars => [StableStep]_vars
  BY NextStable DEF TrueInv
<1> QED
  BY <1>1, TrueInvariant, PTL DEF Spec, EntriesAreStable, StableStep

\* A step that runs nothing whose rejection is in the log.
FinalStep == \A r \in audit : r.event = "approval_rejected" => runs'[r.ticket] = runs[r.ticket]

LEMMA NextFinal == TrueInv /\ [Next]_vars => [FinalStep]_vars
<1> SUFFICES ASSUME TrueInv, [Next]_vars, runs' # runs PROVE FinalStep
  BY DEF FinalStep
<1>1. RunTool
  BY DEF Next, vars, store, job, history, BadRequest, NotAdmin, AdminMisuse, AdminList,
         ToolRequest, AdminNotFound, AdminRefused, AdminApprove, AdminReject, AdminExecute,
         RouteDenied, RouteFull, AddPending,
         LogReceived, LogDenied, LogRequired, LogGranted, LogRejected, LogStarted, LogFinished,
         LogFailed, Log, AuditFails, RunToolFails, Reply, Stop, Start, ClockChanges
<1>2. /\ slot \in 1..Len(pending) /\ pending[slot].status = "granted" /\ pc = "run"
      /\ runs' = [runs EXCEPT ![Ticket(slot)] = @ + 1] /\ runs \in [Tickets -> Nat]
      /\ \A r \in audit : r.ticket \in Tickets
  BY <1>1 DEF RunTool, TrueInv, IInv, TypeOK, Serving, AuditRecords
<1>3. Ticket(slot) = [boot |-> boot, id |-> slot]
  BY <1>2, TicketAtHand DEF TrueInv
<1>4. ASSUME NEW r \in audit, r.event = "approval_rejected" PROVE r.ticket # Ticket(slot)
  BY <1>2, <1>3, <1>4 DEF TrueInv, RecordInv, Settled
<1> QED
  BY <1>2, <1>4 DEF FinalStep

\* What was rejected on record never runs again, under this daemon or a later one.
THEOREM RejectionsAreFinal == Spec => RejectionIsFinal
<1>1. TrueInv /\ [Next]_vars => [FinalStep]_vars
  BY NextFinal
<1> QED
  BY <1>1, TrueInvariant, PTL DEF Spec, RejectionIsFinal, FinalStep
=============================================================================
