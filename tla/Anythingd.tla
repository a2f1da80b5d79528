------------------------------ MODULE Anythingd ------------------------------
(***************************************************************************)
(* The daemon's two request handlers, the approval store they share, the   *)
(* audit trail and restarts (anythingd.c, approval.c, policy.c).           *)
(*                                                                         *)
(* One process serves one connection at a time.  A handler is cut where it *)
(* does I/O: each audit event, the tool itself and the reply are steps of  *)
(* their own, so that the wall clock can be changed, an audit write can    *)
(* fail and the process can die between any two of them.  While an event   *)
(* is being written, pc is the name of that event.                         *)
(***************************************************************************)
EXTENDS Integers, Sequences, FiniteSets

CONSTANTS Identities,   \* peer credentials: (uid, gid, pid) of a connection
          None,         \* the zeroed approver field; no caller, no call
          Users,        \* the part of it the admin allowlist sees: (uid, gid)
          UserOf,       \* the user of an identity
          Calls,        \* what a tool request asks: method, params, session
          MethodOf,     \* its method: "sys.info", "approval" (.*) or "other"
          HashOf,       \* anything_rpc_hash_request of a call
          Configs,      \* the configurations the daemon may be started with
          MaxPending,   \* ANYTHING_APPROVAL_MAX_PENDING
          ListCapacity, \* how many entries the reply to approval.list can hold
          MaxBoots,     \* bound: how often the daemon is started
          MaxTime       \* bound: the wall clock reads 0..MaxTime

Hashes == {HashOf[c] : c \in Calls}

ASSUME ConstantsAssumption ==
    /\ None \notin Identities \cup Calls
    /\ UserOf \in [Identities -> Users]
    /\ HashOf = [c \in Calls |-> HashOf[c]]
    /\ MethodOf \in [Calls -> {"sys.info", "approval", "other"}]
    /\ Configs # {}
    /\ \A c \in Configs : c \in [sys_read : BOOLEAN, require_allowlist : BOOLEAN,
                                 admins : SUBSET Users, ttl : Int]
    /\ MaxPending \in Nat \ {0} /\ ListCapacity \in Nat
    /\ MaxBoots \in Nat \ {0} /\ MaxTime \in Nat

VARIABLES
    \* anything_approval_store: pending[0 .. count - 1] and the next id's number
    pending, next_id,
    \* loaded at startup, never again; the wall clock
    config, now,
    \* the connection being served: where the handler is, who sent it, the tool
    \* request's call, the entry at hand (0: NULL), the answer it will send
    pc, caller, call, slot, answer,
    \* the audit log's events about a ticket: durable
    audit,
    \* history: number of starts, events written for this connection, tickets
    \* issued, completed runs of the tool per ticket, tickets that were
    \* approved each with the ticket the admin had been shown
    boot, trail, issued, runs, consents

store == <<pending, next_id>>
job == <<pc, caller, call, slot, answer, trail>>
history == <<audit, boot, issued, runs, consents>>
vars == <<store, config, now, job, history>>

\* request_id is "req_<n>": n alone, which a restart issues again.  A ticket
\* tells the two apart.
Tickets == [boot : 1..MaxBoots, id : 1..MaxPending]
Ticket(i) == [boot |-> boot, id |-> pending[i].id]

Entries == [id : Nat, hash : Hashes, requester : Identities,
            approver : Identities \cup {None}, call : Calls, expires : Int,
            status : {"pending", "granted", "rejected", "executed"}]

AdminEvents == {"approval_granted", "approval_rejected", "execution_started",
                "execution_finished", "execution_failed"}
Events == AdminEvents \cup {"request_received", "preflight_denied", "approval_required"}
AuditRecords == [event : Events, ticket : Tickets, caller : Identities,
                 approver : Identities \cup {None}]

Answers == {"none", "invalid_request", "control_plane_denied", "unknown_tool",
            "policy_denied", "resource_limit", "approval_required", "listed",
            "invalid_params", "approval_not_found", "approval_not_pending",
            "approval_expired", "approval_rejected", "request_changed",
            "approved", "rejected", "result", "execution_failed", "audit_failed"}

TypeOK ==
    /\ pending \in Seq(Entries) /\ Len(pending) <= MaxPending /\ next_id \in Nat
    /\ config \in Configs /\ now \in Int
    /\ pc \in Events \cup {"idle", "route", "run", "reply", "down"}
    /\ caller \in Identities \cup {None} /\ call \in Calls \cup {None}
    /\ slot \in 0..Len(pending) /\ answer \in Answers
    /\ audit \subseteq AuditRecords
    /\ boot \in 1..MaxBoots /\ trail \subseteq Events /\ issued \subseteq Tickets
    /\ runs \in [Tickets -> Nat] /\ consents \subseteq Tickets \X Tickets
-----------------------------------------------------------------------------
(* approval.c, policy.c, config.c *)

\* anything_approval_find: the first entry with this id; {} stands for NULL.
Find(id) == {i \in DOMAIN pending :
                /\ pending[i].id = id
                /\ \A j \in 1..(i - 1) : pending[j].id # id}

\* anything_config_identity_is_admin
IsAdmin(cfg, who) == cfg.require_allowlist => UserOf[who] \in cfg.admins

\* anything_policy_preflight: the reason; it is a denial unless this is
\* "approval_required".
Preflight(c) == IF MethodOf[c] # "sys.info" THEN "unknown_tool"
                ELSE IF ~config.sys_read THEN "policy_denied"
                ELSE "approval_required"

\* anything_approval_add
StoreFullLate == Len(pending) > MaxPending
StoreFull == Len(pending) >= MaxPending

NextIdStuck == next_id
NextId == next_id + 1

NewEntry(who, c) == [id |-> next_id, hash |-> HashOf[c], requester |-> who,
                     approver |-> None, call |-> c, expires |-> now + config.ttl,
                     status |-> "pending"]

GrantErrorSelf(p, who) == IF p.status # "pending" THEN "approval_not_pending"
                          ELSE IF now > p.expires THEN "approval_expired"
                          ELSE "none"

GrantErrorReopens(p, who) == IF p.status = "granted" THEN "approval_not_pending"
                             ELSE IF now > p.expires THEN "approval_expired"
                             ELSE IF p.requester = who THEN "control_plane_denied"
                             ELSE "none"

\* anything_approval_grant: the first check that fails.
GrantError(p, who) == IF p.status # "pending" THEN "approval_not_pending"
                      ELSE IF now > p.expires THEN "approval_expired"
                      ELSE IF p.requester = who THEN "control_plane_denied"
                      ELSE "none"

\* anything_approval_reject: neither the status nor the expiry is looked at.
RejectError(p, who) == IF p.requester = who THEN "control_plane_denied" ELSE "none"

ExecuteErrorReplays(p) == IF p.status = "rejected" THEN "approval_rejected"
                          ELSE IF p.status = "pending" THEN "approval_required"
                          ELSE IF now > p.expires THEN "approval_expired"
                          ELSE "none"

ExecuteErrorLate(p) == IF p.status = "rejected" THEN "approval_rejected"
                       ELSE IF p.status # "granted" THEN "approval_required"
                       ELSE "none"

\* anything_approval_validate_for_execute, then the policy recheck.
ExecuteError(p) == IF p.status = "rejected" THEN "approval_rejected"
                   ELSE IF p.status # "granted" THEN "approval_required"
                   ELSE IF now > p.expires THEN "approval_expired"
                   ELSE IF p.hash # HashOf[p.call] THEN "request_changed"
                   ELSE IF Preflight(p.call) # "approval_required" THEN "policy_denied"
                   ELSE "none"
-----------------------------------------------------------------------------
(* Steps of a handler *)

\* A connection is accepted and its request read; the handler starts.
Accept(who) == pc = "idle" /\ caller' = who

Goto(label) == pc' = label /\ UNCHANGED trail

\* Nothing is left to do but to write this answer and to close.
Answer(error) == answer' = error /\ Goto("reply")

\* What audit.c writes about the ticket at hand.
Record == [event |-> pc, ticket |-> Ticket(slot), caller |-> pending[slot].requester,
           approver |-> IF pc \in AdminEvents THEN caller ELSE None]

\* Events about no ticket are remembered in trail only.
Written == IF slot = 0 THEN audit ELSE audit \cup {Record}

\* checked_audit succeeds and the handler goes on at label.
Log(event, label) == /\ pc = event
                     /\ audit' = Written
                     /\ trail' = trail \cup {event}
                     /\ pc' = label
                     /\ UNCHANGED <<store, config, now, caller, call, slot, answer,
                                    boot, issued, runs, consents>>

AuditFailureIgnored == /\ pc \in Events
                       /\ audit' \in {audit, Written}
                       /\ Goto(IF pc = "execution_started" THEN "run" ELSE "reply")
                       /\ UNCHANGED <<store, config, now, caller, call, slot, answer,
                                      boot, issued, runs, consents>>

\* checked_audit fails: the log cannot be opened, a write fails, or the close
\* fails after the line was written.
AuditFails == /\ pc \in Events
              /\ audit' \in {audit, Written}
              /\ Answer("audit_failed")
              /\ UNCHANGED <<store, config, now, caller, call, slot,
                             boot, issued, runs, consents>>

\* The answer is written, or the peer has left: the connection is closed.
EndJob == /\ caller' = None /\ call' = None /\ slot' = 0
          /\ answer' = "none" /\ trail' = {}

Reply == /\ pc = "reply" /\ pc' = "idle"
         /\ EndJob
         /\ UNCHANGED <<store, config, now, history>>
-----------------------------------------------------------------------------
(* handle_tool_request *)

\* Either plane: a request that cannot be read in time and size or parsed.
BadRequest(who) == /\ Accept(who)
                   /\ Answer("invalid_request")
                   /\ UNCHANGED <<store, config, now, call, slot, history>>

ToolRequest(who, c) == /\ Accept(who) /\ call' = c
                       /\ Goto("request_received")
                       /\ UNCHANGED <<store, config, now, slot, answer, history>>

LogReceived == Log("request_received", "route")

\* Control-plane methods are refused on this socket before the policy speaks.
ToolDenial == IF MethodOf[call] = "approval" THEN "control_plane_denied"
              ELSE Preflight(call)

RouteDenied == /\ pc = "route" /\ ToolDenial # "approval_required"
               /\ answer' = ToolDenial
               /\ Goto("preflight_denied")
               /\ UNCHANGED <<store, config, now, caller, call, slot, history>>

LogDenied == Log("preflight_denied", "reply")

\* The store is full: the refusal is not audited.
RouteFull == /\ pc = "route" /\ ToolDenial = "approval_required"
             /\ StoreFull
             /\ Answer("resource_limit")
             /\ UNCHANGED <<store, config, now, caller, call, slot, history>>

AddPending == /\ pc = "route" /\ ToolDenial = "approval_required"
              /\ ~StoreFull
              /\ pending' = Append(pending, NewEntry(caller, call))
              /\ next_id' = NextId
              /\ slot' = Len(pending) + 1
              /\ issued' = issued \cup {[boot |-> boot, id |-> next_id]}
              /\ answer' = "approval_required"
              /\ Goto("approval_required")
              /\ UNCHANGED <<config, now, caller, call, audit, boot, runs, consents>>

\* The entry is in the store whether or not this event can be written.
LogRequired == Log("approval_required", "reply")
-----------------------------------------------------------------------------
(* handle_admin_request *)

Admin(who) == Accept(who) /\ IsAdmin(config, who)

NotAdmin(who) == /\ Accept(who) /\ ~IsAdmin(config, who)
                 /\ answer' = "control_plane_denied"
                 /\ Goto("preflight_denied")
                 /\ UNCHANGED <<store, config, now, call, slot, history>>

\* A method the daemon does not have, or one without a request_id.
AdminMisuse(who) == /\ Admin(who)
                    /\ \E error \in {"unknown_tool", "invalid_params"} : Answer(error)
                    /\ UNCHANGED <<store, config, now, call, slot, history>>

AdminList(who) ==
    /\ Admin(who)
    /\ Answer(IF Len(pending) <= ListCapacity THEN "listed" ELSE "resource_limit")
    /\ UNCHANGED <<store, config, now, call, slot, history>>

\* The other commands name a ticket the admin was shown, by its id.
AdminNotFound(who, t) == /\ Admin(who) /\ Find(t.id) = {}
                         /\ Answer("approval_not_found")
                         /\ UNCHANGED <<store, config, now, call, slot, history>>

\* approve, reject or execute is refused; nothing is changed, nothing audited.
AdminRefused(who, t) ==
    /\ Admin(who)
    /\ \E i \in Find(t.id) :
         \E error \in {GrantError(pending[i], who), RejectError(pending[i], who),
                      ExecuteError(pending[i])} \ {"none"} : Answer(error)
    /\ UNCHANGED <<store, config, now, call, slot, history>>

DecideFirst(who, i, status) ==
    pending' = [pending EXCEPT ![1].approver = who, ![1].status = status]

\* The entry takes its new status before the event is written.
Decide(who, i, status) ==
    pending' = [pending EXCEPT ![i].approver = who, ![i].status = status]

AdminApprove(who, t) ==
    /\ Admin(who)
    /\ \E i \in Find(t.id) : /\ GrantError(pending[i], who) = "none"
                            /\ Decide(who, i, "granted")
                            /\ slot' = i
                            /\ consents' = consents \cup {<<Ticket(i), t>>}
    /\ answer' = "approved"
    /\ Goto("approval_granted")
    /\ UNCHANGED <<next_id, config, now, call, audit, boot, issued, runs>>

LogGranted == Log("approval_granted", "reply")

AdminReject(who, t) ==
    /\ Admin(who)
    /\ \E i \in Find(t.id) : /\ RejectError(pending[i], who) = "none"
                            /\ Decide(who, i, "rejected")
                            /\ slot' = i
    /\ answer' = "rejected"
    /\ Goto("approval_rejected")
    /\ UNCHANGED <<next_id, config, now, call, history>>

LogRejected == Log("approval_rejected", "reply")
-----------------------------------------------------------------------------
(* handle_admin_execute *)

AdminExecute(who, t) == /\ Admin(who)
                        /\ \E i \in Find(t.id) : /\ ExecuteError(pending[i]) = "none"
                                                /\ slot' = i
                        /\ Goto("execution_started")
                        /\ UNCHANGED <<store, config, now, call, answer, history>>

LogStarted == Log("execution_started", "run")

\* The tool has answered; the entry is spent before the event is written.
RunTool == /\ pc = "run"
           /\ pending' = [pending EXCEPT ![slot].status = "executed"]
           /\ runs' = [runs EXCEPT ![Ticket(slot)] = @ + 1]
           /\ answer' = "result"
           /\ Goto("execution_finished")
           /\ UNCHANGED <<next_id, config, now, caller, call, slot,
                          audit, boot, issued, consents>>

LogFinished == Log("execution_finished", "reply")

\* The tool failed: the entry stays granted and may be executed again.
RunToolFails == /\ pc = "run"
                /\ answer' = "execution_failed"
                /\ Goto("execution_failed")
                /\ UNCHANGED <<store, config, now, caller, call, slot, history>>

LogFailed == Log("execution_failed", "reply")
-----------------------------------------------------------------------------
(* main, and what surrounds the daemon *)

\* The process ends, at any point: the store was in memory only.
Stop == /\ pc # "down" /\ pc' = "down"
        /\ pending' = <<>> /\ next_id' = 1
        /\ EndJob
        /\ UNCHANGED <<config, now, history>>

\* It is started again: anything_config_load, anything_approval_store_init.
Start == /\ pc = "down" /\ pc' = "idle"
         /\ boot < MaxBoots /\ boot' = boot + 1
         /\ config' \in Configs
         /\ pending' = <<>> /\ next_id' = 1
         /\ UNCHANGED <<now, caller, call, slot, answer, trail,
                        audit, issued, runs, consents>>

\* time(NULL) may move in either direction.
ClockChanges == /\ now' \in (0..MaxTime) \ {now}
                /\ UNCHANGED <<store, config, job, history>>

Init == /\ pending = <<>> /\ next_id = 1
        /\ config \in Configs /\ now \in 0..MaxTime
        /\ pc = "idle" /\ caller = None /\ call = None /\ slot = 0
        /\ answer = "none" /\ trail = {}
        /\ audit = {} /\ boot = 1 /\ issued = {}
        /\ runs = [t \in Tickets |-> 0] /\ consents = {}

Next ==
    \/ \E who \in Identities :
         \/ BadRequest(who) \/ NotAdmin(who) \/ AdminMisuse(who) \/ AdminList(who)
         \/ \E c \in Calls : ToolRequest(who, c)
         \/ \E t \in issued : \/ AdminNotFound(who, t) \/ AdminRefused(who, t)
                             \/ AdminApprove(who, t) \/ AdminReject(who, t)
                             \/ AdminExecute(who, t)
    \/ RouteDenied \/ RouteFull \/ AddPending
    \/ LogReceived \/ LogDenied \/ LogRequired \/ LogGranted \/ LogRejected
    \/ LogStarted \/ LogFinished \/ LogFailed
    \/ AuditFails
    \/ RunTool \/ RunToolFails
    \/ Reply
    \/ Stop \/ Start \/ ClockChanges

Spec == Init /\ [][Next]_vars
-----------------------------------------------------------------------------
(* Properties *)

\* An approved request is run at most once: anything_approval_validate_for_execute
\* and the EXECUTED status (anythingd.c:165) stop a second approval.execute, also
\* after failed runs, failed audit writes and a reject that overwrites the status.
AtMostOnce == \A t \in Tickets : runs[t] <= 1

\* Nothing runs off the record: execution_started is in the log before the tool
\* is called (anythingd.c:151) and stays there
\* through every crash and restart.
RunsAreOnRecord ==
    \A t \in Tickets : runs[t] > 0 =>
        \E r \in audit : r.event = "execution_started" /\ r.ticket = t

\* An admin who gets a result is told so only after the run and both events that
\* frame it are on record (anythingd.c:151-170).
ResultsAreOnRecord ==
    pc = "reply" /\ answer = "result" =>
        /\ runs[Ticket(slot)] = 1
        /\ \A e \in {"execution_started", "execution_finished"} :
             \E r \in audit : /\ r.event = e /\ r.ticket = Ticket(slot)
                            /\ r.approver = caller

\* Who decides about a request is an admin under this run's configuration and is
\* not the connection that asked (anything_approval_grant, _reject); so say the
\* store and every decision ever logged.
SeparationOfDuties ==
    /\ \A i \in DOMAIN pending : pending[i].status # "pending" =>
          /\ pending[i].approver \in {w \in Identities : IsAdmin(config, w)}
          /\ pending[i].approver # pending[i].requester
    /\ \A r \in audit : r.event \in {"approval_granted", "approval_rejected"} =>
          r.approver # r.caller

\* An id names one entry, and the next id names none: anything_approval_find never
\* hides an entry behind another one.
IdsAreUnique == /\ \A i \in DOMAIN pending : Find(pending[i].id) = {i}
                /\ Find(next_id) = {}

\* The event behind an answer.
Announcement == [approval_required |-> "approval_required", approved |-> "approval_granted",
                 rejected |-> "approval_rejected"]

\* The answer tells the client what has become of the request it named, and is on
\* record before it is sent: approval_required comes with an entry of the client's
\* own call, approved, rejected and result with an entry in that status, and each of
\* the first three with the event it is named after (anythingd.c:104, 219, 228).  A
\* client whose event could not be written is told audit_failed and nothing else.
AnswersAreTrue ==
    pc = "reply" /\ slot # 0 =>
        /\ answer = "approval_required" =>
             /\ pending[slot].requester = caller /\ pending[slot].call = call
             /\ pending[slot].status = "pending"
        /\ answer = "approved" => pending[slot].status = "granted"
        /\ answer = "rejected" => pending[slot].status = "rejected"
        /\ answer = "result" => pending[slot].status = "executed"
        /\ answer \in DOMAIN Announcement =>
             \E r \in audit : r.event = Announcement[answer] /\ r.ticket = Ticket(slot)

\* While the daemon runs, no entry is dropped or turned into another request, and
\* one that was rejected or executed is never runnable again, whatever admins,
\* failing tools and a failing log do.
EntriesAreStable ==
    [][pc' # "down" /\ pc # "down" =>
        \A i \in DOMAIN pending :
            /\ i \in DOMAIN pending'
            /\ \A f \in {"id", "hash", "requester", "call", "expires"} :
                 pending'[i][f] = pending[i][f]
            /\ pending[i].status \in {"rejected", "executed"} =>
                 pending'[i].status \in {"rejected", "executed"}]_vars

\* A logged rejection is final: a ticket whose approval_rejected is in the log is
\* not run afterwards, by this daemon or a later one.
RejectionIsFinal ==
    [][\A r \in audit : r.event = "approval_rejected" =>
          runs'[r.ticket] = runs[r.ticket]]_vars

\* A refusal on the tool socket is audited before it is sent, except for a full
\* store (anythingd.c:59, 70, 86).
ToolRefusalsAreAudited ==
    pc = "reply" /\ call # None /\ answer \notin {"approval_required", "resource_limit",
                                                 "audit_failed", "invalid_request"} =>
        "preflight_denied" \in trail
-----------------------------------------------------------------------------
(* What the documents say of the daemon, and it does not do *)

\* A failed audit write stops the approval: what runs was approved on record.  The
\* grant is in the store before its event is written (anythingd.c:216-219), so an
\* approval that was answered with audit_failed can be executed.
GrantsAreOnRecord ==
    \A t \in Tickets : runs[t] > 0 =>
        \E r \in audit : r.event = "approval_granted" /\ r.ticket = t

\* An approval binds to the request the admin was shown.  Ids are handed out anew
\* after a restart (approval.c:17), so an id announced before it approves
\* another request after it.
ConsentNamesRequest ==
    \A c \in consents : (\E r \in audit : r.event = "approval_required" /\ r.ticket = c[2]) =>
        c[1] = c[2]
-----------------------------------------------------------------------------
(* The promise this daemon implements *)

\* The state of a ticket: none until it is issued; then its entry's, where the
\* entry being executed counts as admitted; void once its entry is lost.
Held(i) == pc \in {"execution_started", "run"} /\ slot = i
GateState(i) == IF Held(i) THEN "admitted"
                ELSE [pending |-> "waiting", granted |-> "open",
                      rejected |-> "closed", executed |-> "closed"][pending[i].status]

TicketGate(t) ==
    IF t.boot = boot /\ t.id \in DOMAIN pending
    THEN [state |-> GateState(t.id), owner |-> pending[t.id].requester,
          deadline |-> pending[t.id].expires]
    ELSE [state |-> IF t \in issued THEN "void" ELSE "none",
          owner |-> None, deadline |-> 0]

Gate == INSTANCE ApprovalGate WITH
            Nobody <- None,
            gate <- [t \in Tickets |-> TicketGate(t)],
            team <- {i \in Identities : IsAdmin(config, i)},
            ran <- {t \in Tickets : runs[t] > 0},
            clock <- now

\* The two handlers, the store, crashes and restarts keep the promise of per-call
\* approval: every step of the daemon is a step of one ticket through its gate, all
\* tickets voided at once, a change of team between runs, or none of these.
ImplementsGate == Gate!Spec
=============================================================================
