# Anything-Tool: a verification project

`anythingd` is a daemon that lets agents ask for tools (today one: `sys.info`) on a
*tool socket* and lets admins approve and execute what was asked on an *admin socket*.
Every request needs an approval of its own by somebody other than its requester, and
every step is to leave an event in an audit log. This directory holds TLA+ models of that
daemon, the TLC configurations that check them, and TLAPS proofs. Paths below are those of
the repository.

## 1. Inventory

| component | source | state it keeps | operations | interacts with |
|---|---|---|---|---|
| request handlers | `src/daemon/anythingd.c` | none between requests | tool request; admin list, approve, reject, execute | all of the below, by calls |
| approval store | `src/common/approval.c` | array of 64 entries, count, next id; memory only | init, add, find, grant, reject, validate, list | handlers |
| policy | `src/common/policy.c` | none | preflight (also the recheck) | handlers, configuration |
| audit log | `src/common/audit.c` | an append-only file | startup check, write event | handlers; survives the process |
| event loop, signals | `src/daemon/anythingd.c` main, accept_one | stop flag | poll, accept tool, accept admin, stop | kernel, clients |
| transport | `src/common/transport.c` | socket files | listen, peer identity, timed read, write, unlink | loop, clients |
| RPC, JSON | `src/common/rpc.c`, `json.c` | none | parse, extract, hash, encode, escape | handlers, audit log, store |
| configuration | `src/common/config.c` | loaded once | parse, validate, allowlist decision | startup, handlers |
| `sys.info` | `src/tools/sys_info.c` | none | read uname and /proc | handlers |
| `anythingctl` | `src/cli/anythingctl.c` | none | send one request, read one answer | daemon |

What is hard about it:

* **Order of state changes and audit writes.** A handler changes the store first and
  writes the event afterwards, except for an execution, which is announced first. Each
  write can fail after the state has changed. The properties are about which of the two
  may be missing.
* **Crashes.** The store is lost, the log stays, ids start again at `req_1`.
* **Commands out of order.** Admins approve, reject and execute the same entry in any
  order, repeatedly, with failed runs in between, while the wall clock is adjusted.
* **One thread for all.** Slow clients, clients that leave, a second socket whose
  readiness was polled before the first one was served, a signal at any point.
* **A log line written in pieces**, with failures in between.
* **What earlier processes left**: socket files, a log, or none; another daemon with the
  same paths.
* **Texts read by hand-written scanners**: requests, which are scanned twice by different
  loops, and configuration files, where order, sections and long lines matter.
* **Buffers inside buffers**: ids, texts and lists are escaped and wrapped in buffers of
  fixed sizes, and not everybody looks at what `snprintf` returns.

The properties that make each component correct: for the handlers and the store, that a
request runs at most once, only on record, only after somebody else's valid approval, and
that rejections are final; for the log, that an acknowledged event is in the file; for the
loop, that it neither blocks nor starves anybody and stops when told; for the parser, that it takes
for id, method and session what the text says; for startup, that nobody is an admin unlisted
and the log is out of the agents' reach; for replies, that they are whole or refused. `PROJECT.json`
lists every hazard with its line and the properties that look at it.

## 2. Modules

| module | models |
|---|---|
| `ApprovalGate` | the abstract specification: tickets that are opened, admitted and run once |
| `Anythingd` | handlers, approval store, policy, audit events, configuration, crash and restart |
| `AnythingdProofs` | theorems about `Anythingd`: types, runs and duties; answers, entries and the log |
| `AnythingdRefinement` | the theorem that `Anythingd` implements `ApprovalGate` |
| `EventLoop` | sockets and their files, main loop, accept, read deadline, write, signals, clients, starts and ends |
| `EventLoopProofs` | theorems about `EventLoop` |
| `AuditFile` | one audit event as fragments in a file |
| `Startup` | reading and validating a configuration, the log's path; extends `AuditFile`, whose events it serves |
| `StartupProofs` | theorems about `AuditFile` and `Startup` |
| `ReadRequest` | one timed read of a request, byte by byte |
| `ReadRequestProofs` | theorems about `ReadRequest` |
| `Rpc` | the request parser beside a JSON reader |
| `RpcProofs` | theorems about `Rpc`: types, and where parser and reader refuse |
| `RpcRequests` | theorems about `Rpc`: the fields, the session and what is accepted |
| `Reply` | the lengths of a reply, from the parsed id to what `anythingctl` shows |
| `ReplyProofs` | theorems about `Reply` |
| `MCAnythingd`, `MCEventLoop`, `MCStartup`, `MCRpc` | instances for TLC; the other runs take their module as it is |

How they fit together: `Startup` ends where `EventLoop` begins, at the first socket.
`EventLoop` serves connections; `ReadRequest` is its reading, `Rpc` what is made of the
bytes read, `Anythingd` the handler, `AuditFile` each of the handler's events, `Reply` the
text of the answer that `EventLoop` writes.

The operators named `...Late`, `...Self`, `...Ignored` and the like that stand right before
the definition they vary are plausible bugs in that definition. No specification uses them;
each shows that some property would notice the bug.

### Anythingd

`pending` is `pending[0 .. count-1]` of the store as a sequence, `next_id` its counter. The
handler at work is described by `pc`, `caller`, `call`, `slot` (the C pointer `pending`),
`answer`. A handler runs without interruption between two points of I/O, so each action is
the code from one such point to the next: `ToolRequest`, `RouteDenied`, `AddPending` and so
on, `Log(event, label)` for `checked_audit` succeeding, `AuditFails` for it failing (the
record may be in the log nevertheless, if `close` failed), `RunTool`, `RunToolFails`,
`Reply`. While an event is being written `pc` is the event's name. `Stop` may happen at any
point and loses the store; `Start` loads one of `Configs`. `ClockChanges` moves the wall
clock in either direction.

Abstractions: a request's method, params and session are one value (`Calls`) with a method
and a hash; identities are compared as a whole, and by `UserOf` for the allowlist, which
knows uid and gid but not pid; events that name no ticket are kept in `trail`, for the
connection at hand only; `audit` is a set, which loses the order and the repetition of
events. `approval.list` fits up to `ListCapacity` entries (32, as `Reply` works out).
The hash is taken to be an arbitrary function of the call, so collisions are allowed. The
error branch for a failed escape (`anythingd.c:94-100`) is left out: a request id, risk and summary that
`anything_approval_add` made always fit. `boot`, `issued`, `runs`, `consents` and `trail`
are history: no guard of the daemon depends on them, save that admins name issued tickets.

### ApprovalGate

A ticket is a request under a name that is never reused: the run of the daemon and the id
within it. It goes from *none* to *waiting*, *open*, *admitted*, *closed*; losing the
store makes all tickets *void*. `Open` needs a team member who is not the owner, before the
deadline; `Admit` needs the deadline again; `Run` happens at most once per ticket. The
refinement mapping (`TicketGate`) reads this off the store: an entry is admitted while
`slot` points at it between `approval.execute` and the end of the tool.

### EventLoop

`pc` is where `main` or `accept_one` is; `"tool"` and `"admin"` are the two `if` statements
that use the polled `revents`. `Unlink`, `Bind` and `ListenFails` are
`anything_transport_listen`, for the tool socket and then for the admin socket; `path` says
whose each socket file is. `unlink` may fail wherever it is called (`Sticking`), and nobody
looks: a file that stays in place lets the following `bind` fail, or outlives an orderly end.
`fault` remembers on which plane the last system call failed. A process ends by `Exit`, by `ListenFails`, by a signal nobody
handles (`Killed`, `BrokenPipe`: the default action of SIGPIPE), and then the kernel resets
who was connected (`End`). `OtherDaemon` is what another daemon does to the paths: it takes
them as this one does, or removes them when it ends. A client is away, slow, done sending,
gone or reset. `Deadline` is the end of `anything_transport_read_request` on a client that
never finishes. Left out: `accept` failing on a ready socket, and the failures of
`getsockopt`, `setsockopt` and `calloc`, which lead to the same answer and close as a
failed read; `chmod`, whose result nobody looks at.

### AuditFile

The file is a sequence of fragments; a fragment may be cut short. `Abandon` is a crash or a
failed `close`. It justifies the two steps `Log` and `AuditFails` of `Anythingd`: an
acknowledged event is in the file for good, a failed one may be or not.

### ReadRequest

One call of `anything_transport_read_request`, between a client that writes single bytes
and closes when it likes, and signals that interrupt `read`. `clock` is the time since the
call and advances while the daemon is blocked, in units of which `Deadline` is a few; the
milliseconds that `elapsed_ms_since` rounds off are left out. `EventLoop` takes from this
module that a read ends (`Returns`, its action `Deadline`) and that a whole line is served.

### Startup

A file is read one line at a time, and only the configuration so far is kept, so that files
of any length are covered. `ReadEntry` is a line that sets something, `ReadTail` the rest of
a comment longer than the line buffer, `BadLine` one that ends the start. Comments, other
section headers, unknown keys and keys without a bearing on startup change nothing. Whether
the socket paths and limits pass validation is one field, `sane`, which each line about them
sets as it likes: more files than there are, which is on the safe side. A path is a
sequence of names and slashes in a small tree: `/d/log` is the log, `/link` leads to `/d`,
`/x` does not exist; `Canonical` is `realpath`. `kind` is what is at the log's place. While
the daemon is off, `config` is what its file says: `LoadAgain` starts with the same file,
`Load` with another one. In `serving`, `Serve` takes the steps of `AuditFile`.

### Rpc

The text is not kept: a symbol at a time goes to the parser (`Parse`), to the scan of the
params (`Follow`, which copies nothing but reads along) and to a reader that knows JSON
(`Read`). A symbol is a character or a stretch of characters that the parser treats alike. Two
lengths matter. A string is decoded into a buffer of 64 bytes (`append_decoded`); `long` is a
stretch that fills such a buffer, so that a longer string is one with `long` in it and the
letters that are left over, whatever it is made of. An object is copied into a buffer of
`MaxObject` bytes, the parsed params and skipped members alike (`copy_json_object_raw`): `size`
counts its bytes, each symbol for the `Bytes` it has, and `Raw` refuses the brace that closes
an object without room for the NUL behind it.

The reader notes what is under each key at the top and under `session_id` in the params; the
properties compare this with what the parser has filled in. `odd` and `note` record, from the
reader's side alone, that the text ran into one of the parser's limits: an escape it does
not know, a key or field that is too long, an object that is too large (`note.big`), a key
that is too long before `session_id` (`note.lost`). The text stops mattering, and is
not continued, once it is accepted, or refused for a reason outside what the parser
supports.

### Reply

`anything_approval_list_json` is a sequence of texts of known lengths put into a buffer,
`anything_sys_info_json` one text of five that are escaped first; `anything_rpc_result` wraps
either, with the escaped id, in the response; `anythingctl` reads that once. Only the digits
of the ids, the kinds of characters in the client's id and how much the texts of `sys.info`
grow by escaping vary.

## 3. Runs

| run | question | bounds |
|---|---|---|
| `requests` | do commands about two entries stay apart, are answers true and on record, are entries stable, are self-approval and refused tools handled? | 2 entries, an agent and an admin who also asks, 3 kinds of call, 2 configurations, clock 0..1 |
| `restart` | crash anywhere, start again with the same team or another; is a logged rejection final; implements `ApprovalGate` | 1 entry, 2 starts, clock 0..1 |
| `loop` | blocking, starvation, hanging, promptness of stop, taking over and leaving socket files | 2 tool clients and 1 admin that reconnect for ever, 2 starts |
| `startup` | who is admin, where the log may be, what is in it after failures, crashes and restarts? | files of any length with 2 path rules, one id per list, 2 events |
| `read_request` | how long does a read take, what is accepted, who is turned away? | buffer of 3, deadline of 3 ticks, 5 bytes, 2 signals |
| `rpc` | does the parser take a text for what it says? | texts of any length, nested up to 3, objects of up to 15 bytes fit, strings that are values hold no words but the version |
| `reply` | is a reply complete, within its buffers, and when is it refused? | 64 entries and the code's buffer sizes; ids of up to 64 plain and 64 escaped characters |

Why the bounds are enough: the entries of the store do not interact except through the
lookup by id and the capacity, which two entries show; the code compares who decides only with
the requester and with the allowlist, so an admin who changes its mind does to an entry what two
admins who disagree do; a restart matters through ids issued twice, so two
starts; only the comparison of the clock with an expiry matters, so a clock of two values
and a lifetime of 0 meet both outcomes. All properties of these two runs are also proved
for any number of entries, identities and starts. In the loop the order of turns repeats after one round, and the starvation
bounds (2 and 1) are reached with these clients; the second start meets whatever a first one may leave.
The configuration is edited before the first event only, since the log's content has no
influence on a start; two path rules show that a later line goes to the last one and that
one more than the limit ends the start; a crash within one event shows in the next, and so two
events. The parser counts depth in one place per kind of bracket, so a depth that leaves room
for a nested object in the params shows every return. A buffer of 16 bytes instead of 1024 has
room for `{"long":{},"session_id":""}`, a key that is too long, a nested object and the
session behind them, and overflows with one symbol more; an escape
counts two bytes, all other symbols one. A value that happens to be a word the parser looks for
elsewhere is so many letters to it, and is left out of the run (`Values`). `late`, the number of
connections accepted after the stop flag was set, is counted up to `MaxLate` only, beyond what
`StopIsPrompt` allows.

Fairness (`loop`, `pipe`, `read_request`): weak fairness of the daemon's own steps and, in
`ReadRequest`, of time, which is that the process is scheduled and its timeouts expire. Clients, signals and crashes are under no obligation.

Runs that end in a violation show where the code departs from the documents:

| run | what happens | what the documents say |
|---|---|---|
| `grant_record` | a grant whose event could not be written is in force and can be executed | v0.1.1 design, line 99 |
| `consent` | an id announced before a restart approves another request after it | design, line 158 |
| `pipe` | a client that leaves early kills the daemon | v0.1.1 design, line 112 |
| `startup_fresh` | a log that does not exist yet is created inside a writable root named by way of a link; the next start with the same file refuses it | v0.1.2 design, line 33; design, line 138 |
| `reply_whole` | a list of 32 entries for a client with a long id is sent without its end | v0.1.1 design, line 13 |

Two more are known and not run. The refusal of a self-approval is not audited, although the
design (line 154) wants an event for every denied request. And a request is stored before its
`approval_required` event is written, in the order that `grant_record` shows for approvals: a
client whose event could not be written is told `audit_failed` and no id (`AnswersAreTrue`), but
the entry stays in the store, and an admin who lists it can approve and execute it.

## 4. What the checks show

An approved request runs at most once (`AtMostOnce`), also when the event after the run
cannot be written and the admin tries again, or when a reject overwrites the spent status.
It runs only after `execution_started` is in the log (`RunsAreOnRecord`), and a result is
returned only with both events of that admin on record (`ResultsAreOnRecord`). Whoever
decides is an admin other than the requesting connection (`SeparationOfDuties`); this is a
statement about connections, since the code compares pids too and each use of
`anythingctl` is a new process. Logged rejections are final across restarts
(`RejectionIsFinal`), entries are never dropped, altered or reopened (`EntriesAreStable`),
ids name one entry (`IdsAreUnique`), and an answer tells what has become of the entry and is
on record before it is sent (`AnswersAreTrue`).

An event that was acknowledged is in the file whole (`AcknowledgedIsWritten`), and a failed
write spoils one line (`DamageIsBounded`), which may be the next event's: a line that was cut
short has no newline, and the next event continues it. The loop never blocks in `accept`
(`AcceptNeverBlocks`), neither socket starves the other (`NoPlaneStarves`), and after a
signal at most two more connections are served (`StopIsPrompt`).

One client holds the daemon for at most two deadlines (`HoldIsBounded`) - two, because the
deadline is compared before a `read` that then waits for a full timeout - no half request is
handled (`AcceptedIsComplete`) and no punctual client is turned away (`RefusalIsJustified`).
Lists are complete or refused; from 33 entries on, settled ones included, they are refused
until a restart (`ListsAreComplete`). A list of 32 entries for a client with an id of 88 or
more bytes after escaping is sent without its end, since nobody looks at the length
`anything_rpc_result` returns; what arrives is no JSON, which the run `reply_whole` shows; with shorter ids, and with
`sys.info`, that cannot happen (`ShortIdsGetAll`). An id that the parser takes can always be escaped (`IdsCanBeEscaped`), and
`anythingctl` shows all that is sent.

A start does not fail for what other daemons left, unless a system call fails
(`StartFailsOnlyByFault`); `unlink` is one of them, and its failure shows at the `bind` only. A
daemon that nobody disturbs is reached through its paths, whatever `unlink` did, and an orderly
end leaves no dead socket but one whose own `unlink` failed (`PathsLeadHere`), and whoever waits is answered or sees the connection end (`NobodyHangs`),
also where a daemon gives up between its two sockets or another one has taken its paths.

Without `--dev-insecure-admin` only who is listed is an admin (`AdminsAreListed`), unless a
comment is longer than the line buffer of 512 bytes: its rest is read as an entry. A log that
was there before is never inside a writable root (`ExistingLogIsOutside`), except `/`, which
contains nothing in `path_is_under`; what serves has a regular file of its own for a log
(`LogIsThere`).

`id` and `method` of an accepted request are what a JSON reader finds at the top of the text
(`FieldsAreTopLevel`). Its session is the string under `session_id` at the top of the params, and
`default` where there is none (`SessionIsTheCallers`), with two exceptions, which the second scan of
the params makes without a word: a `session_id` of 64 bytes or more, and a key of 64 bytes or more
anywhere before it in the params, both give `default`. No nested or skipped member, and no key of
another length, does. Which of two `session_id`s counts is left open. A request of the supported
kind is accepted (`SupportedIsAccepted`) unless it runs into one of three limits: an escape other
than `\"`, `\\`, `\n`, `\r`, `\t` in any string, 64 bytes for a key at the top or a field, 1024 bytes
for the params or any other object at the top, with whatever it holds; how deep it nests does not
matter otherwise. The parser is lax inside values it skips (`LaxOnlyInValues`), and it accepts a
text that ends behind a comma.

The recheck of hash and policy before execution (`ExecuteError`) never
fires, because neither the stored call nor the configuration can change in a run of the
daemon; it is modelled all the same.

## 5. Proofs

TLAPS proves the following for every value of the constants, from the named assumptions of
the modules alone. `ConstantsAssumption` and `LoopAssumption` only say what kind of thing
each constant is; the others are discussed with the theorems that use them. Every invariant
and every action property that a passing run checks is the property of one of these theorems,
so that the runs of section 3 are instances of them.

| module | theorem | states |
|---|---|---|
| `AnythingdProofs` | `TypeCorrect` | `TypeOK`: the store stays within its capacity and a handler never holds an entry that is not there |
| | `RunsAtMostOnce` | `AtMostOnce` |
| | `DutiesAreSeparate` | `SeparationOfDuties` |
| | `IdsNameEntries` | `IdsAreUnique` |
| | `AnswersHold` | `AnswersAreTrue` |
| | `RefusalsAreAudited` | `ToolRefusalsAreAudited` |
| | `RunsAreRecorded`, `ResultsAreRecorded` | `RunsAreOnRecord`, `ResultsAreOnRecord` |
| | `EntriesStayStable`, `RejectionsAreFinal` | the action properties `EntriesAreStable`, `RejectionIsFinal` |
| `AnythingdRefinement` | `ImplementsApprovalGate` | `ImplementsGate`, that is `Gate!Spec` |
| `EventLoopProofs` | `LoopTypeCorrect` | `TypeOK` |
| | `AcceptsNeverBlock` | `AcceptNeverBlocks` |
| | `PlanesShare` | `NoPlaneStarves` |
| | `StopsArePrompt` | `StopIsPrompt` |
| | `StartsFailOnlyByFault`, `PathsAreOwned` | `StartFailsOnlyByFault`, `PathsLeadHere` |
| `ReadRequestProofs` | `ReadTypeCorrect` | `TypeOK` |
| | `HoldsAreBounded` | `HoldIsBounded` |
| | `AcceptedAreComplete`, `RefusalsAreJustified` | `AcceptedIsComplete`, `RefusalIsJustified` |
| `RpcProofs` | `RpcTypeCorrect` | `TypeOK` |
| | `ParserIsLaxOnlyInValues` | the action property `LaxOnlyInValues` |
| `RpcRequests` | `FieldsAreTheTopLevelOnes` | `FieldsAreTopLevel` |
| | `SessionIsTheOneInTheParams` | `SessionIsTheCallers` |
| | `SupportedRequestsAreAccepted` | `SupportedIsAccepted` |
| `StartupProofs` | `FileTypeCorrect` | `TypeOK` of the audit file |
| | `AcknowledgedStays`, `DamageStaysBounded` | `AcknowledgedIsWritten`, `DamageIsBounded` |
| | `StartsWriteOneFile` | `BootSpec => Spec`: whatever starts, serves and ends writes the file as `AuditFile` says |
| | `BootTypeCorrect` | `BootTypeOK` |
| | `AdminsStayListed` | `AdminsAreListed` |
| | `LogStaysThere`, `ExistingLogStaysOutside` | `LogIsThere`, `ExistingLogIsOutside` |
| `ReplyProofs` | `ReplyTypeCorrect`, `BuffersAreKept` | `TypeOK`, `BufferIsKept` |
| | `ListsStayComplete` | `ListsAreComplete` |
| | `EveryIdIsEscaped` | `IdsCanBeEscaped` |
| | `OnlyLongIdsAreCut` | `ShortIdsGetAll`, for the sizes of the code and ids of any length |

### Anythingd

`AtMostOnce` is not inductive: it says nothing of an entry about to be run. The invariant
`IInv` adds three things. `Numbered`: the n-th entry has the n-th id of this run of the
daemon, so an id, a place and a ticket are the same thing, and a new entry cannot have the
ticket of an old one. `Serving`: what a handler knows where it stands, above all that the
entry it holds between announcing and running it is granted. `Accounted`: a ticket that
is not issued yet, or whose entry may still be granted and run, has not run. A run then
finds a granted entry, whose count is zero, and leaves an executed one, about which
`Accounted` demands no more than one run. A reject may overwrite executed by rejected, and
stays outside the statuses that demand zero. `DutyInv` strengthens `SeparationOfDuties`
in the same way by what is known while a decision waits to be logged (`Deciding`).

The answers and the log need more of what a handler knows. `Answered` says which answer waits
behind the event being written, `Told` that the entry at hand is what that answer says of it
from the moment the answer is chosen. `Framed` says that the announcement of a run is in the log
before the tool is called and stays there; `Settled` that a ticket whose rejection is in the log
has an entry that is rejected, or was lost with the store of an earlier run; `Noted` that the
event behind an answer that announces an id, an approval or a rejection is there. With `Settled`,
`RejectionIsFinal` is a statement about one step: what runs is granted, hence not settled.

The refinement needs `Issued` besides: entries are of issued tickets, and issued tickets
of this run have entries, so that a request starts from *none*, and *void* is what every
ticket in circulation becomes at once. Each action of the daemon then has a lemma saying
which step of the gate it is: `AddPending` is a request; approving opens; rejecting closes;
`AdminExecute` admits; a failing tool or a failing `execution_started` aborts; `RunTool`
runs; `Stop` forgets; `Start` reforms; the clock ticks; everything else moves nothing.

### EventLoop

`Placed` says that a connection is in one place: on the queue of its own socket, there once, or
being served. So only `accept` takes a client off its queue, and what `poll` saw is still there
when its turn comes (`Polled`). `Stopping` and `Fairly` count what may still happen in the
round at hand: a signal, and a client who came behind `poll`, wait for the rest of it and for
the polled connections of no more than one further round. `Owned` follows the two socket files
through a start, as long as nobody else touches them.

### AuditFile and Startup

`Ordered`: events come one after the other, each with one beginning. `Joined`: a fragment that
does not begin an event stands directly behind the fragment it belongs to, and that one is
whole. So whatever ends a line ends a whole one (`WholeLine`), an acknowledged event is such a
line, and a line that is spoilt begins with an event that has no end. That event's write was
not acknowledged, so it failed, and no two lines begin with the same event (`OneBeginning`):
the spoilt lines map injectively into the failed writes, which is `DamageIsBounded` for files
of any length.

`StartsWriteOneFile` carries these results over to any number of starts
(`LogOutlivesDaemons`). What a start has established by the time it serves is `Checked`;
`Listing` says that the admins so far were listed, unless a comment was split. That
no writable root holds the log is an argument about paths: the canonical form of a root is
`/` or ends in a name (`CanonicalRoot`), so a prefix of the log's path ends where one of its
names ends, which is what `path_is_under` asks. `PathsAssumption` excludes roots with two
slashes in a row, which `realpath` would collapse and `Canonical` does not.

### ReadRequest

`LimitsAssumption` says that the deadline and the buffer are above zero, which
`config.c:118-124` enforces. A `read` begins before the deadline and ends one deadline later at
most (`Timely`), no byte gets lost between client, socket and buffer (`Faithful`), and the daemon
reads on only as long as there is no line (`Reasoned`), so that a timeout at the deadline means a
client that sent none.

### Reply

`Written` says how long the text in the buffer is, by the entries that are in it; `Answered`
what became of it and why. `EntriesText` is a closed form, which `OneMoreEntry` shows to grow by an
entry and a comma at a time, and `CapacityExists` that there is a longest list that fits, whatever the
sizes. `SizesAssumption` bounds the store by 99 entries, so that ids have two digits at most, and
`BuffersAssumption` asks for room for an empty list and for an error. `OnlyLongIdsAreCut`
has the five sizes of the code as hypotheses: with others it may be false.

### Rpc

Parser, search and reader are automata that run side by side, the reader with a stack, for which
`MaxDepth` may be any bound. `Aligned` relates the first and the last: as long as neither
refuses the text, they are at the same place of the same member (`Beside`). The scans know no stack:
inside an object they count braces only, inside an array brackets only, and what is between
may be badly nested. `Nested` says why that is enough for a text that the reader follows:
the count is the number of brackets of that kind on the reader's stack, from the one on which the
value began (`Opens`), and the last of them is closed exactly when the value ends
(`OpensAlone`, `NestedStep`). So where the reader alone refuses, the parser is
inside a value or at white space, which is `LaxOnlyInValues`; `Product` lists the steps
the two take together, and `ProductSteps` shows that there are no others.

`Recorded` adds what has been read: the parser has seen the fields the reader has noted and kept
their texts, except for the field whose value is being read. `Searched` does the same for the
search of the params: it waits for them, is abreast of the reader one level deeper, has found the
string the reader has noted (`Found`), or has given up: for a `session_id` that is no string or
is too long (`GivenUp`, `TooLong`), or for too long a key (`Lost`), and then the session is
`default`. There is one more way to give up, a nested object too large for the buffer it
is skipped with; but that buffer is no smaller than the one of the params around it, so the parser
refuses these as well (`Full`).

For `SupportedIsAccepted` the parser's side is not enough, since after a refusal it says no more.
`Hopeless` is about the reader alone: a mark that no supported request has (`Unfit`), a
field that is there again or whose value is of the wrong kind, which leaves such a mark when it ends
(`Again`, `Unlike`), or a text that is not an object and so lacks the fields (`Elsewhere`). No
symbol leads out of it (`DoomedStep`), and wherever the parser refuses alone it is reached
(`RefusesHopeless`). Two facts about lengths are needed besides: what the parser has decoded so far
fits its buffer (`Fits`), so that only a `long` can overflow it, which is a mark (`Odd`); and
the size it counts of an object is the one noted beside the reader (`Weighed`, by `InsideSize`), so that
the object it refuses at its last brace is noted as too large (`note.big`). `BoundsAssumption`
asks of `MaxObject` and `Bytes` only that they are above zero.

### Model-checked only

Liveness (`NobodyHangs`, `StopCompletes`, `Returns`), which is outside what the prover can do.
The runs that end in a violation, which are about what does not hold.

## 6. Not modelled, and what is left

Left out: the hash function, which is an arbitrary function of the call; the parsing of
numbers and quoted values in the configuration (a value either parses or ends the start; a
number that does not parse is zero, which `sane` covers); the content of `sys.info`'s texts;
the requests `anythingctl` formats, which paste arguments as they are; what it returns when
the daemon dies before answering (no output and 0); `anything_json_write_string_field`, which
nothing calls; the tests and scripts.
