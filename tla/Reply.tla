-------------------------------- MODULE Reply --------------------------------
(***************************************************************************)
(* An answer as a text of a certain length: the id that was parsed from    *)
(* the request is escaped (json.c), approval.list or sys.info puts a text  *)
(* together in a buffer (anything_approval_list_json,                      *)
(* anything_sys_info_json), anything_rpc_result wraps both in another one, *)
(* and anythingctl reads once what is sent.                                *)
(*                                                                         *)
(* All entries are about sys.info, so that their texts differ in length    *)
(* only by the digits of their ids.  Lengths are those of the format       *)
(* strings in approval.c:107-132, rpc.c:317, sys_info.c:54-57 and          *)
(* policy.c:28-30.                                                         *)
(***************************************************************************)
EXTENDS Integers

CONSTANTS MaxPending,    \* ANYTHING_APPROVAL_MAX_PENDING
          MaxId,         \* ANYTHING_RPC_MAX_ID
          ResultSize,    \* char result[4096] in handle_admin_request
          InfoSize,      \* char result[2048] in handle_admin_execute
          ResponseSize,  \* ANYTHING_RPC_MAX_RESPONSE
          ClientSize,    \* char response[4096] in anythingctl
          Counts         \* bound: how many characters of each kind an id has

ASSUME SizesAssumption ==
    /\ MaxPending \in 1..99 /\ MaxId \in Nat \ {0}
    /\ {ResultSize, InfoSize, ResponseSize, ClientSize} \subseteq Nat \ {0}
    /\ Counts \subseteq Nat

\* An id by its characters that stand for themselves and those that are escaped.
Ids == [plain : Counts, special : Counts]

VARIABLES count,   \* entries in the store
          pc,      \* "idle", "header", "entries", "footer", "encode", "send" or "shown"
          i,       \* entries written
          used,    \* length of the text in result
          id,      \* of the request being answered
          asked,   \* "nothing", "list" or "info"
          reply,   \* "none", "whole", "cut" or "refused"
          sent,    \* length of the response
          shown    \* length of what anythingctl shows of it

vars == <<count, pc, i, used, id, asked, reply, sent, shown>>

TypeOK == /\ count \in 0..MaxPending /\ i \in 0..count
          /\ pc \in {"idle", "header", "entries", "footer", "encode", "send", "shown"}
          /\ used \in Nat /\ id \in Ids \cup {[plain |-> 0, special |-> 0]}
          /\ asked \in {"nothing", "list", "info"}
          /\ reply \in {"none", "whole", "cut", "refused"}
          /\ sent \in 0..ResponseSize - 1 /\ shown \in 0..ClientSize - 1

Least(m, n) == IF m < n THEN m ELSE n

\* anything_json_escape_string into a buffer of a certain size, as a length
Escaped(text) == text.plain + 2 * text.special
EscapeFits(length, size) == length < size

HeaderText == 12                     \* {"pending":[
FooterText == 2                      \* ]}
EnvelopeText == 36                   \* what anything_rpc_result adds, without the id
Digits(n) == IF n < 10 THEN 1 ELSE 2
EntryText(n) == 121 + Digits(n)      \* the n-th entry, with id req_<n>
Comma(n) == IF n = 1 THEN 0 ELSE 1

\* The length of the first n entries: one comma fewer, and from the tenth on a digit more.
EntriesText(n) == IF n = 0 THEN 0
                  ELSE n * (EntryText(1) + 1) - 1 + (IF n < 10 THEN 0 ELSE n - 9)

\* The length of the list of the first n entries.
ListText(n) == HeaderText + EntriesText(n) + FooterText

\* How many entries a reply can hold: the ListCapacity of Anythingd.
ListCapacity == CHOOSE n \in 0..MaxPending :
                    /\ ListText(n) < ResultSize
                    /\ n < MaxPending => ListText(n + 1) >= ResultSize

\* The longest texts sys.info reads (uname twice, /etc/os-release, /proc/uptime, uname),
\* the buffers they are escaped into, and what escaping makes of a character (alike in
\* all texts but the last, which has the least room).
RawTexts == <<64, 64, 255, 63, 64>>
TextSizes == <<256, 256, 512, 128, 128>>
Growth == {<<m, m, m, m, n>> : m \in {1, 2, 6}, n \in {1, 2, 6}}
InfoText(growth) == LET length(f) == growth[f] * RawTexts[f]
                    IN 100 + length(1) + length(2) + length(3) + length(4) + length(5)
InfoFits(growth) ==
    /\ \A f \in DOMAIN RawTexts : EscapeFits(growth[f] * RawTexts[f], TextSizes[f])
    /\ InfoText(growth) < InfoSize

\* anything_rpc_error with the longest id, kind and message its buffers take
ErrorText == 590

\* An empty list and every error fit.
ASSUME BuffersAssumption == ListText(0) < ResultSize /\ ErrorText < ResponseSize
-----------------------------------------------------------------------------
NoId == [plain |-> 0, special |-> 0]

Init == /\ count = 0 /\ pc = "idle" /\ i = 0 /\ used = 0 /\ id = NoId
        /\ asked = "nothing" /\ reply = "none" /\ sent = 0 /\ shown = 0

AddUnbounded == /\ pc = "idle" /\ count <= MaxPending
                /\ count' = count + 1
                /\ UNCHANGED <<pc, i, used, id, asked, reply, sent, shown>>

\* A tool request adds an entry.
Add == /\ pc = "idle" /\ count < MaxPending
       /\ count' = count + 1
       /\ UNCHANGED <<pc, i, used, id, asked, reply, sent, shown>>

\* The daemon is started anew.
Restart == /\ pc = "idle" /\ count > 0
           /\ count' = 0
           /\ UNCHANGED <<pc, i, used, id, asked, reply, sent, shown>>

\* parse_json_string decodes the id into a buffer of MaxId characters.
ParsesExactly(new) == new.plain + new.special <= MaxId
Parses(new) == new.plain + new.special < MaxId

List(new) == /\ pc = "idle" /\ Parses(new)
             /\ pc' = "header" /\ asked' = "list" /\ id' = new
             /\ UNCHANGED <<count, i, used, reply, sent, shown>>

\* approval.execute runs sys.info, ...
Info(new, growth) ==
    /\ pc = "idle" /\ Parses(new)
    /\ asked' = "info" /\ id' = new
    /\ InfoFits(growth)
    /\ used' = InfoText(growth) /\ pc' = "encode"
    /\ UNCHANGED <<count, i, reply, sent, shown>>

\* ... which fails if a text is too long after escaping; other errors look like this one.
InfoFails(new, growth) ==
    /\ pc = "idle" /\ Parses(new)
    /\ asked' = "info" /\ id' = new
    /\ ~InfoFits(growth)
    /\ pc' = "send" /\ reply' = "refused" /\ sent' = ErrorText
    /\ UNCHANGED <<count, i, used, shown>>

FitsExactly(length) == used + length <= ResultSize

\* snprintf returned less than the room there was, which includes the NUL.
Fits(length) == used + length < ResultSize

\* A text is written, or the list is given up.
Put(length, label) ==
    \/ /\ Fits(length)
       /\ used' = used + length /\ pc' = label
       /\ UNCHANGED <<reply, sent>>
    \/ /\ ~Fits(length)
       /\ pc' = "send" /\ reply' = "refused" /\ sent' = ErrorText
       /\ UNCHANGED used

Header == /\ pc = "header"
          /\ Put(HeaderText, "entries")
          /\ UNCHANGED <<count, i, id, asked, shown>>

EntryStops == /\ pc = "entries" /\ i < count
              /\ IF Fits(Comma(i + 1) + EntryText(i + 1) + FooterText)
                 THEN Put(Comma(i + 1) + EntryText(i + 1), "entries") /\ i' = i + 1
                 ELSE pc' = "footer" /\ UNCHANGED <<i, used, reply, sent>>
              /\ UNCHANGED <<count, id, asked, shown>>

Entry == /\ pc = "entries" /\ i < count
         /\ Put(Comma(i + 1) + EntryText(i + 1), "entries")
         /\ i' = i + 1
         /\ UNCHANGED <<count, id, asked, shown>>

LastEntry == /\ pc = "entries" /\ i = count
             /\ pc' = "footer"
             /\ UNCHANGED <<count, i, used, id, asked, reply, sent, shown>>

Footer == /\ pc = "footer"
          /\ Put(FooterText, "encode")
          /\ UNCHANGED <<count, i, id, asked, shown>>

\* What snprintf returns in anything_rpc_result is not looked at.
Respond(length) == /\ pc = "encode" /\ pc' = "send"
                   /\ reply' = IF length < ResponseSize THEN "whole" ELSE "cut"
                   /\ sent' = Least(length, ResponseSize - 1)
                   /\ UNCHANGED <<count, i, used, id, asked, shown>>
EncodeEscapedTwice == Respond(EnvelopeText + 2 * Escaped(id) + used)
Encode == Respond(EnvelopeText + Escaped(id) + used)

\* anythingctl reads once.
Show == /\ pc = "send" /\ pc' = "shown"
        /\ shown' = Least(sent, ClientSize - 1)
        /\ UNCHANGED <<count, i, used, id, asked, reply, sent>>

Done == /\ pc = "shown" /\ pc' = "idle"
        /\ i' = 0 /\ used' = 0 /\ id' = NoId /\ asked' = "nothing"
        /\ reply' = "none" /\ sent' = 0 /\ shown' = 0
        /\ UNCHANGED count

Next == \/ Add \/ Restart
        \/ \E new \in Ids : \/ List(new)
                            \/ \E growth \in Growth :
                                  Info(new, growth) \/ InfoFails(new, growth)
        \/ Header \/ Entry \/ LastEntry \/ Footer \/ Encode \/ Show \/ Done

Spec == Init /\ [][Next]_vars
-----------------------------------------------------------------------------
(* Properties *)

\* The text and its NUL stay within the buffer, so that out_len - used, a size_t,
\* never wraps around (approval.c:108-133).
BufferIsKept == asked = "list" => used < ResultSize

\* A list that is sent at all was put together from every entry in the store, and a
\* list is refused just when there are more entries than ListCapacity: from then on
\* no admin sees a list until the daemon is started anew.
ListsAreComplete ==
    pc = "send" /\ asked = "list" =>
        IF count <= ListCapacity
        THEN reply \in {"whole", "cut"} /\ used = ListText(count)
        ELSE reply = "refused"

\* Clients that number their requests, as anythingctl does, get whole replies, and
\* everyone gets those of sys.info: only an id that is long after escaping makes a list
\* outgrow the response, which is then sent without its end (anythingd.c:196).  The single
\* read of anythingctl loses nothing that was sent (anythingctl.c:99-107).
ShortIdsGetAll ==
    reply = "cut" \/ (pc = "shown" /\ shown < sent) =>
        asked = "list" /\ Escaped(id) > 80 /\ count = ListCapacity

\* An id the parser accepts can be escaped: its escaping never fails, in which case
\* anything_rpc_result would leave the response as it was and nobody would notice
\* (rpc.c:313-316, anythingd.c:175 and 196).
IdsCanBeEscaped == pc # "idle" => EscapeFits(Escaped(id), 2 * MaxId)
-----------------------------------------------------------------------------
(* What the documents say of the responses, and the daemon does not do *)

\* Responses and lists are valid JSON, so none is sent without its end.  What
\* anything_rpc_result returns is not looked at (anythingd.c:196), and a list of 32
\* entries leaves no room in the response for an id of 88 bytes or more after escaping.
ResponsesAreWhole == pc = "send" => reply # "cut"
=============================================================================
