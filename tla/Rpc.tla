--------------------------------- MODULE Rpc ---------------------------------
(***************************************************************************)
(* The JSON-RPC parser (anything_rpc_parse, rpc.c) on texts of any length, *)
(* one symbol at a time, beside a reader that knows JSON.                  *)
(*                                                                         *)
(* A symbol is a character or a stretch of characters that the parser      *)
(* treats alike.  The text is not kept: all that counts at any point is    *)
(* where the parser, the scan of the params and the JSON reader are.       *)
(* anything_rpc_extract_param_string reads the params after the parser has *)
(* copied them; here it follows one symbol behind the other, which makes   *)
(* no difference, since it reads the copy once from its start.             *)
(***************************************************************************)
EXTENDS Integers, Sequences, SequencesExt

CONSTANTS MaxDepth,   \* bound: how deep the text nests objects and arrays
          Values,     \* bound: the words that values are, other than the version
          MaxObject,  \* the size of the buffers for an object's text (ANYTHING_RPC_MAX_PARAMS)
          Bytes       \* how many bytes of the text a symbol is

Required == {"jsonrpc", "id", "method"}
Fields == Required \cup {"params"}
Words == Fields \cup {"session_id", "2.0"}

\* "atom" is a number, true, false or null, and in a string any letter; "escape" is one of
\* \\ \n \r \t, "escquote" is \" and "unicode" any other escape; "long" is a stretch that
\* decodes to 64 bytes, as many as no buffer for a string holds: a longer string is one with
\* "long" in it, whatever it is made of, and the letters that are left over; "newline" is
\* the white space JSON has beside the space, "formfeed" what only isspace knows; "end" is
\* the NUL.
Blank == {"space", "newline", "formfeed"}
Symbols == {"{", "}", "[", "]", ":", ",", "quote", "escquote", "escape", "unicode", "atom",
            "long", "end"} \cup Blank \cup Words

ASSUME BoundsAssumption == /\ MaxDepth \in Nat \ {0, 1} /\ Values \subseteq Words
                           /\ MaxObject \in Nat \ {0} /\ Bytes \in [Symbols -> Nat \ {0}]

\* What a string holds: nothing, one word, more than 63 bytes, or something else.
Contents == Words \cup {"", "text", "long"}

VARIABLES parser,   \* anything_rpc_parse
          seen,     \* rpc_scan: the fields that were seen
          request,  \* the fields of anything_rpc_request that are strings
          params,   \* anything_rpc_extract_param_string for "session_id"
          json,     \* the reader that knows JSON
          note      \* what is noted of lengths beside it

vars == <<parser, seen, request, params, json, note>>

\* A scan: where it is, the key it is at, whether it is inside a string, the string
\* so far, the depth within a value that is passed over, and how much of an object was.
Scan(at) == [at |-> at, key |-> "", quoted |-> FALSE, text |-> "", nest |-> 0, size |-> 0]
Scans == [at : {"start", "key", "colon", "value", "object", "array", "scalar",
                "next", "done", "accepted", "refused", "found"},
          key : Contents, quoted : BOOLEAN, text : Contents, nest : 0..MaxDepth,
          size : 0..MaxObject]
Refused == Scan("refused")

Reader(at) == [at |-> at, stack |-> <<>>, key |-> "", sub |-> "", text |-> "", odd |-> FALSE,
               members |-> [m \in Fields \cup {"session_id"} |-> "absent"]]

Extend(text, c) == IF "long" \in {text, c} THEN "long"
                   ELSE IF text = "" /\ c \in Words THEN c
                   ELSE "text"

\* A key that no strcmp looks for is like any other.
Name(text) == IF text \in Fields \cup {"session_id"} THEN text ELSE "text"

\* So many bytes, of which only those that fit count.
Grown(size, c) == IF size + Bytes[c] < MaxObject THEN size + Bytes[c] ELSE MaxObject

\* Of an object the bytes are counted, between its braces and in its strings.
Counted(s, c) == IF s.at = "object" THEN [s EXCEPT !.size = Grown(@, c)] ELSE s

Quote(s) == [s EXCEPT !.quoted = TRUE, !.text = ""]
Unquote(s) ==
    CASE s.at = "key" -> [Scan("colon") EXCEPT !.key = Name(s.text)]
      [] s.at = "value" -> Scan("next")
      [] OTHER -> [s EXCEPT !.quoted = FALSE]

\* Inside a string, whose content is decoded into a buffer or passed over.
Literal(s, c, decode) ==
    CASE c = "quote" -> Unquote(Counted(s, c))
      [] c \in {"unicode", "newline", "formfeed", "end"} -> Refused
      [] OTHER -> IF ~decode THEN Counted(s, c)
                  ELSE IF Extend(s.text, c) = "long" THEN Refused
                  ELSE [s EXCEPT !.text = Extend(@, c)]

\* Inside an object, which counts braces, or an array, which counts brackets: up to the
\* one that closes it.  An object must fit its buffer, with a NUL behind it.
RawTight(s, c, open, close) ==
    CASE c \in {"quote", "escquote"} -> [Counted(s, c) EXCEPT !.quoted = TRUE]
      [] c = open -> [Counted(s, c) EXCEPT !.nest = @ + 1]
      [] c = close /\ s.nest > 1 -> [Counted(s, c) EXCEPT !.nest = @ - 1]
      [] c = close /\ s.nest = 1 ->
            IF close = "}" /\ Counted(s, c).size >= MaxObject - 1 THEN Refused
            ELSE Scan("next")
      [] c = "end" -> Refused
      [] OTHER -> Counted(s, c)

Raw(s, c, open, close) ==
    CASE c \in {"quote", "escquote"} -> [Counted(s, c) EXCEPT !.quoted = TRUE]
      [] c = open -> [Counted(s, c) EXCEPT !.nest = @ + 1]
      [] c = close /\ s.nest > 1 -> [Counted(s, c) EXCEPT !.nest = @ - 1]
      [] c = close /\ s.nest = 1 ->
            IF close = "}" /\ Counted(s, c).size = MaxObject THEN Refused
            ELSE Scan("next")
      [] c = "end" -> Refused
      [] OTHER -> Counted(s, c)

RawOf(s, c) == IF s.at = "object" THEN Raw(s, c, "{", "}") ELSE Raw(s, c, "[", "]")

SkipValueUncounted(s, c) ==
    CASE c = "quote" -> Quote(s)
      [] c = "{" -> [s EXCEPT !.at = "object"]
      [] c = "[" -> [s EXCEPT !.at = "array"]
      [] OTHER -> [s EXCEPT !.at = "scalar"]

\* A value that nobody asked for, at its first symbol.
SkipValue(s, c) ==
    CASE c = "quote" -> Quote(s)
      [] c = "{" -> [s EXCEPT !.at = "object", !.nest = 1, !.size = Grown(0, c)]
      [] c = "[" -> [s EXCEPT !.at = "array", !.nest = 1]
      [] OTHER -> [s EXCEPT !.at = "scalar"]
EndsScalar(c) == c \in {",", "}", "]", "end"}
SkipsBlank(s, c) == c \in Blank /\ ~s.quoted /\ s.at \notin {"object", "array", "scalar"}
-----------------------------------------------------------------------------
(* anything_rpc_parse *)

Init == /\ parser = Scan("start") /\ seen = {}
        /\ request = [f \in {"id", "method"} |-> ""]
        /\ params = Scan("start")
        /\ json = Reader("value")
        /\ note = [size |-> 0, big |-> FALSE, lost |-> FALSE]

InField == parser.at = "value" /\ parser.key \in Required
Checked == IF Required \subseteq seen THEN Scan("accepted") ELSE Refused
AfterValueLoose(c) == CASE c \in {",", "atom"} -> Scan("key")
                        [] c = "}" -> Scan("done")
                        [] OTHER -> Refused
AfterValue(c) == CASE c = "," -> Scan("key")
                   [] c = "}" -> Scan("done")
                   [] OTHER -> Refused

ParseString(c) ==
    /\ parser.quoted
    /\ parser' = IF c = "quote" /\ InField /\ parser.key = "jsonrpc" /\ parser.text # "2.0"
                 THEN Refused
                 ELSE Literal(parser, c, InField \/ parser.at = "key")
    /\ request' = IF c = "quote" /\ InField /\ parser.key \in DOMAIN request
                  THEN [request EXCEPT ![parser.key] = parser.text]
                  ELSE request
    /\ UNCHANGED seen

ParseColonAgain(c) ==
    /\ parser.at = "colon" /\ ~SkipsBlank(parser, c)
    /\ IF c = ":"
       THEN parser' = [parser EXCEPT !.at = "value"]
            /\ seen' = seen \cup ({parser.key} \cap Fields)
       ELSE parser' = Refused /\ UNCHANGED seen
    /\ UNCHANGED request

\* A field may come once.
ParseColon(c) ==
    /\ parser.at = "colon" /\ ~SkipsBlank(parser, c)
    /\ IF c = ":" /\ parser.key \notin seen
       THEN parser' = [parser EXCEPT !.at = "value"]
            /\ seen' = seen \cup ({parser.key} \cap Fields)
       ELSE parser' = Refused /\ UNCHANGED seen
    /\ UNCHANGED request

ParseValue(c) ==
    /\ parser.at = "value" /\ ~parser.quoted /\ ~SkipsBlank(parser, c)
    /\ parser' = CASE parser.key \in Required ->
                        IF c = "quote" THEN Quote(parser) ELSE Refused
                   [] parser.key = "params" ->
                        IF c = "{" THEN SkipValue(parser, c) ELSE Refused
                   [] OTHER -> IF EndsScalar(c) THEN AfterValue(c) ELSE SkipValue(parser, c)
    /\ UNCHANGED <<seen, request>>

\* The rest of the loop, and what follows it.
ParseOther(c) ==
    /\ ~parser.quoted /\ ~SkipsBlank(parser, c)
    /\ \/ /\ parser.at = "start"
          /\ parser' = IF c = "{" THEN Scan("key") ELSE Refused
       \/ /\ parser.at = "key"
          /\ parser' = CASE c = "quote" -> Quote(parser)
                         [] c = "end" -> Checked
                         [] OTHER -> Refused
       \/ /\ parser.at \in {"object", "array"}
          /\ parser' = RawOf(parser, c)
       \/ /\ parser.at = "scalar"
          /\ parser' = IF EndsScalar(c) THEN AfterValue(c) ELSE parser
       \/ /\ parser.at = "next"
          /\ parser' = AfterValue(c)
       \/ /\ parser.at = "done"
          /\ parser' = IF c = "end" THEN Checked ELSE Refused
       \/ /\ parser.at \in {"accepted", "refused"}
          /\ UNCHANGED parser
    /\ UNCHANGED <<seen, request>>

SkipWs(c) == SkipsBlank(parser, c) /\ UNCHANGED <<parser, seen, request>>

Parse(c) == ParseString(c) \/ ParseColon(c) \/ ParseValue(c) \/ ParseOther(c) \/ SkipWs(c)
-----------------------------------------------------------------------------
(* anything_rpc_extract_param_string, for "session_id" *)

InAnyMember(s) == s.at = "value"
InSession(s) == s.at = "value" /\ s.key = "session_id"

\* At the head of the loop: a comma, where there is one, is behind.
Member(s, c) == CASE c = "," /\ s.at # "key" -> Scan("key")
                  [] c = "quote" -> Quote(Scan("key"))
                  [] OTHER -> Refused

ExtractString(s, c) == IF c = "quote" /\ InSession(s) THEN [Scan("found") EXCEPT !.text = s.text]
                       ELSE Literal(s, c, InSession(s) \/ s.at = "key")

ExtractAt(s, c) ==
    CASE s.at \in {"found", "refused"} -> s
      [] s.at = "start" -> Scan("key")
      [] s.at = "colon" -> IF c = ":" THEN [s EXCEPT !.at = "value"] ELSE Refused
      [] InSession(s) -> IF c = "quote" THEN Quote(s) ELSE Refused
      [] s.at = "value" /\ ~InSession(s) -> IF EndsScalar(c) THEN Member(s, c) ELSE SkipValue(s, c)
      [] s.at \in {"object", "array"} -> RawOf(s, c)
      [] s.at = "scalar" -> IF EndsScalar(c) THEN Member(s, c) ELSE s
      [] s.at \in {"key", "next"} -> Member(s, c)

Extract(s, c) == IF s.quoted THEN ExtractString(s, c)
                 ELSE IF SkipsBlank(s, c) THEN s ELSE ExtractAt(s, c)

\* The symbols that copy_json_object_raw copies for it.
IsOfParams(c) == \/ parser.at = "object" /\ parser.key = "params"
                 \/ parser.at = "value" /\ parser.key = "params" /\ c = "{"
Follow(c) == params' = IF IsOfParams(c) THEN Extract(params, c) ELSE params

Session == IF params.at = "found" THEN params.text ELSE "default"
-----------------------------------------------------------------------------
(* A reader of JSON (RFC 8259), which notes the members of the object that is the *)
(* text and the session_id in its params.                                         *)

Depth(j) == Len(j.stack)
Error(j) == Reader("error")

\* The member whose value is being read, if it is one of those.
Noted(j) == CASE j.stack = <<"{">> -> {j.key} \cap Fields
              [] j.stack = <<"{", "{">> /\ j.key = "params" -> {j.sub} \cap {"session_id"}
              [] OTHER -> {}
Valued(j, v) ==
    [j EXCEPT !.at = IF j.stack = <<>> THEN "top" ELSE "after",
              !.text = "", !.key = IF Depth(j) > 1 THEN @ ELSE "",
              !.sub = IF Depth(j) > 2 THEN @ ELSE "",
              !.members = [m \in DOMAIN @ |-> IF m \notin Noted(j) THEN @[m]
                                              ELSE IF @[m] = "absent" THEN v
                                              ELSE "twice"]]
Closed(j, v) == Valued([j EXCEPT !.stack = Front(@)], v)
Keyed(j) == [j EXCEPT !.at = "colon", !.text = "",
                      !.key = IF Depth(j) = 1 THEN Name(j.text) ELSE @,
                      !.sub = IF Depth(j) = 2 THEN Name(j.text) ELSE @]

\* Behind a value, in the object or array it belongs to.
Behind(j, c) == CASE c = "," /\ Last(j.stack) = "{" -> [j EXCEPT !.at = "key"]
                  [] c = "," /\ Last(j.stack) = "[" -> [j EXCEPT !.at = "value"]
                  [] c = "}" /\ Last(j.stack) = "{" -> Closed(j, "object")
                  [] c = "]" /\ Last(j.stack) = "[" -> Closed(j, "array")
                  [] OTHER -> Error(j)

Matters(j) == IF j.at = "string" THEN Noted(j) # {}
              ELSE j.stack = <<"{">> \/ (j.stack = <<"{", "{">> /\ j.key = "params")

\* What the parser does not take in a string: an escape of another kind anywhere, and
\* a top-level key, or a field's value, that its buffer does not hold.
Odd(j, c) == c = "unicode" \/ (c = "long" /\ j.stack = <<"{">> /\ Matters(j))

ReadString(j, c) ==
    CASE c = "quote" -> IF j.at = "keystring" THEN Keyed(j) ELSE Valued(j, j.text)
      [] c \in {"newline", "formfeed", "end"} -> Error(j)
      [] OTHER -> [j EXCEPT !.text = IF Matters(j) THEN Extend(@, c) ELSE @,
                            !.odd = @ \/ Odd(j, c)]

ReadValue(j, c) ==
    CASE c = "quote" -> [j EXCEPT !.at = "string"]
      [] c = "{" -> [j EXCEPT !.at = "open", !.stack = Append(@, c)]
      [] c = "[" -> [j EXCEPT !.at = "element", !.stack = Append(@, c)]
      [] c \in {"atom", "2.0"} -> Valued(j, "atom")
      [] OTHER -> Error(j)

ReadAt(j, c) ==
    CASE j.at = "error" -> j
      [] j.at = "value" -> ReadValue(j, c)
      [] j.at = "element" -> IF c = "]" THEN Closed(j, "array") ELSE ReadValue(j, c)
      [] j.at \in {"open", "key"} ->
            CASE c = "quote" -> [j EXCEPT !.at = "keystring"]
              [] c = "}" /\ j.at = "open" -> Closed(j, "object")
              [] c = "end" /\ j.at = "key" -> [j EXCEPT !.at = "cut"]
              [] OTHER -> Error(j)
      [] j.at = "colon" -> IF c = ":" THEN [j EXCEPT !.at = "value"] ELSE Error(j)
      [] j.at = "after" -> Behind(j, c)
      [] j.at = "top" -> IF c = "end" THEN [j EXCEPT !.at = "ended"] ELSE Error(j)

Read(j, c) == IF j.at \in {"string", "keystring"} THEN ReadString(j, c)
              ELSE IF c \in Blank \ {"formfeed"} THEN j ELSE ReadAt(j, c)
-----------------------------------------------------------------------------
(* The lengths: how long a member of the text that is an object is so far, whether *)
(* one was too long, and whether the params had too long a key before session_id.  *)

InObject(j) == Depth(j) > 1 /\ j.stack[1] = "{" /\ j.stack[2] = "{"
Buries(j) == /\ j.at = "keystring" /\ j.stack = <<"{", "{">> /\ j.key = "params"
             /\ j.text = "long" /\ j.members["session_id"] = "absent"
Measure(c) ==
    note' = [size |-> IF InObject(json') THEN Grown(note.size, c) ELSE 0,
             big  |-> note.big \/ (/\ InObject(json) /\ Depth(json') = 1
                                  /\ Grown(note.size, c) = MaxObject),
             lost |-> note.lost \/ Buries(json')]
-----------------------------------------------------------------------------
\* So far the text is a request of the supported kind.
Supported == /\ json.at \notin {"cut", "error"} /\ ~json.odd /\ ~note.big
             /\ json.members["jsonrpc"] \in {"absent", "2.0"}
             /\ json.members["params"] \in {"absent", "object"}
             /\ \A f \in {"id", "method"} : json.members[f] \in {"absent"} \cup Contents

Ended == \/ json.at \in {"ended", "cut"} \/ parser.at = "accepted"
         \/ parser = Refused /\ ~Supported

Symbol(c) == /\ ~Ended
             /\ parser.quoted /\ parser.at = "value" /\ parser.key # "jsonrpc" => c \notin Words \ Values
             /\ params.quoted /\ params.at = "value" => c \notin Words \ Values
             /\ c \in {"{", "["} => \A d \in {Depth(json), parser.nest, params.nest} : d < MaxDepth
             /\ Parse(c) /\ Follow(c) /\ json' = Read(json, c) /\ Measure(c)

Next == \E c \in Symbols : Symbol(c)

Spec == Init /\ [][Next]_vars
-----------------------------------------------------------------------------
(* Properties *)

\* The scans are where their depths and strings say.
TypeOK == /\ parser \in Scans /\ params \in Scans
          /\ seen \subseteq Fields
          /\ request \in [{"id", "method"} -> Contents \ {"long"}]
          /\ note \in [size : 0..MaxObject, big : BOOLEAN, lost : BOOLEAN]
          /\ \A s \in {parser, params} : s.nest > 0 <=> s.at \in {"object", "array"}

\* Nothing nested passes for a top-level key: id and method of an accepted text are
\* those a JSON reader finds at its top level, each of which is there once; so are
\* those of a text cut behind a comma, which is accepted too (rpc.c:232-304).
FieldsAreTopLevel ==
    parser.at = "accepted" /\ json.at # "error" =>
        /\ json.members["jsonrpc"] = "2.0"
        /\ \A f \in {"id", "method"} : json.members[f] = request[f]
        /\ json.members["params"] \in {"absent", "object"}

\* A request that is valid JSON, with string fields and an object for params, is not
\* refused, whatever else it holds, unless it runs into one of three limits: an escape
\* other than \" \\ \n \r \t in any string, 64 bytes for a top-level key or a
\* field's value, and MaxObject bytes for a top-level member that is an object.  What is
\* skipped without being understood is skipped to its end, however deep it nests
\* (skip_json_value, copy_json_object_raw).
SupportedIsAccepted ==
    json.at = "ended" /\ Supported /\ (\A f \in Required : json.members[f] # "absent")
        => parser.at = "accepted"

\* The session is the string under session_id at the top of the params: neither nested
\* members nor ones that come before it mislead the search, with two exceptions, in which
\* the request is accepted all the same and its session is "default" as if it had none:
\* a session_id of 64 bytes or more, and a key of 64 bytes or more before it.  It is
\* "default" too where session_id is no string; which of two counts is left open
\* (anything_rpc_extract_param_string, rpc.c:305-307).
SessionIsTheCallers ==
    parser.at = "accepted" /\ json.at # "error" =>
        LET session == json.members["session_id"] IN
        CASE session \in Contents \ {"long"} /\ ~note.lost -> Session = session
          [] session = "twice" /\ ~note.lost -> TRUE
          [] OTHER -> Session = "default"

\* Apart from texts cut behind a comma, what the parser lets pass that is not JSON is
\* inside a value it skips or copies, or white space of another kind; between the members it refuses what a
\* JSON reader refuses, at the same place (rpc.c:229-284).
LaxOnlyInValues ==
    [][json.at # "error" /\ json'.at = "error" =>
          \/ parser' = Refused
          \/ parser.at \in {"value", "object", "array", "scalar"}
          \/ parser' = parser]_vars
=============================================================================
