------------------------------ MODULE RpcRequests ----------------------------
(*****************************************************************************)
(* What becomes of a text in Rpc, for all depths and words: the fields of an *)
(* accepted request are those at its top level, its session is the one in    *)
(* its params, and what is refused is not a request of the supported kind.   *)
(*                                                                           *)
(* The argument: while parser and reader are side by side, what the parser   *)
(* has recorded goes with what the reader has noted, member by member, and   *)
(* so does the search of the params; where the parser refuses alone, the     *)
(* reader's notes rule the text out already, or will when the value it is in *)
(* ends.                                                                     *)
(*****************************************************************************)
EXTENDS RpcProofs
-----------------------------------------------------------------------------
(* The fields of the request. *)
InMember == parser.at \in {"value", "object", "array"}

\* What the parser has kept of the fields is what the reader has noted; the field whose
\* value is being read is seen already and not yet noted.
Recorded ==
    /\ InMember /\ parser.key \in Fields => parser.key \in seen
    /\ \A f \in Fields : json.members[f] = "absent" <=> (f \notin seen \/ (InMember /\ parser.key = f))
    /\ \A f \in {"id", "method"} : json.members[f] \in {"absent", request[f]}
    /\ json.members["jsonrpc"] \in {"absent", "2.0"}
    /\ json.members["params"] \in {"absent", "object"}

\* The values the parser passes over are not those it decodes.
Passed ==
    /\ parser.at \in {"object", "array"} => parser.key \notin Required
    /\ parser.at = "array" => parser.key # "params"
    /\ parser.at = "value" /\ parser.quoted => parser.key # "params"
    /\ parser.at = "accepted" => Required \subseteq seen

Matched == Live => Recorded /\ Passed

\* The fields of a request.
LEMMA FieldsAre ==
    /\ Fields = Required \cup {"params"} /\ Required = {"jsonrpc", "id", "method"}
    /\ "params" \notin Required /\ "jsonrpc" \in Fields /\ "params" \in Fields
    /\ "id" \in Fields /\ "method" \in Fields /\ Fields \subseteq Names
    /\ "session_id" \notin Fields
BY DEF Fields, Required, Names

\* A step inside a member or between members records nothing.
LEMMA RecordsStay ==
    ASSUME Recorded, seen' = seen, request' = request,
           \A f \in Fields : json'.members[f] = json.members[f],
           InMember' <=> InMember, InMember => parser'.key = parser.key
    PROVE  Recorded'
BY FieldsAre DEF Recorded

\* At the end of a member, the parser has kept what the reader notes.
LEMMA MemberEnds ==
    ASSUME Recorded, InMember, ~InMember', seen' = seen,
           NEW j \in Readers, j.stack = TopText, j.key = parser.key, j.members = json.members,
           NEW v \in Marks, v # "absent", json'.members = Marked(j, v),
           parser.key = "jsonrpc" => v = "2.0",
           parser.key = "params" => v = "object",
           parser.key \in {"id", "method"} => v = request'[parser.key],
           \A f \in {"id", "method"} : f # parser.key => request'[f] = request[f]
    PROVE  Recorded'
<1>1. Noted(j) = {parser.key} \cap Fields
  BY NotedIs
<1>2. ASSUME NEW f \in Fields, f # parser.key PROVE json'.members[f] = json.members[f]
  <2>1. f \notin Noted(j) /\ f \in Names
    BY <1>1, <1>2, FieldsAre
  <2> QED
    BY <2>1, MarkedIs
<1>3. ASSUME parser.key \in Fields PROVE json'.members[parser.key] = v
  <2>1. parser.key \in Noted(j) /\ parser.key \in Names
    BY <1>1, <1>3, FieldsAre
  <2>2. json.members[parser.key] = "absent"
    BY <1>3 DEF Recorded
  <2> QED
    BY <2>1, <2>2, MarkedIs
<1>4. \A f \in Fields : json'.members[f] = "absent" <=> f \notin seen'
  <2> TAKE f \in Fields
  <2>1. CASE f = parser.key
    BY <1>3, <2>1 DEF Recorded
  <2>2. CASE f # parser.key
    BY <1>2, <2>2 DEF Recorded
  <2> QED
    BY <2>1, <2>2
<1>5. \A f \in {"id", "method"} : json'.members[f] \in {"absent", request'[f]}
  <2> TAKE f \in {"id", "method"}
  <2>1. f \in Fields
    BY FieldsAre
  <2>2. CASE f = parser.key
    BY <1>3, <2>1, <2>2
  <2>3. CASE f # parser.key
    BY <1>2, <2>1, <2>3 DEF Recorded
  <2> QED
    BY <2>2, <2>3
<1>6. json'.members["jsonrpc"] \in {"absent", "2.0"}
  BY <1>2, <1>3, FieldsAre DEF Recorded
<1>7. json'.members["params"] \in {"absent", "object"}
  BY <1>2, <1>3, FieldsAre DEF Recorded
<1> QED
  BY <1>4, <1>5, <1>6, <1>7 DEF Recorded

\* Each common step keeps the records in agreement.
LEMMA MatchedStep ==
    ASSUME SideInv, Beside, Recorded, Passed, NEW c \in Symbols, Parse(c), Product(c)
    PROVE  Recorded' /\ Passed'
<1>1. /\ json \in Readers /\ ReaderOK(json) /\ TypeInv /\ Placed(parser) /\ parser \in Scans
  BY DEF SideInv, ReaderOK, TypeInv, Placed
<1>2. \A at \in Places \ {"object", "array"} : Scan(at).at = at /\ ~Scan(at).quoted
  BY ScanIsPlaced
<1>3. ASSUME parser.at # "colon", ~(parser.quoted /\ c = "quote" /\ InField /\ parser.key \in DOMAIN request)
      PROVE  seen' = seen /\ request' = request
  BY <1>1, <1>3, RecordsAre
<1>4. \A at : Goes(json, at).members = json.members
  BY <1>1, GoesIs
<1>5. CASE Blanking(c)
  <2>1. seen' = seen /\ request' = request
    BY <1>1, <1>5, RecordsAre DEF Blanking
  <2> QED
    BY <1>5, <2>1, RecordsStay DEF Blanking, InMember, Passed
<1>6. CASE Opening(c) \/ BeginningKey(c) \/ SpellingKey(c) \/ Continuing(c) \/ Cutting(c) \/ Finishing(c)
  <2>1. seen' = seen /\ request' = request /\ ~InMember
    BY <1>3, <1>6 DEF Opening, BeginningKey, SpellingKey, Continuing, Cutting, Finishing, InField, InMember
  <2>2. json'.members = json.members
    <3>1. Pushed(json, "open", c).members = json.members
      BY <1>1 DEF Pushed, Readers
    <3>2. Spelled(json, c).members = json.members
      BY <1>1, SpelledIs
    <3> QED
      BY <1>4, <1>6, <3>1, <3>2 DEF Opening, BeginningKey, SpellingKey, Continuing, Cutting, Finishing
  <2>3. /\ parser'.at \in {"key", "accepted"}
        /\ parser'.at = "accepted" => Required \subseteq seen
    <3>1. CASE Opening(c) \/ Continuing(c) \/ Cutting(c) \/ Finishing(c)
      BY <1>2, <3>1 DEF Opening, Continuing, Cutting, Finishing, Places
    <3>2. CASE BeginningKey(c) \/ SpellingKey(c)
      BY <1>1, <3>2 DEF BeginningKey, SpellingKey, Quote, Scans
    <3> QED
      BY <1>6, <3>1, <3>2
  <2> QED
    BY <2>1, <2>2, <2>3, RecordsStay DEF InMember, Passed
<1>7. CASE EndingKey(c)
  <2>1. seen' = seen /\ request' = request /\ ~InMember
    BY <1>3, <1>7 DEF EndingKey, InField, InMember
  <2>2. json'.members = json.members
    BY <1>1, <1>7, KeyedIs DEF EndingKey
  <2>3. parser'.at = "colon"
    BY <1>7 DEF EndingKey, Scan
  <2> QED
    BY <2>1, <2>2, <2>3, RecordsStay DEF InMember, Passed
<1>8. CASE PassingColon(c)
  <2>1. /\ parser'.at = "value" /\ parser'.key = parser.key /\ ~parser'.quoted
    BY <1>1, <1>8 DEF PassingColon, Scans, Placed
  <2>2. json'.members = json.members
    BY <1>4, <1>8 DEF PassingColon
  <2>3. seen' = seen \cup ({parser.key} \cap Fields) /\ request' = request /\ ~InMember
    <3>1. parser.at = "colon" /\ ~InField
      BY <1>8 DEF PassingColon, InField
    <3> QED
      BY <1>1, <2>1, <3>1, RecordsAre DEF InMember
  <2>4. Recorded'
    <3>1. parser.key \notin seen
      BY <1>8 DEF PassingColon
    <3>2. InMember'
      BY <2>1 DEF InMember
    <3>3. parser.key \in Fields => parser.key \in seen'
      BY <2>3, Zenon
    <3>4. ASSUME NEW f \in Fields
          PROVE  json'.members[f] = "absent" <=> (f \notin seen' \/ parser.key = f)
      <4>1. json.members[f] = "absent" <=> f \notin seen
        BY <2>3 DEF Recorded
      <4>2. f \in seen' <=> f \in seen \/ parser.key = f
        BY <2>3, Zenon
      <4> QED
        BY <2>2, <3>1, <4>1, <4>2, Zenon
    <3>5. /\ \A f \in {"id", "method"} : json'.members[f] \in {"absent", request'[f]}
          /\ json'.members["jsonrpc"] \in {"absent", "2.0"}
          /\ json'.members["params"] \in {"absent", "object"}
      BY <2>2, <2>3, Zenon DEF Recorded
    <3> QED
      BY <2>1, <3>2, <3>3, <3>4, <3>5, Zenon DEF Recorded
  <2> QED
    BY <2>1, <2>4 DEF Passed
<1>9. CASE BeginningString(c) \/ SpellingString(c)
  <2>1. seen' = seen /\ request' = request /\ InMember
    BY <1>3, <1>9 DEF BeginningString, SpellingString, InField, InMember, Letter
  <2>2. json'.members = json.members
    <3>1. Spelled(json, c).members = json.members
      BY <1>1, SpelledIs
    <3> QED
      BY <1>4, <1>9, <3>1 DEF BeginningString, SpellingString
  <2>3. parser'.at = "value" /\ parser'.key = parser.key
    BY <1>1, <1>9 DEF BeginningString, SpellingString, Quote, Scans
  <2>4. parser.key # "params"
    BY <1>9 DEF BeginningString, SpellingString, Passed
  <2> QED
    BY <2>1, <2>2, <2>3, <2>4, RecordsStay DEF InMember, Passed
<1>10. CASE EndingString(c)
  <2>1. /\ parser.at = "value" /\ parser.quoted /\ c = "quote" /\ InMember
        /\ parser'.at = "next" /\ ~InMember'
        /\ parser.key # "params" /\ (parser.key = "jsonrpc" => parser.text = "2.0")
        /\ json' = Valued(json, json.text)
    BY <1>2, <1>10 DEF EndingString, InMember, Passed, Places
  <2>2. seen' = seen
    BY <1>1, <2>1, RecordsAre
  <2>3. /\ json.stack = TopText /\ json.key = parser.key
        /\ parser.key \in Required => json.text = parser.text
    BY <2>1 DEF Beside, InField
  <2>4. json.text \in Marks /\ json.text # "absent"
    BY <1>1 DEF Readers, Marks, Contents, Words, Fields, Required
  <2>5. json'.members = Marked(json, json.text)
    BY <1>1, <2>1, <2>4, ValuedIs
  <2>6. DOMAIN request = {"id", "method"}
    BY <1>1 DEF TypeInv, TypeOK
  <2>7. parser.key \in {"id", "method"} => json.text = request'[parser.key]
    <3>1. ASSUME parser.key \in {"id", "method"} PROVE request' = [request EXCEPT ![parser.key] = parser.text]
      BY <1>1, <2>1, <2>6, <3>1, RecordsAre DEF InField, Required
    <3> QED
      BY <2>3, <2>6, <3>1 DEF Required
  <2>8. \A f \in {"id", "method"} : f # parser.key => request'[f] = request[f]
    <3>1. request' = [request EXCEPT ![parser.key] = parser.text] \/ request' = request
      BY <1>1, RecordsAre
    <3> QED
      BY <2>6, <3>1
  <2>9. Recorded'
    <3>1. parser.key = "jsonrpc" => json.text = "2.0"
      BY <2>1, <2>3 DEF Required
    <3> QED
      BY <1>1, <2>1, <2>2, <2>3, <2>4, <2>5, <2>7, <2>8, <3>1, MemberEnds
  <2> QED
    BY <2>1, <2>9 DEF Passed
<1>11. CASE Nesting(c)
  <2>1. seen' = seen /\ request' = request /\ InMember
    BY <1>3, <1>11 DEF Nesting, InMember
  <2>2. json'.members = json.members
    BY <1>1, <1>11, PushedIs DEF Nesting
  <2>3. /\ parser'.at = IF c = "{" THEN "object" ELSE "array"
        /\ parser'.key = parser.key
    BY <1>1, <1>11 DEF Nesting, Scans
  <2>4. parser.key \notin Required /\ (c # "{" => parser.key # "params")
    BY <1>11 DEF Nesting, Brackets
  <2> QED
    BY <2>1, <2>2, <2>3, <2>4, RecordsStay DEF InMember, Passed
<1>12. CASE PassingAtom(c)
  <2>1. /\ seen' = seen /\ request' = request /\ InMember /\ parser.key \notin Fields
        /\ json' = Valued(json, "atom") /\ json.stack = TopText /\ json.key = parser.key
    BY <1>3, <1>12 DEF PassingAtom, InMember, Beside
  <2>2. parser'.at = "scalar"
    BY <1>1, <1>12 DEF PassingAtom, Scans
  <2>3. ~InMember' /\ "atom" \in Marks
    BY <2>2 DEF InMember, Marks
  <2>4. json'.members = Marked(json, "atom")
    BY <1>1, <2>1, <2>3, ValuedIs
  <2>5. Recorded'
    <3>1. /\ parser.key # "jsonrpc" /\ parser.key # "params" /\ parser.key \notin {"id", "method"}
      BY <2>1, FieldsAre
    <3> QED
      BY <1>1, <2>1, <2>3, <2>4, <3>1, MemberEnds
  <2> QED
    BY <2>2, <2>5 DEF Passed
<1>13. CASE GoingOn(c)
  <2>1. /\ seen' = seen /\ request' = request /\ InMember /\ parser'.at = parser.at
        /\ parser'.key = parser.key /\ parser.at \in {"object", "array"}
    BY <1>3, <1>13 DEF GoingOn, InMember, InField
  <2>2. \A f \in Fields : json'.members[f] = json.members[f]
    <3>1. Len(json.stack) >= 2 /\ Len(json'.stack) >= 2
      BY <1>13 DEF GoingOn, Beside, Nested
    <3>2. KeptBelow(json, json')
      BY <1>1, <1>13, <3>1, DeepMoves2 DEF GoingOn
    <3> QED
      BY <3>2 DEF KeptBelow
  <2> QED
    BY <2>1, <2>2, RecordsStay DEF InMember, Passed
<1>14. CASE Leaving(c)
  <2>1. /\ parser.at \in {"object", "array"} /\ parser'.at = "next" /\ InMember /\ ~InMember'
        /\ seen' = seen /\ request' = request /\ json' = Closed(json, parser.at)
        /\ Len(json.stack) = 2 /\ json.stack[1] = "{" /\ json.key = parser.key
        /\ parser.key \notin Required /\ (parser.key = "params" => parser.at = "object")
    <3>1. parser.at \in {"object", "array"} /\ parser' = Scan("next") /\ json' = Closed(json, parser.at)
          /\ Len(json.stack) = 2
      BY <1>14 DEF Leaving
    <3>2. parser'.at = "next"
      BY <1>2, <3>1 DEF Places
    <3>3. seen' = seen /\ request' = request
      BY <1>3, <3>1 DEF InField
    <3>4. json.stack[1] = "{" /\ json.key = parser.key
      BY <3>1 DEF Beside
    <3> QED
      BY <3>1, <3>2, <3>3, <3>4 DEF InMember, Passed
  <2>2. json.stack \in Seq(Brackets) /\ json.stack # <<>> /\ Front(json.stack) = TopText
    <3>1. json.stack \in Seq(Brackets)
      BY <1>1 DEF Readers
    <3> QED
      BY <2>1, <3>1, FrontOfTwo, StackFacts
  <2>3. parser.at \in Marks /\ parser.at # "absent"
    BY <2>1 DEF Marks
  <2>4. PICK u \in Readers : /\ u.stack = TopText /\ u.key = json.key /\ u.members = json.members
                             /\ json' = Valued(u, parser.at)
    <3>1. /\ Under(json) \in Readers /\ Under(json).stack = Front(json.stack)
          /\ Under(json).key = json.key /\ Under(json).members = json.members
      BY <1>1, <2>2, UnderIs
    <3>2. Closed(json, parser.at) = Valued(Under(json), parser.at)
      BY <1>1, <2>2, <2>3, ClosedIs
    <3> QED
      BY <2>1, <2>2, <3>1, <3>2
  <2>5. json'.members = Marked(u, parser.at)
    BY <2>3, <2>4, ValuedIs
  <2>6. Recorded'
    <3>1. parser.key # "jsonrpc" /\ parser.key \notin {"id", "method"}
      BY <2>1, FieldsAre
    <3> QED
      BY <2>1, <2>3, <2>4, <2>5, <3>1, MemberEnds
  <2> QED
    BY <2>1, <2>6 DEF Passed
<1>15. CASE Closing(c)
  <2>1. /\ seen' = seen /\ request' = request /\ ~InMember /\ json' = Closed(json, "object")
        /\ json.stack = TopText /\ parser'.at = "done"
    BY <1>2, <1>3, <1>15 DEF Closing, InMember, InField, Beside, Places
  <2>2. \A f \in Fields : json'.members[f] = json.members[f]
    <3>1. json.stack # <<>> /\ Front(json.stack) = <<>> /\ "object" \in Marks
      <4>1. Front(TopText) = <<>>
        BY DEF TopText, Front
      <4> QED
        BY <2>1, <4>1, TopIs DEF Marks
    <3>2. PICK u \in Readers : /\ u.stack = <<>> /\ u.members = json.members
                               /\ json' = Valued(u, "object")
      <4>1. /\ Under(json) \in Readers /\ Under(json).stack = Front(json.stack)
            /\ Under(json).members = json.members
        BY <1>1, <3>1, UnderIs
      <4>2. Closed(json, "object") = Valued(Under(json), "object")
        BY <1>1, <3>1, ClosedIs
      <4> QED
        BY <2>1, <3>1, <4>1, <4>2
    <3>3. Noted(u) = {}
      <4>1. <<>> # TopText /\ <<>> # InParamsText
        BY Words3
      <4> QED
        BY <3>2, <4>1, NotedIs
    <3>4. json'.members = Marked(u, "object")
      BY <3>1, <3>2, ValuedIs
    <3> QED
      BY <3>1, <3>2, <3>3, <3>4, MarkedIs, FieldsAre
  <2>3. ~InMember'
    BY <2>1 DEF InMember
  <2> QED
    BY <2>1, <2>2, <2>3, RecordsStay DEF Passed
<1> QED
  BY <1>5, <1>6, <1>7, <1>8, <1>9, <1>10, <1>11, <1>12, <1>13, <1>14, <1>15 DEF Product

FieldsInv == SideInv /\ Matched

\* Before the first symbol.
LEMMA InitIsMatched == Init => FieldsInv
<1> SUFFICES ASSUME Init PROVE FieldsInv
  OBVIOUS
<1>1. json.members = [m \in Names |-> "absent"]
  BY DEF Init, Reader, Names
<1>2. parser.at = "start" /\ seen = {}
  BY ScanIsPlaced DEF Init, Places
<1>3. Recorded /\ Passed
  BY <1>1, <1>2, FieldsAre DEF Recorded, Passed, InMember
<1> QED
  BY <1>3, InitIsAligned DEF FieldsInv, Matched

\* The records agree as long as neither refuses.
LEMMA FieldsStep ==
    ASSUME FieldsInv, [Next]_vars
    PROVE  FieldsInv'
<1>1. SideInv /\ SideInv'
  BY SideStep DEF FieldsInv
<1>2. CASE UNCHANGED vars
  BY <1>1, <1>2 DEF FieldsInv, vars, Matched, Live, Recorded, Passed, InMember
<1>3. ASSUME NEW c \in Symbols, Symbol(c)
      PROVE  Matched'
  <2>1. CASE Live /\ Live'
    <3>1. Beside /\ Recorded /\ Passed /\ TypeInv /\ ReaderOK(json) /\ Parse(c) /\ Aligned
      BY <1>3, <2>1 DEF FieldsInv, SideInv, Aligned, Matched, Symbol
    <3>2. Product(c)
      BY <1>3, <2>1, <3>1, ProductSteps
    <3> QED
      BY <1>1, <3>1, <3>2, MatchedStep DEF Matched
  <2>2. CASE ~Live
    BY <1>1, <1>3, <2>2, RefusalIsFinal DEF SideInv, Matched
  <2>3. CASE ~Live'
    BY <2>3 DEF Matched
  <2> QED
    BY <2>1, <2>2, <2>3
<1> QED
  BY <1>1, <1>2, <1>3 DEF Next, FieldsInv

\* The id and the method of an accepted request are those a JSON reader finds at the top of
\* the text, each there once, and no nested member passes for one of them
\* (anything_rpc_parse, rpc.c:232-304).
THEOREM FieldsAreTheTopLevelOnes == Spec => []FieldsAreTopLevel
<1>1. FieldsInv => FieldsAreTopLevel
  <2> SUFFICES ASSUME FieldsInv, parser.at = "accepted", json.at # "error"
               PROVE  /\ json.members["jsonrpc"] = "2.0"
                      /\ \A f \in {"id", "method"} : json.members[f] = request[f]
                      /\ json.members["params"] \in {"absent", "object"}
    BY DEF FieldsAreTopLevel
  <2>1. Recorded /\ Required \subseteq seen /\ ~InMember
    BY DEF FieldsInv, Matched, Live, Passed, InMember
  <2>2. \A f \in Required : json.members[f] # "absent"
    BY <2>1, FieldsAre DEF Recorded
  <2>3. "id" \in Required /\ "method" \in Required /\ "jsonrpc" \in Required
    BY DEF Required
  <2> QED
    BY <2>1, <2>2, <2>3 DEF Recorded
<1> QED
  BY <1>1, InitIsMatched, FieldsStep, PTL DEF Spec

-----------------------------------------------------------------------------
(* The session. *)
\* What the reader notes of the session.
LEMMA SessionIs ==
    ASSUME NEW j, ReaderOK(j), NEW c \in Symbols, NEW k, Moves(j, c, k)
    PROVE  /\ ~(k.stack = InParamsText /\ j.key = "params" /\ j.sub = "session_id")
                 => k.members["session_id"] = j.members["session_id"]
           /\ j.members["session_id"] # "absent"
                 => k.members["session_id"] \in {j.members["session_id"], "twice"}
<1> DEFINE Goal == /\ ~(k.stack = InParamsText /\ j.key = "params" /\ j.sub = "session_id")
                         => k.members["session_id"] = j.members["session_id"]
                   /\ j.members["session_id"] # "absent"
                         => k.members["session_id"] \in {j.members["session_id"], "twice"}
<1>1. j \in Readers
  BY DEF ReaderOK
<1>2. CASE k.members = j.members
  BY <1>2
<1>3. ASSUME NEW u \in Readers, NEW v \in Marks, u.key = j.key, u.sub = j.sub, u.members = j.members,
             u.odd = j.odd, k = Valued(u, v)
      PROVE  Goal
  <2>1. k.members = Marked(u, v) /\ k.stack = u.stack
    BY <1>3, ValuedIs
  <2>2. "session_id" \in Names /\ "session_id" \notin Fields
    BY FieldsAre DEF Names
  <2>3. CASE "session_id" \in Noted(u)
    <3>1. u.stack = InParamsText /\ u.key = "params" /\ u.sub = "session_id"
      BY <2>2, <2>3, NotedIs
    <3> QED
      BY <1>3, <2>1, <2>2, <2>3, <3>1, MarkedIs
  <2>4. CASE "session_id" \notin Noted(u)
    BY <1>3, <2>1, <2>2, <2>4, MarkedIs
  <2> QED
    BY <2>3, <2>4
<1> QED
  BY <1>2, <1>3, Marking

InParams == parser.at = "object" /\ parser.key = "params"

\* The search of the params beside the reader, where it has neither found the session
\* nor given up.
Abreast ==
    /\ InParams /\ params.text # "long"
    /\ params.at \in {"key", "colon", "value", "scalar", "next", "object", "array"}
    /\ params.at \in {"key", "colon", "value", "scalar", "next"} => json.stack = InParamsText
    /\ params.at = "key" /\ params.quoted => json.at = "keystring"
    /\ params.at = "key" /\ ~params.quoted => json.at \in {"open", "key"}
    /\ params.at = "colon" => json.at = "colon"
    /\ params.at = "value" /\ params.quoted => json.at = "string"
    /\ params.at = "value" /\ ~params.quoted => json.at = "value"
    /\ params.at \in {"scalar", "next"} => json.at = "after"
    /\ params.at \in {"object", "array"} => Nested(params, json, 3) /\ params.key # "session_id"
    /\ params.at \in {"colon", "value", "object", "array"} => json.sub = params.key
    /\ params.quoted /\ (params.at = "key" \/ InSession(params)) => json.text = params.text
    /\ json.members["session_id"] = "absent"
    /\ params.at = "object" => params.size <= parser.size

\* Within the string under session_id, which is too long.
TooLong(j) == j.at = "string" /\ j.stack = InParamsText /\ j.sub = "session_id" /\ j.text = "long"

\* It is given up for a session_id that is no string, or too long a one.
GivenUp == /\ params.at = "refused" /\ json.members["session_id"] \notin Contents \ {"long"}
           /\ InParams => \/ json.members["session_id"] \in {"atom", "object", "array", "twice", "long"}
                          \/ json.sub = "session_id" /\ Len(json.stack) >= 3
                          \/ TooLong(json)

Found == /\ params.at = "found" /\ params.text # "long"
         /\ json.members["session_id"] \in {params.text, "twice"}
Waiting == params.at = "start" /\ json.members["session_id"] = "absent" /\ ~InParams

\* It is given up for too long a key, or at the end of an object that does not fit its
\* buffer; then the params do not fit theirs, and the parser will refuse them.
Lost == params.at = "refused" /\ note.lost
Full == InParams /\ parser.size = MaxObject

Searched ==
    /\ \/ (Waiting \/ Abreast \/ Found) /\ ~note.lost
       \/ GivenUp \/ Lost \/ Full
    /\ params.at # "start" => "params" \in seen /\ (parser.at = "value" => parser.key # "params")

Followed == Live => Searched

\* The search inside strings, at white space and elsewhere.
LEMMA ExtractCases ==
    ASSUME NEW s, NEW c
    PROVE  /\ s.quoted /\ c = "quote" /\ InSession(s) => Extract(s, c) = [Scan("found") EXCEPT !.text = s.text]
           /\ s.quoted /\ ~(c = "quote" /\ InSession(s))
                => Extract(s, c) = Literal(s, c, InSession(s) \/ s.at = "key")
           /\ ~s.quoted /\ SkipsBlank(s, c) => Extract(s, c) = s
           /\ ~s.quoted /\ ~SkipsBlank(s, c) => Extract(s, c) = ExtractAt(s, c)
BY Zenon DEF Extract, ExtractString

\* A text that fits goes on fitting, unless what follows is too long.
LEMMA TextsAre ==
    ASSUME NEW text, text # "long", NEW c, c # "long"
    PROVE  Extend(text, c) # "long"
BY DEF Extend, Words, Fields, Required

\* The reader takes no other letters than those of strings.
LEMMA NoLetters ==
    ASSUME NEW j, NEW c, NEW k, Moves(j, c, k), j.at \notin Strings
    PROVE  c \notin {"long", "escquote"} /\ (c = "end" => k \in {Goes(j, "cut"), Goes(j, "ended")})
BY DEF Moves, White, Blank, Brackets

\* A scan of a nested value gives up only for an escape it does not know, and for an
\* object that does not fit.
LEMMA NestedGoesOn ==
    ASSUME NEW s, Placed(s), s.text # "long", NEW j, ReaderOK(j), NEW n, Nested(s, j, n),
           NEW c \in Symbols, NEW k, Moves(j, c, k), k.at \notin {"cut", "ended"},
           j.at \in Strings => c # "unicode", s.at = "object" => Grown(s.size, c) # MaxObject
    PROVE  /\ Inside(s, c).at # "refused"
           /\ Inside(s, c).text # "long"
<1>1. j \in Readers /\ s.at \in {"object", "array"} /\ (s.quoted <=> j.at \in Strings)
  BY DEF Nested, ReaderOK
<1>2. Scan("next").at # "refused" /\ Scan("next").text = ""
  BY DEF Scan
<1> DEFINE t == Counted(s, c)
<1>3. t.at # "refused" /\ t.text # "long" /\ Placed(t)
  BY <1>1, CountedIs
<1> HIDE DEF t
<1>4. /\ \A q : [t EXCEPT !.quoted = q].at = t.at /\ [t EXCEPT !.quoted = q].text = t.text
      /\ \A m : [t EXCEPT !.nest = m].at = t.at /\ [t EXCEPT !.nest = m].text = t.text
  BY <1>3 DEF Placed, Scans
<1>5. CASE s.quoted
  <2>1. c = "quote" \/ (Letter(c) /\ c # "unicode")
    BY <1>1, <1>5, MovesFrom DEF Strings
  <2>2. Inside(s, c) \in {[t EXCEPT !.quoted = FALSE], t}
    <3>1. c \notin {"unicode", "newline", "formfeed", "end"}
      BY <2>1 DEF Letter
    <3> QED
      BY <1>1, <1>5, <3>1, InsideIs DEF t
  <2> QED
    BY <1>3, <1>4, <2>2
<1>6. CASE ~s.quoted
  <2>1. c # "end"
    BY <1>1, <1>6, NoLetters, GoesIs
  <2>2. s.nest > 1 \/ s.nest = 1
    <3>1. s.nest \in 0..MaxDepth /\ s.nest > 0
      BY <1>1 DEF Placed, Scans
    <3> QED
      BY <3>1, DepthFacts
  <2>3. \/ Inside(s, c) = [t EXCEPT !.quoted = TRUE]
        \/ Inside(s, c) = [t EXCEPT !.nest = @ + 1]
        \/ Inside(s, c) = [t EXCEPT !.nest = @ - 1]
        \/ Inside(s, c) \in {Scan("next"), t}
    BY <1>1, <1>6, <2>1, <2>2, InsideIs, Zenon DEF t
  <2> QED
    BY <1>2, <1>3, <1>4, <2>3
<1> QED
  BY <1>5, <1>6

\* The reader goes on within the params.
Within(c) ==
    /\ ReaderOK(json) /\ Placed(params) /\ Abreast /\ json.key = "params"
    /\ json.stack[1] = "{" /\ json.stack[2] = "{"
    /\ Moves(json, c, json') /\ Len(json'.stack) >= 2 /\ json'.at \notin {"cut", "ended"}
    /\ json.at \in Strings => c # "unicode"
    /\ params' = Extract(params, c) /\ InParams'
    /\ parser.size \in 0..MaxObject /\ parser'.size = Grown(parser.size, c)

\* Behind the params the reader is among the text's own members.
LEMMA InParamsStays ==
    ASSUME NEW j \in Readers, j.stack = InParamsText, NEW v \in Marks
    PROVE  Closed(j, v).stack = TopText
<1>1. InParamsText \in Seq(Brackets) /\ InParamsText # <<>> /\ Len(InParamsText) = 2 /\ InParamsText[1] = "{"
  BY Words3 DEF InParamsText
<1>2. Front(InParamsText) = TopText
  BY <1>1, FrontOfTwo
<1> QED
  BY <1>1, <1>2, ClosedStackIs

\* A stack of three.
LEMMA Lengths ==
    ASSUME NEW stack \in Seq(Brackets), Len(stack) = 3
    PROVE  stack # <<>> /\ Len(stack) \in Nat
OBVIOUS

\* Under a nested value of the params are the params.
LEMMA FrontOfThree ==
    ASSUME NEW stack \in Seq(Brackets), Len(stack) = 3, stack[1] = "{", stack[2] = "{"
    PROVE  Front(stack) = InParamsText
<1>1. Front(stack) \in Seq(Brackets) /\ Len(Front(stack)) = 2 /\ Front(stack)[1] = "{" /\ Front(stack)[2] = "{"
  <2>1. stack # <<>>
    BY Lengths
  <2>2. /\ Front(stack) \in Seq(Brackets) /\ Len(Front(stack)) = 3 - 1
        /\ \A i \in 1..(3 - 1) : Front(stack)[i] = stack[i]
    BY <2>1, FrontIs
  <2> QED
    BY <2>2, Numbers, Zenon
<1>2. /\ InParamsText \in Seq(Brackets) /\ Len(InParamsText) = 2
      /\ InParamsText[1] = "{" /\ InParamsText[2] = "{"
  BY Words3 DEF InParamsText
<1>3. \A i \in 1..Len(Front(stack)) : Front(stack)[i] = InParamsText[i]
  BY <1>1, <1>2, Numbers, Zenon
<1> QED
  BY <1>1, <1>2, <1>3, SeqEqual

\* Among the params' members, no bracket of theirs is closed before the params' own.
LEMMA WithinAt ==
    ASSUME NEW c \in Symbols, Within(c), json.stack = InParamsText
    PROVE  /\ json \in Readers /\ \A v \in Marks : json' # Closed(json, v)
           /\ Last(json.stack) = "{" /\ Len(json.stack) = 2
<1>1. json \in Readers
  BY DEF Within, ReaderOK
<1>2. ASSUME NEW v \in Marks PROVE json' # Closed(json, v)
  <2>1. json' = Closed(json, v) => json'.stack = TopText
    BY <1>1, InParamsStays
  <2>2. Len(json'.stack) >= 2
    BY DEF Within
  <2>3. ~(1 >= 2)
    OBVIOUS
  <2> QED
    BY <2>1, <2>2, <2>3, TopIs
<1>3. Last(InParamsText) = "{"
  BY DEF InParamsText, Last
<1> QED
  BY <1>1, <1>2, <1>3, Words3

\* Between the members of the params the search stays abreast of the reader, up to a key
\* that is too long.
LEMMA WithinKeys ==
    ASSUME NEW c \in Symbols, Within(c), params.at \in {"key", "colon", "scalar", "next"}
    PROVE  Abreast' \/ (params'.at = "refused" /\ Buries(json'))
<1>1. /\ Placed(params) /\ Abreast /\ Moves(json, c, json') /\ params' = Extract(params, c)
      /\ (json.at \in Strings => c # "unicode")
      /\ InParams' /\ json.stack = InParamsText /\ json.key = "params" /\ ReaderOK(json)
      /\ json'.at \notin {"cut", "ended"}
  BY DEF Within, Abreast
<1>2. /\ json \in Readers /\ Last(json.stack) = "{" /\ Len(json.stack) = 2
      /\ \A v \in Marks : json' # Closed(json, v)
  BY <1>1, WithinAt
<1>3. Scan("key").at = "key" /\ ~Scan("key").quoted /\ Scan("key").text = ""
  BY DEF Scan
<1>4. ~InSession(params)
  BY DEF InSession
<1>5. CASE params.at = "key" /\ params.quoted
  <2>1. json.at = "keystring" /\ json.text = params.text /\ params.text # "long"
    BY <1>1, <1>5 DEF Abreast
  <2>2. params' = Literal(params, c, TRUE)
    <3>1. (InSession(params) \/ params.at = "key") = TRUE
      BY <1>5
    <3> QED
      BY <1>1, <1>4, <1>5, <3>1, ExtractCases
  <2>3. CASE c = "quote"
    <3>1. json' = Keyed(json)
      BY <1>1, <2>1, <2>3, MovesFrom DEF Letter
    <3>2. json'.at = "colon" /\ json'.stack = InParamsText /\ json'.sub = Name(json.text)
          /\ json'.members = json.members
      BY <1>1, <1>2, <3>1, KeyedIs
    <3>3. params' = [Scan("colon") EXCEPT !.key = Name(params.text)]
      <4>1. Literal(params, c, TRUE) = Unquote(params)
        <5>1. TRUE \in BOOLEAN
          OBVIOUS
        <5>2. Literal(params, c, TRUE) = Unquote(Counted(params, c))
          BY <2>3, <5>1, LiteralCases, Zenon
        <5>3. Counted(params, c) = params
          BY <1>1, <1>5, CountedIs
        <5> QED
          BY <5>2, <5>3
      <4>2. Unquote(params) = [Scan("colon") EXCEPT !.key = Name(params.text)]
        BY <1>5, UnquoteCases, Zenon
      <4> QED
        BY <2>2, <4>1, <4>2, Zenon
    <3>4. params'.at = "colon" /\ ~params'.quoted /\ params'.text = "" /\ params'.key = Name(params.text)
      BY <3>3 DEF Scan
    <3> QED
      BY <1>1, <2>1, <3>2, <3>4 DEF Abreast, InSession
  <2>4. CASE c # "quote"
    <3>1. Letter(c) /\ json' = Spelled(json, c)
      BY <1>1, <2>1, <2>4, MovesFrom
    <3>2. c \notin {"unicode", "quote", "newline", "formfeed", "end"}
      BY <1>1, <2>1, <3>1 DEF Letter, Strings
    <3>3. params' = IF Extend(params.text, c) = "long" THEN Refused
                    ELSE [params EXCEPT !.text = Extend(params.text, c)]
      BY <2>2, <3>2, LiteralCases
    <3>4. Matters(json)
      BY <1>1, <2>1 DEF Matters, InParamsText
    <3>5. /\ json'.at = "keystring" /\ json'.stack = InParamsText /\ json'.text = Extend(json.text, c)
          /\ json'.members = json.members /\ json'.key = json.key
      <4>1. LET k == Spelled(json, c)
            IN /\ k.at = json.at /\ k.stack = json.stack /\ k.members = json.members /\ k.key = json.key
               /\ k.text = IF Matters(json) THEN Extend(json.text, c) ELSE json.text
        BY <1>2, SpelledIs
      <4>2. json'.text = Extend(json.text, c)
        BY <3>1, <3>4, <4>1, Zenon
      <4> QED
        BY <1>1, <2>1, <3>1, <4>1, <4>2, Zenon
    <3>6. CASE Extend(params.text, c) # "long"
      <4>1. params' = [params EXCEPT !.text = Extend(params.text, c)]
        BY <3>3, <3>6
      <4>2. params'.at = "key" /\ params'.quoted /\ params'.text = Extend(params.text, c)
        BY <1>1, <1>5, <4>1 DEF Placed, Scans
      <4> QED
        BY <1>1, <2>1, <3>5, <3>6, <4>2 DEF Abreast, InSession
    <3>7. CASE Extend(params.text, c) = "long"
      <4>1. params'.at = "refused"
        BY <3>3, <3>7, RefusedIsPlaced
      <4>2. Buries(json')
        BY <1>1, <2>1, <3>5, <3>7 DEF Buries, Abreast, InParamsText
      <4> QED
        BY <4>1, <4>2
    <3> QED
      BY <3>6, <3>7
  <2> QED
    BY <2>3, <2>4
<1>6. ASSUME ~(params.at = "key" /\ params.quoted), c \in White
      PROVE  params' = params /\ json' = json
  <2>1. ~params.quoted /\ json.at \notin Strings
    BY <1>1, <1>6 DEF Placed, Abreast, Strings
  <2>2. json' = json
    BY <1>1, <1>6, <2>1, MovesFrom
  <2>3. CASE params.at = "scalar"
    <3>1. ~SkipsBlank(params, c) /\ ~EndsScalar(c)
      BY <1>6, <2>3 DEF SkipsBlank, EndsScalar, White, Blank
    <3> QED
      BY <1>1, <2>1, <2>2, <2>3, <3>1, ExtractCases, ExtractAtIs
  <2>4. CASE params.at # "scalar"
    <3>1. SkipsBlank(params, c)
      BY <1>1, <1>6, <2>1, <2>4 DEF SkipsBlank, White
    <3> QED
      BY <1>1, <2>1, <2>2, <3>1, ExtractCases
  <2> QED
    BY <2>3, <2>4
<1>7. CASE ~(params.at = "key" /\ params.quoted) /\ c \in White
  BY <1>1, <1>6, <1>7 DEF Abreast, InSession, Nested
<1>8. ASSUME ~(params.at = "key" /\ params.quoted), c \in {"quote", ":", ",", "}", "end"}
      PROVE  params' = ExtractAt(params, c) /\ ~params.quoted
  <2>1. ~params.quoted /\ ~SkipsBlank(params, c)
    BY <1>1, <1>8 DEF Placed, SkipsBlank, Blank
  <2> QED
    BY <1>1, <2>1, ExtractCases
<1>9. CASE params.at = "key" /\ ~params.quoted /\ c \notin White
  <2>1. json.at \in {"open", "key"}
    BY <1>1, <1>9 DEF Abreast
  <2>2. c = "quote" /\ json' = Goes(json, "keystring")
    <3>1. "object" \in Marks /\ Goes(json, "cut").at = "cut"
      BY <1>2, GoesIs DEF Marks
    <3> QED
      BY <1>1, <1>2, <1>9, <2>1, <3>1, MovesFrom
  <2>3. /\ json'.at = "keystring" /\ json'.stack = InParamsText /\ json'.text = ""
        /\ json'.members = json.members
    <3>1. json.text = ""
      BY <1>1, <2>1 DEF ReaderOK, Strings
    <3> QED
      BY <1>1, <1>2, <2>2, <3>1, GoesIs
  <2>4. params' = Quote(Scan("key"))
    <3>1. params' = ExtractAt(params, c)
      BY <1>8, <1>9, <2>2
    <3>2. ExtractAt(params, c) = Member(params, c)
      BY <1>9, ExtractAtIs
    <3> QED
      BY <2>2, <3>1, <3>2, MemberIs
  <2>5. params'.at = "key" /\ params'.quoted /\ params'.text = ""
    BY <2>4 DEF Quote, Scan
  <2> QED
    BY <1>1, <2>3, <2>5 DEF Abreast, InSession
<1>10. CASE params.at = "colon" /\ c \notin White
  <2>1. json.at = "colon" /\ json.sub = params.key /\ params.text # "long"
    BY <1>1, <1>10 DEF Abreast
  <2>2. c = ":" /\ json' = Goes(json, "value")
    BY <1>1, <1>10, <2>1, MovesFrom
  <2>3. /\ json'.at = "value" /\ json'.stack = InParamsText /\ json'.sub = json.sub
        /\ json'.members = json.members
    BY <1>1, <1>2, <2>2, GoesIs
  <2>4. params' = [params EXCEPT !.at = "value"] /\ ~params.quoted
    BY <1>8, <1>10, <2>2, ExtractAtIs
  <2>5. params'.at = "value" /\ ~params'.quoted /\ params'.text # "long" /\ params'.key = params.key
    BY <1>1, <2>1, <2>4 DEF Placed, Scans
  <2> QED
    BY <1>1, <2>1, <2>3, <2>5 DEF Abreast, InSession
<1>11. CASE params.at \in {"scalar", "next"} /\ c \notin White
  <2>1. json.at = "after"
    BY <1>1, <1>11 DEF Abreast
  <2>2. c = "," /\ json' = Goes(json, "key")
    <3>1. "object" \in Marks /\ "array" \in Marks
      BY DEF Marks
    <3>2. \/ c = "," /\ Last(json.stack) = "{" /\ json' = Goes(json, "key")
          \/ c = "," /\ Last(json.stack) = "[" /\ json' = Goes(json, "value")
          \/ c = "}" /\ Last(json.stack) = "{" /\ json' = Closed(json, "object")
          \/ c = "]" /\ Last(json.stack) = "[" /\ json' = Closed(json, "array")
      BY <1>1, <1>11, <2>1, MovesFrom
    <3> QED
      BY <1>2, <3>1, <3>2
  <2>3. json'.at = "key" /\ json'.stack = InParamsText /\ json'.members = json.members
    BY <1>1, <1>2, <2>2, GoesIs
  <2>4. params' = Scan("key")
    <3>1. params' = ExtractAt(params, c) /\ EndsScalar(c)
      BY <1>8, <1>11, <2>2 DEF EndsScalar
    <3>2. ExtractAt(params, c) = Member(params, c)
      BY <1>11, <3>1, ExtractAtIs
    <3> QED
      BY <1>11, <2>2, <3>1, <3>2, MemberIs
  <2> QED
    BY <1>1, <1>3, <2>3, <2>4 DEF Abreast, InSession
<1> QED
  BY <1>5, <1>7, <1>9, <1>10, <1>11

\* At a value the search passes over it, finds its string, or gives up.
LEMMA WithinValues ==
    ASSUME NEW c \in Symbols, Within(c), params.at = "value"
    PROVE  Abreast' \/ Found' \/ GivenUp'
<1>1. /\ Placed(params) /\ Abreast /\ Moves(json, c, json') /\ params' = Extract(params, c)
      /\ (json.at \in Strings => c # "unicode")
      /\ InParams' /\ json.stack = InParamsText /\ json.key = "params" /\ ReaderOK(json)
      /\ json'.at \notin {"cut", "ended"} /\ json.sub = params.key
      /\ json.members["session_id"] = "absent" /\ params.text # "long"
  BY DEF Within, Abreast
<1>2. /\ json \in Readers /\ Last(json.stack) = "{" /\ Len(json.stack) = 2
      /\ \A v \in Marks : json' # Closed(json, v)
  BY <1>1, WithinAt
<1>3. InSession(params) <=> params.key = "session_id"
  BY DEF InSession
<1>4. Noted(json) = {params.key} \cap {"session_id"}
  BY <1>1, NotedIs
<1>5. /\ "session_id" \in Names /\ Refused.at = "refused" /\ json.text \in Contents
      /\ \A v \in Contents : v \in Marks /\ v \notin {"absent", "twice", "atom", "object", "array"}
  BY <1>2, RefusedIsPlaced DEF Names, Readers, Marks, Contents, Words, Fields, Required
<1>6. ASSUME NEW v \in Marks, json' = Valued(json, v)
      PROVE  /\ json'.at = "after" /\ json'.stack = InParamsText
             /\ params.key = "session_id" => json'.members["session_id"] = v
             /\ params.key # "session_id" => json'.members["session_id"] = "absent"
  <2>1. InParamsText # <<>>
    BY Words3
  <2>2. json'.at = "after" /\ json'.stack = InParamsText /\ json'.members = Marked(json, v)
    BY <1>1, <1>2, <1>6, <2>1, ValuedIs
  <2>3. CASE params.key = "session_id"
    <3>1. "session_id" \in Noted(json)
      BY <1>4, <2>3
    <3>2. Marked(json, v)["session_id"] = v
      BY <1>1, <1>2, <1>5, <3>1, MarkedIs
    <3> QED
      BY <2>2, <2>3, <3>2
  <2>4. CASE params.key # "session_id"
    <3>1. "session_id" \notin Noted(json)
      BY <1>4, <2>4
    <3>2. Marked(json, v)["session_id"] = json.members["session_id"]
      BY <1>2, <1>5, <3>1, MarkedIs, Zenon
    <3> QED
      BY <1>1, <2>2, <2>4, <3>2, Zenon
  <2> QED
    BY <2>3, <2>4
<1>7. CASE params.quoted
  <2>1. json.at = "string" /\ (InSession(params) => json.text = params.text)
    BY <1>1, <1>7 DEF Abreast
  <2>2. CASE c = "quote"
    <3>1. json' = Valued(json, json.text)
      BY <1>1, <2>1, <2>2, MovesFrom DEF Letter
    <3>2. CASE InSession(params)
      <4>1. params' = [Scan("found") EXCEPT !.text = params.text]
        BY <1>1, <1>7, <2>2, <3>2, ExtractCases
      <4>2. params'.at = "found" /\ params'.text = params.text
        BY <4>1 DEF Scan
      <4>3. json'.members["session_id"] = params.text
        BY <1>3, <1>5, <1>6, <2>1, <3>1, <3>2
      <4> QED
        BY <1>1, <4>2, <4>3 DEF Found
    <3>3. CASE ~InSession(params)
      <4>1. params' = Scan("next")
        <5>1. (InSession(params) \/ params.at = "key") = FALSE
          BY <3>3
        <5>2. params' = Literal(params, c, FALSE)
          BY <1>1, <1>7, <3>3, <5>1, ExtractCases
        <5>3. Counted(params, c) = params
          BY <1>1, CountedIs
        <5>4. Literal(params, c, FALSE) = Unquote(Counted(params, c))
          <6>1. FALSE \in BOOLEAN
            OBVIOUS
          <6> QED
            BY <2>2, <6>1, LiteralCases, Zenon
        <5>5. Unquote(params) = Scan("next")
          BY UnquoteCases, Zenon
        <5> QED
          BY <5>2, <5>3, <5>4, <5>5
      <4>2. params'.at = "next" /\ ~params'.quoted /\ params'.text = ""
        BY <4>1 DEF Scan
      <4>3. json'.at = "after" /\ json'.stack = InParamsText /\ json'.members["session_id"] = "absent"
        BY <1>3, <1>5, <1>6, <3>1, <3>3
      <4> QED
        BY <1>1, <4>2, <4>3 DEF Abreast, InSession
    <3> QED
      BY <3>2, <3>3
  <2>3. CASE c # "quote"
    <3>1. Letter(c) /\ json' = Spelled(json, c)
      BY <1>1, <2>1, <2>3, MovesFrom
    <3>2. c \notin {"unicode", "quote", "newline", "formfeed", "end"}
      BY <1>1, <2>1, <3>1 DEF Letter, Strings
    <3>3. Counted(params, c) = params
      BY <1>1, CountedIs
    <3>4. Matters(json) <=> InSession(params)
      BY <1>3, <1>4, <2>1 DEF Matters
    <3>5. /\ json'.at = "string" /\ json'.stack = InParamsText /\ json'.sub = json.sub
          /\ json'.members = json.members
          /\ InSession(params) => json'.text = Extend(json.text, c)
      <4>1. /\ Spelled(json, c).at = json.at /\ Spelled(json, c).stack = json.stack
            /\ Spelled(json, c).sub = json.sub /\ Spelled(json, c).members = json.members
            /\ Spelled(json, c).text = IF Matters(json) THEN Extend(json.text, c) ELSE json.text
        BY <1>2, SpelledIs
      <4> QED
        BY <1>1, <2>1, <3>1, <3>4, <4>1
    <3>6. params' = Literal(params, c, InSession(params))
      <4>1. (InSession(params) \/ params.at = "key") = InSession(params)
        <5>1. params.at # "key"
          OBVIOUS
        <5> QED
          BY <5>1 DEF InSession
      <4> QED
        BY <1>1, <1>7, <2>3, <4>1, ExtractCases
    <3>7. CASE InSession(params)
      <4>1. params' = IF Extend(params.text, c) = "long" THEN Refused
                      ELSE [params EXCEPT !.text = Extend(params.text, c)]
        <5>1. InSession(params) = TRUE
          BY <3>7 DEF InSession
        <5>2. params' = Literal(params, c, TRUE)
          BY <3>6, <5>1
        <5> QED
          BY <3>2, <5>2, LiteralCases
      <4>2. CASE Extend(params.text, c) # "long"
        <5>1. params' = [params EXCEPT !.text = Extend(params.text, c)]
          BY <4>1, <4>2
        <5>2. /\ params'.at = "value" /\ params'.quoted /\ params'.text = Extend(params.text, c)
              /\ params'.key = params.key
          BY <1>1, <1>7, <5>1 DEF Placed, Scans
        <5> QED
          BY <1>1, <2>1, <3>5, <3>7, <4>2, <5>2 DEF Abreast, InSession
      <4>3. CASE Extend(params.text, c) = "long"
        <5>1. params'.at = "refused"
          BY <1>5, <4>1, <4>3
        <5>2. TooLong(json')
          BY <1>1, <1>3, <2>1, <3>5, <3>7, <4>3 DEF TooLong
        <5>3. json'.members["session_id"] \notin Contents
          BY <1>1, <1>5, <3>5
        <5> QED
          BY <5>1, <5>2, <5>3 DEF GivenUp
      <4> QED
        BY <4>2, <4>3
    <3>8. CASE ~InSession(params)
      <4>1. params' = params
        <5>1. InSession(params) = FALSE
          BY <3>8 DEF InSession
        <5>2. params' = Literal(params, c, FALSE)
          BY <3>6, <5>1
        <5> QED
          BY <3>2, <3>3, <5>2, LiteralCases
      <4> QED
        BY <1>1, <1>7, <3>5, <3>8, <4>1 DEF Abreast, InSession
    <3> QED
      BY <3>7, <3>8
  <2> QED
    BY <2>2, <2>3
<1>8. CASE ~params.quoted
  <2>1. json.at = "value" /\ json.text = ""
    BY <1>1, <1>8 DEF Abreast, ReaderOK, Strings
  <2>2. CASE c \in White
    <3>1. SkipsBlank(params, c) /\ json' = json
      BY <1>1, <1>8, <2>1, <2>2, MovesFrom DEF SkipsBlank, White, Strings
    <3>2. params' = params
      BY <1>1, <1>8, <3>1, ExtractCases
    <3> QED
      BY <1>1, <3>1, <3>2 DEF Abreast, InSession, Nested
  <2>3. CASE c \notin White
    <3>1. \/ c = "quote" /\ json' = Goes(json, "string")
          \/ c \in Brackets /\ json' = Pushed(json, IF c = "{" THEN "open" ELSE "element", c)
          \/ c \in {"atom", "2.0"} /\ json' = Valued(json, "atom")
      <4>1. /\ json.at = "value" /\ c \notin White =>
                \/ c = "quote" /\ json' = Goes(json, "string")
                \/ c \in Brackets /\ json' = Pushed(json, IF c = "{" THEN "open" ELSE "element", c)
                \/ c \in {"atom", "2.0"} /\ json' = Valued(json, "atom")
        BY <1>1, MovesFrom
      <4> QED
        BY <2>1, <2>3, <4>1
    <3>2. ~SkipsBlank(params, c) /\ ~EndsScalar(c)
      BY <3>1 DEF SkipsBlank, Blank, Brackets, EndsScalar
    <3>3. params' = ExtractAt(params, c)
      BY <1>1, <1>8, <3>2, ExtractCases
    <3>4. /\ InSession(params) => params' = IF c = "quote" THEN Quote(params) ELSE Refused
          /\ ~InSession(params) => params' = SkipValue(params, c)
      BY <3>2, <3>3, ExtractAtIs
    <3>5. CASE c = "quote"
      <4>1. params' = Quote(params)
        BY <3>4, <3>5, SkipValueCases
      <4>2. /\ params'.at = "value" /\ params'.quoted /\ params'.text = "" /\ params'.key = params.key
        BY <1>1, <4>1 DEF Quote, Placed, Scans
      <4>3. json' = Goes(json, "string")
        BY <3>1, <3>5 DEF Brackets
      <4>4. /\ json'.at = "string" /\ json'.stack = InParamsText /\ json'.sub = json.sub
            /\ json'.members = json.members /\ json'.text = ""
        <5>1. LET k == Goes(json, "string")
              IN /\ k.at = "string" /\ k.stack = json.stack /\ k.sub = json.sub
                 /\ k.members = json.members /\ k.text = json.text
          BY <1>2, GoesIs
        <5> QED
          BY <1>1, <2>1, <4>3, <5>1, Zenon
      <4> QED
        BY <1>1, <4>2, <4>4 DEF Abreast, InSession
    <3>6. CASE c \in Brackets
      <4>1. json' = Pushed(json, IF c = "{" THEN "open" ELSE "element", c)
        BY <3>1, <3>6 DEF Brackets
      <4>2. /\ json'.at \in {"open", "element"} /\ json'.stack = Append(json.stack, c)
            /\ json'.sub = json.sub /\ json'.members = json.members
        BY <1>2, <3>6, <4>1, PushedIs
      <4>3. /\ json'.stack \in Seq(Brackets) /\ Len(json'.stack) = 3 /\ json'.stack[3] = c
        <5>1. /\ Append(InParamsText, c) \in Seq(Brackets)
              /\ Len(Append(InParamsText, c)) = Len(InParamsText) + 1
              /\ Append(InParamsText, c)[Len(InParamsText) + 1] = c
          BY <3>6, Words3, AppendIs
        <5> QED
          BY <1>1, <4>2, <5>1, Words3, Numbers, Zenon
      <4>4. CASE InSession(params)
        <5>1. params'.at = "refused"
          BY <1>5, <3>4, <3>6, <4>4 DEF Brackets
        <5>2. json.sub = "session_id" /\ Len(json'.stack) >= 3
          BY <1>1, <1>3, <4>3, <4>4
        <5>3. json'.members["session_id"] \notin Contents
          BY <1>1, <1>5, <4>2
        <5> QED
          BY <1>1, <4>2, <5>1, <5>2, <5>3 DEF GivenUp
      <4>5. CASE ~InSession(params)
        <5>1. /\ c = "{" => params' = [params EXCEPT !.at = "object", !.nest = 1, !.size = Grown(0, c)]
              /\ c = "[" => params' = [params EXCEPT !.at = "array", !.nest = 1]
          BY <3>4, <3>6, <4>5, SkipValueCases DEF Brackets
        <5>2. /\ params'.at = IF c = "{" THEN "object" ELSE "array"
              /\ params'.nest = 1 /\ ~params'.quoted /\ params'.key = params.key /\ params'.text # "long"
              /\ c = "{" => params'.size = Grown(0, c)
          BY <1>1, <1>8, <3>6, <5>1 DEF Placed, Scans, Brackets
        <5>7. params'.at = "object" => params'.size <= parser'.size
          <6>1. parser.size \in 0..MaxObject /\ parser'.size = Grown(parser.size, c)
            BY DEF Within
          <6>2. 0 \in 0..MaxObject /\ 0 <= parser.size
            BY <6>1, Sizes
          <6>3. Grown(0, c) <= Grown(parser.size, c)
            BY <6>1, <6>2, Sizes, Zenon
          <6>4. params'.at = "object" => c = "{"
            BY <3>6, <5>2 DEF Brackets
          <6> QED
            BY <5>2, <6>1, <6>3, <6>4
        <5>3. Opener(params') = c /\ params'.at \in {"object", "array"}
          BY <3>6, <5>2 DEF Opener, Brackets
        <5>4. 3 \in Nat \ {0} /\ 3 <= Len(json'.stack)
          BY <4>3, Numbers, Zenon
        <5>5. Cardinality(Opens(json'.stack, c, 3)) = 1
          BY <4>3, <5>4, OpensAlone
        <5>6. Nested(params', json', 3)
          BY <4>2, <4>3, <5>2, <5>3, <5>4, <5>5 DEF Nested, Strings
        <5> QED
          BY <1>1, <1>3, <4>2, <4>5, <5>2, <5>3, <5>6, <5>7 DEF Abreast, InSession
      <4> QED
        BY <4>4, <4>5
    <3>7. CASE c \in {"atom", "2.0"}
      <4>1. json' = Valued(json, "atom") /\ "atom" \in Marks
        BY <3>1, <3>7 DEF Brackets, Marks
      <4>2. CASE InSession(params)
        <5>1. params'.at = "refused"
          BY <1>5, <3>4, <3>7, <4>2
        <5>2. json'.members["session_id"] = "atom"
          BY <1>3, <1>6, <4>1, <4>2
        <5>3. "atom" \notin Contents
          BY DEF Contents, Words, Fields, Required
        <5> QED
          BY <5>1, <5>2, <5>3 DEF GivenUp
      <4>3. CASE ~InSession(params)
        <5>1. params' = [params EXCEPT !.at = "scalar"]
          BY <3>4, <3>7, <4>3, SkipValueCases
        <5>2. params'.at = "scalar" /\ ~params'.quoted /\ params'.text # "long"
          BY <1>1, <1>8, <5>1 DEF Placed, Scans
        <5>3. json'.at = "after" /\ json'.stack = InParamsText /\ json'.members["session_id"] = "absent"
          BY <1>3, <1>6, <4>1, <4>3
        <5> QED
          BY <1>1, <5>2, <5>3 DEF Abreast, InSession
      <4> QED
        BY <4>2, <4>3
    <3> QED
      BY <3>1, <3>5, <3>6, <3>7
  <2> QED
    BY <2>2, <2>3
<1> QED
  BY <1>7, <1>8

\* Inside a nested value of the params the search counts brackets and bytes.
LEMMA WithinNested ==
    ASSUME NEW c \in Symbols, Within(c), params.at \in {"object", "array"}
    PROVE  Abreast' \/ parser'.size = MaxObject
<1>1. /\ Placed(params) /\ Abreast /\ Moves(json, c, json') /\ params' = Extract(params, c)
      /\ (json.at \in Strings => c # "unicode")
      /\ InParams' /\ json.key = "params" /\ ReaderOK(json) /\ json.stack[1] = "{" /\ json.stack[2] = "{"
      /\ json'.at \notin {"cut", "ended"} /\ json.sub = params.key /\ params.key # "session_id"
      /\ json.members["session_id"] = "absent" /\ params.text # "long" /\ Nested(params, json, 3)
      /\ json \in Readers
  BY DEF Within, Abreast, ReaderOK
<1>2. params' = Inside(params, c)
  <2>1. ~InSession(params) /\ ~SkipsBlank(params, c)
    BY DEF InSession, SkipsBlank
  <2>2. (InSession(params) \/ params.at = "key") = FALSE
    BY <2>1
  <2>3. CASE params.quoted
    BY <1>1, <2>1, <2>2, <2>3, ExtractCases DEF Inside
  <2>4. CASE ~params.quoted
    <3>1. params' = ExtractAt(params, c)
      BY <1>1, <2>1, <2>4, ExtractCases
    <3> QED
      BY <2>4, <3>1, ExtractAtIs DEF Inside
  <2> QED
    BY <2>3, <2>4
<1>8. /\ params.at = "object" => Grown(params.size, c) <= parser'.size
      /\ params.size \in 0..MaxObject /\ parser'.size \in 0..MaxObject
  <2>1. /\ parser.size \in 0..MaxObject /\ parser'.size = Grown(parser.size, c)
        /\ params.size \in 0..MaxObject /\ (params.at = "object" => params.size <= parser.size)
    BY DEF Within, Abreast, Placed, Scans
  <2>2. params.at = "object" => Grown(params.size, c) <= Grown(parser.size, c)
    BY <2>1, Sizes, Zenon
  <2>3. Grown(parser.size, c) \in 0..MaxObject
    BY <2>1, Sizes, Zenon
  <2> QED
    BY <2>1, <2>2, <2>3
<1> SUFFICES ASSUME parser'.size # MaxObject PROVE Abreast'
  OBVIOUS
<1>9. params.at = "object" => Grown(params.size, c) # MaxObject
  BY <1>8, Sizes
<1>3. params'.at # "refused" /\ params'.text # "long"
  BY <1>1, <1>2, <1>9, NestedGoesOn
<1>4. json'.members["session_id"] = "absent"
  BY <1>1, SessionIs
<1>5. \/ Nested(params', json', 3) /\ params'.at = params.at /\ params'.key = params.key
      \/ params' = Scan("next") /\ json'.at = "after" /\ Len(json.stack) = 3 /\ json' = Closed(json, params.at)
  <2>1. 3 \in Nat /\ 3 >= 2
    BY Numbers
  <2>2. Inside(params, c).at # "refused"
    BY <1>2, <1>3
  <2>3. \/ /\ Nested(Inside(params, c), json', 3)
           /\ Inside(params, c).at = params.at /\ Inside(params, c).key = params.key
        \/ /\ Inside(params, c) = Scan("next") /\ json'.at = "after" /\ Len(json.stack) = 3
           /\ json' = Closed(json, params.at)
    BY <1>1, <2>1, <2>2, NestedStep
  <2> QED
    BY <1>2, <2>3
<1>6. CASE Nested(params', json', 3) /\ params'.at = params.at /\ params'.key = params.key
  <2>1. Len(json.stack) >= 3 /\ Len(json'.stack) >= 3
    BY <1>1, <1>6 DEF Nested
  <2>2. json'.sub = json.sub
    BY <1>1, <2>1, DeepMoves3
  <2>3. params'.at = "object" => params'.size <= parser'.size
    <3>1. params'.at = "object" => params'.size = Grown(params.size, c)
      BY <1>1, <1>2, <1>6, InsideSize
    <3> QED
      BY <1>6, <1>8, <3>1
  <2> QED
    BY <1>1, <1>3, <1>4, <1>6, <2>2, <2>3 DEF Abreast, InSession
<1>7. CASE params' = Scan("next") /\ json'.at = "after" /\ Len(json.stack) = 3 /\ json' = Closed(json, params.at)
  <2>1. params'.at = "next" /\ ~params'.quoted
    BY <1>7 DEF Scan
  <2>2. json'.stack = InParamsText
    <3>1. json.stack \in Seq(Brackets) /\ json.stack # <<>> /\ params.at \in Marks
      <4>1. json.stack \in Seq(Brackets) /\ params.at \in Marks
        BY <1>1 DEF Readers, Marks
      <4> QED
        BY <1>7, <4>1, Lengths
    <3> QED
      <4>1. json'.stack = Front(json.stack)
        BY <1>1, <1>7, <3>1, ClosedStackIs
      <4> QED
        BY <1>1, <1>7, <3>1, <4>1, FrontOfThree
  <2> QED
    BY <1>1, <1>3, <1>4, <1>7, <2>1, <2>2 DEF Abreast, InSession
<1> QED
  BY <1>5, <1>6, <1>7

\* The stack shrinks where a value is closed, by one.
LEMMA StackShrinks ==
    ASSUME NEW j, ReaderOK(j), NEW c \in Symbols, NEW k, Moves(j, c, k), NEW n \in {2, 3},
           Len(j.stack) >= n, ~(Len(k.stack) >= n)
    PROVE  /\ Len(j.stack) = n /\ c \in {"}", "]"} /\ j.at \in {"open", "element", "after"}
           /\ \E v \in {"object", "array"} : k = Closed(j, v)
<1>1. j \in Readers /\ j.stack \in Seq(Brackets) /\ j.text \in Marks /\ "atom" \in Marks
      /\ Len(j.stack) \in Nat
  <2>1. j \in Readers /\ j.stack \in Seq(Brackets)
    BY DEF ReaderOK, Readers
  <2>2. Len(j.stack) \in Nat
    BY <2>1
  <2> QED
    BY <2>1, <2>2 DEF Readers, Marks
<1>2. k.stack # j.stack
  OBVIOUS
<1>3. \A at : k # Goes(j, at)
  BY <1>1, <1>2, GoesIs
<1>4. k # j /\ k # Spelled(j, c) /\ k # Keyed(j)
  <2>1. Spelled(j, c).stack = j.stack /\ Keyed(j).stack = j.stack
    BY <1>1, SpelledIs, KeyedIs
  <2> QED
    BY <1>2, <2>1
<1>5. \A v \in Marks : k # Valued(j, v)
  <2>1. \A v \in Marks : Valued(j, v).stack = j.stack
    BY <1>1, ValuedIs
  <2> QED
    BY <1>2, <2>1
<1>6. ASSUME NEW at \in {"open", "element"}, c \in Brackets PROVE k # Pushed(j, at, c)
  <2>1. Pushed(j, at, c).stack = Append(j.stack, c)
    BY <1>1, <1>6, PushedIs
  <2>2. Len(Append(j.stack, c)) = Len(j.stack) + 1
    BY <1>1, <1>6, AppendIs
  <2>3. Len(j.stack) + 1 >= n
    BY <1>1
  <2> QED
    BY <2>1, <2>2, <2>3
<1>7. /\ c \in {"}", "]"} /\ j.at \in {"open", "element", "after"}
      /\ \E v \in {"object", "array"} : k = Closed(j, v)
  BY <1>1, <1>3, <1>4, <1>5, <1>6 DEF Moves, Brackets
<1>8. PICK v \in {"object", "array"} : k = Closed(j, v)
  BY <1>7
<1>9. k.stack = Front(j.stack) /\ Len(Front(j.stack)) = Len(j.stack) - 1
  <2>1. v \in Marks /\ j.stack # <<>>
    BY <1>1 DEF Marks
  <2> QED
    BY <1>1, <1>8, <2>1, ClosedStackIs, FrontIs
<1>10. Len(j.stack) = n
  BY <1>1, <1>9
<1> QED
  BY <1>7, <1>10

\* What made the search give up stays on the reader's record.
LEMMA WithinGivenUp ==
    ASSUME ReaderOK(json), GivenUp, InParams, json.key = "params",
           json.stack[1] = "{", json.stack[2] = "{", NEW c \in Symbols, Moves(json, c, json'),
           Len(json'.stack) >= 2, params' = params, InParams'
    PROVE  GivenUp'
<1>1. /\ "session_id" \in Names /\ json \in Readers /\ json.stack \in Seq(Brackets)
      /\ \A m \in {"absent", "twice", "atom", "object", "array", "long"} :
            m \in Marks /\ m \notin Contents \ {"long"}
      /\ json.members["session_id"] \in Marks
  BY DEF Names, ReaderOK, Readers, Marks, Contents, Words, Fields, Required
<1>2. json'.members["session_id"] \in {"atom", "object", "array", "twice", "long"} => GivenUp'
  BY <1>1 DEF GivenUp
<1>3. CASE json.members["session_id"] \in {"atom", "object", "array", "twice", "long"}
  <2>1. json'.members["session_id"] \in {json.members["session_id"], "twice"}
    BY <1>3, SessionIs
  <2> QED
    BY <1>2, <1>3, <2>1
<1>6. CASE json.members["session_id"] = "absent" /\ TooLong(json)
  <2>1. /\ json.at = "string" /\ json.stack = InParamsText /\ json.sub = "session_id" /\ json.text = "long"
        /\ "long" \in Marks
    BY <1>1, <1>6 DEF TooLong
  <2>2. json' = Spelled(json, c) \/ json' = Valued(json, "long")
    <3>1. json' = Spelled(json, c) \/ json' = Valued(json, json.text)
      BY <2>1, MovesFrom, Zenon
    <3> QED
      BY <2>1, <3>1, Zenon
  <2>3. CASE json' = Spelled(json, c)
    <3>1. Extend("long", c) = "long"
      BY DEF Extend
    <3>2. /\ json'.at = "string" /\ json'.stack = InParamsText /\ json'.sub = "session_id"
          /\ json'.text = "long" /\ json'.members = json.members
      <4>1. LET k == Spelled(json, c)
            IN /\ k.at = json.at /\ k.stack = json.stack /\ k.sub = json.sub /\ k.members = json.members
               /\ k.text = IF Matters(json) THEN Extend(json.text, c) ELSE json.text
        BY <1>1, SpelledIs
      <4>2. Spelled(json, c).text = "long"
        BY <2>1, <3>1, <4>1, Zenon
      <4> QED
        BY <2>1, <2>3, <4>1, <4>2, Zenon
    <3>3. TooLong(json')
      BY <3>2 DEF TooLong
    <3> QED
      BY <1>1, <1>6, <3>2, <3>3 DEF GivenUp
  <2>4. CASE json' = Valued(json, "long")
    <3>1. json'.members = Marked(json, "long")
      BY <1>1, <2>1, <2>4, ValuedIs
    <3>2. "session_id" \in Noted(json)
      BY <2>1, NotedIs
    <3>3. Marked(json, "long")["session_id"] = "long"
      BY <1>1, <1>6, <2>1, <3>2, MarkedIs
    <3> QED
      BY <1>2, <3>1, <3>3
  <2> QED
    BY <2>2, <2>3, <2>4
<1>4. CASE json.members["session_id"] = "absent" /\ ~TooLong(json)
  <2>1. json.sub = "session_id" /\ Len(json.stack) >= 3
    BY <1>4 DEF GivenUp
  <2>2. CASE Len(json'.stack) >= 3
    <3>1. json'.sub = json.sub /\ json'.members = json.members
      BY <2>1, <2>2, DeepMoves3
    <3> QED
      BY <1>1, <1>4, <2>1, <2>2, <3>1 DEF GivenUp
  <2>3. CASE ~(Len(json'.stack) >= 3)
    <3>1. \E v \in {"object", "array"} : json' = Closed(json, v)
      BY <2>1, <2>3, StackShrinks
    <3>2. PICK v \in {"object", "array"} : json' = Closed(json, v)
      BY <3>1
    <3>3. v \in Marks /\ json.stack # <<>>
      BY <1>1, <2>1, StackFacts
    <3>4. PICK u \in Readers : /\ json' = Valued(u, v) /\ u.stack = Front(json.stack) /\ u.key = json.key
                               /\ u.sub = json.sub /\ u.members = json.members
      BY <1>1, <3>2, <3>3, UnderIs, ClosedIs
    <3>5. json'.members = Marked(u, v) /\ json'.stack = u.stack
      BY <3>3, <3>4, ValuedIs
    <3>6. CASE u.stack = InParamsText
      <4>1. "session_id" \in Noted(u)
        BY <2>1, <3>4, <3>6, NotedIs
      <4>2. Marked(u, v)["session_id"] = v
        <5>1. u.members["session_id"] = "absent"
          BY <1>4, <3>4
        <5> QED
          BY <1>1, <3>3, <4>1, <5>1, MarkedIs
      <4> QED
        BY <1>2, <3>5, <4>2
    <3>7. u.stack = InParamsText
      BY <1>1, <2>1, <2>3, <3>4, StackShrinks, FrontOfThree
    <3> QED
      BY <3>6, <3>7
  <2> QED
    BY <2>2, <2>3
<1>5. json.members["session_id"] \in {"atom", "object", "array", "twice", "long", "absent"}
  BY <1>1 DEF GivenUp, Marks
<1> QED
  BY <1>3, <1>4, <1>5, <1>6

\* A search that is over stays so.
LEMMA SearchIsOver ==
    ASSUME NEW s, Placed(s), s.at \in {"found", "refused"}, NEW c
    PROVE  Extract(s, c) = s
<1>1. ~s.quoted
  BY DEF Placed
<1> QED
  BY <1>1, ExtractCases, ExtractAtIs

\* Only within the params does the reader note a session.
LEMMA SessionStays ==
    ASSUME SideInv, SideInv', Beside, Beside', Passed, NEW c \in Symbols, Product(c), Moves(json, c, json'),
           ~InParams
    PROVE  json'.members["session_id"] = json.members["session_id"]
<1>1. json \in Readers /\ ReaderOK(json) /\ ReaderOK(json)'
  BY DEF SideInv, ReaderOK
<1>2. json'.stack # InParamsText \/ json.key # "params"
        => json'.members["session_id"] = json.members["session_id"]
  BY <1>1, SessionIs
<1>3. CASE Nesting(c)
  BY <1>1, <1>3, PushedIs DEF Nesting
<1>4. CASE Cutting(c) \/ Finishing(c)
  BY <1>1, <1>4, GoesIs DEF Cutting, Finishing
<1>5. CASE GoingOn(c) \/ Leaving(c)
  <2>1. parser.at \in {"object", "array"}
    BY <1>5 DEF GoingOn, Leaving
  <2>2. json.key = parser.key /\ parser.key # "params"
    BY <2>1 DEF Beside, Passed, InParams
  <2> QED
    BY <1>2, <2>2
<1>6. CASE Blanking(c)
  BY <1>6 DEF Blanking
<1>7. CASE Opening(c) \/ BeginningKey(c) \/ SpellingKey(c) \/ EndingKey(c) \/ PassingColon(c)
           \/ BeginningString(c) \/ SpellingString(c) \/ EndingString(c) \/ PassingAtom(c)
           \/ Continuing(c) \/ Closing(c)
  <2>1. parser'.at \in {"key", "colon", "value", "scalar", "next", "done"}
    <3>1. Placed(parser)
      BY DEF SideInv, TypeInv
    <3>2. \A at \in {"key", "next", "done"} : Scan(at).at = at
      BY DEF Scan
    <3>3. [Scan("colon") EXCEPT !.key = Name(parser.text)].at = "colon"
      BY DEF Scan
    <3> QED
      BY <1>7, <3>1, <3>2, <3>3 DEF Opening, BeginningKey, SpellingKey, EndingKey, PassingColon,
         BeginningString, SpellingString, EndingString, PassingAtom, Continuing, Closing, Placed, Scans,
         Quote
  <2>2. json'.stack \in {<<>>, TopText}
    BY <1>1, <2>1 DEF Beside, ReaderOK
  <2>3. InParamsText # <<>> /\ InParamsText # TopText
    BY Words3
  <2> QED
    BY <1>2, <2>2, <2>3
<1> QED
  BY <1>3, <1>4, <1>5, <1>6, <1>7 DEF Product

\* What is noted stays so.
LEMMA NotesAre ==
    ASSUME TypeInv, NEW c \in Symbols, Measure(c)
    PROVE  /\ note'.lost <=> note.lost \/ Buries(json')
           /\ note.big => note'.big
           /\ InObject(json) /\ Len(json'.stack) = 1 /\ Grown(note.size, c) = MaxObject => note'.big
           /\ note'.size = IF InObject(json') THEN Grown(note.size, c) ELSE 0
<1>1. note \in [size : 0..MaxObject, big : BOOLEAN, lost : BOOLEAN]
  BY DEF TypeInv, TypeOK
<1> QED
  BY <1>1, MeasureIs

\* A search that is abreast has not passed by too long a key.
LEMMA AbreastIs ==
    ASSUME Abreast', json'.at = "keystring", json'.stack = InParamsText
    PROVE  json'.text # "long"
<1>1. params'.at \notin {"object", "array"}
  <2>1. Len(InParamsText) = 2 /\ ~(3 <= 2)
    BY Words3
  <2> QED
    BY <2>1 DEF Abreast, Nested
<1> QED
  BY <1>1 DEF Abreast

\* While the params go on, the search is abreast, over or given up.
LEMMA SessionGoesOn ==
    ASSUME SideInv, SideInv', Beside, Recorded, Passed, Searched, NEW c \in Symbols, Parse(c),
           Moves(json, c, json'), GoingOn(c), InParams, params' = Extract(params, c), Measure(c)
    PROVE  ((Abreast' \/ Found') /\ ~note'.lost) \/ GivenUp' \/ Lost' \/ Full'
<1>1. /\ ReaderOK(json) /\ json \in Readers /\ Placed(params) /\ Placed(parser) /\ Placed(params)'
      /\ params.at \notin {"done", "accepted"} /\ TypeInv
  BY DEF SideInv, TypeInv, ReaderOK, Searching
<1>2. InParams'
  BY DEF GoingOn, InParams
<1>8. note'.lost <=> note.lost \/ Buries(json')
  BY <1>1, NotesAre
<1>9. parser.size \in 0..MaxObject /\ parser'.size = Grown(parser.size, c)
  <2>1. parser.at = "object" /\ Inside(parser, c).at = "object" /\ parser' = Inside(parser, c)
    BY DEF InParams, GoingOn
  <2> QED
    BY <1>1, <2>1, InsideSize DEF Placed, Scans
<1>10. json.at \in Strings => c # "unicode"
  <2>1. ASSUME json.at \in Strings, c = "unicode" PROVE FALSE
    <3>1. parser.quoted /\ parser.at \in {"object", "array"} /\ parser' = Inside(parser, c)
          /\ parser'.at = parser.at
      BY <2>1 DEF GoingOn, Beside, Nested
    <3>2. Inside(parser, c) = Refused
      BY <1>1, <2>1, <3>1, InsideIs
    <3> QED
      BY <3>1, <3>2, RefusedIsPlaced
  <2> QED
    BY <2>1
<1>3. /\ json.key = "params" /\ json.stack[1] = "{" /\ Nested(parser, json, 2) /\ Nested(parser', json', 2)
  BY DEF Beside, InParams, GoingOn
<1>4. /\ json.stack[2] = "{" /\ Len(json'.stack) >= 2 /\ json'.at \notin {"cut", "ended"}
  BY <1>3 DEF Nested, Opener, InParams
<1>5. CASE Found /\ ~note.lost
  <2>1. params' = params
    BY <1>1, <1>5, SearchIsOver DEF Found
  <2>2. params.text # "absent" /\ params.text \in Contents
    BY <1>1 DEF Placed, Scans, Contents, Words, Fields, Required
  <2>3. json'.members["session_id"] \in {json.members["session_id"], "twice"}
    BY <1>1, <1>5, <2>2, SessionIs DEF Found
  <2>4. ~Buries(json')
    BY <1>5, <2>2, <2>3 DEF Buries, Found
  <2> QED
    BY <1>5, <1>8, <2>1, <2>3, <2>4 DEF Found
<1>6. CASE GivenUp
  <2>1. params' = params
    BY <1>1, <1>6, SearchIsOver DEF GivenUp
  <2> QED
    BY <1>1, <1>2, <1>3, <1>4, <1>6, <2>1, WithinGivenUp
<1>7. CASE Abreast /\ ~note.lost
  <2>1. Within(c)
    BY <1>1, <1>2, <1>3, <1>4, <1>7, <1>9, <1>10 DEF Within
  <2>2. params.at \in {"key", "colon", "value", "scalar", "next", "object", "array"}
    BY <1>7 DEF Abreast
  <2>3. \/ Abreast' \/ Found' \/ GivenUp' \/ parser'.size = MaxObject
        \/ params'.at = "refused" /\ Buries(json')
    BY <2>1, <2>2, WithinKeys, WithinValues, WithinNested
  <2>4. CASE Abreast'
    <3>1. ~Buries(json')
      <4>1. (json'.at = "keystring" /\ json'.stack = InParamsText) => json'.text # "long"
        BY <2>4, AbreastIs
      <4> QED
        BY <4>1 DEF Buries, InParamsText
    <3> QED
      BY <1>7, <1>8, <2>4, <3>1
  <2>5. CASE Found'
    <3>1. ~Buries(json')
      BY <1>1, <2>5 DEF Buries, Found, Placed, Scans, Contents, Words, Fields, Required
    <3> QED
      BY <1>7, <1>8, <2>5, <3>1
  <2>6. CASE parser'.size = MaxObject
    BY <1>2, <2>6 DEF Full
  <2>7. CASE params'.at = "refused" /\ Buries(json')
    BY <1>8, <2>7 DEF Lost
  <2> QED
    BY <2>3, <2>4, <2>5, <2>6, <2>7
<1>11. CASE Lost
  <2>1. params' = params
    BY <1>1, <1>11, SearchIsOver DEF Lost
  <2> QED
    BY <1>8, <1>11, <2>1 DEF Lost
<1>12. CASE Full
  BY <1>2, <1>9, <1>12, Sizes DEF Full
<1> QED
  BY <1>5, <1>6, <1>7, <1>11, <1>12 DEF Searched, Waiting

\* In an object or array the parser scans it.
LEMMA NestedParse ==
    ASSUME Placed(parser), parser.at \in {"object", "array"}, NEW c, Parse(c)
    PROVE  parser' = Inside(parser, c)
<1>1. CASE parser.quoted
  <2>1. ParseString(c)
    BY <1>1 DEF Parse, ParseColon, ParseValue, ParseOther, SkipWs, SkipsBlank
  <2>2. ~InField /\ (InField \/ parser.at = "key") = FALSE
    BY DEF InField
  <2> QED
    BY <1>1, <2>1, <2>2 DEF ParseString, Inside
<1>2. CASE ~parser.quoted
  <2>1. ~SkipsBlank(parser, c)
    BY DEF SkipsBlank
  <2> QED
    BY <1>2, <2>1, ParseAt, ParseOtherIs DEF Inside
<1> QED
  BY <1>1, <1>2

\* An object that is left fits its buffer.
LEMMA InsideLeaves ==
    ASSUME NEW s, Placed(s), s.at = "object", NEW c \in Symbols, Inside(s, c).at = "next"
    PROVE  Grown(s.size, c) # MaxObject
<1> DEFINE t == Counted(s, c)
<1>1. Placed(t) /\ t.at = "object"
  BY CountedIs
<1> HIDE DEF t
<1>2. /\ \A q : [t EXCEPT !.quoted = q].at = "object"
      /\ \A n : [t EXCEPT !.nest = n].at = "object"
      /\ Refused.at = "refused"
  BY <1>1, RefusedIsPlaced DEF Placed, Scans
<1>3. s.nest > 1 \/ s.nest = 1
  <2>1. s.nest > 0 /\ s.nest \in 0..MaxDepth
    BY DEF Placed, Scans
  <2> QED
    BY <2>1, DepthFacts
<1>4. CASE s.quoted
  <2>1. Inside(s, c) \in {[t EXCEPT !.quoted = FALSE], Refused, t}
    BY <1>4, InsideIs DEF t
  <2> QED
    BY <1>1, <1>2, <2>1
<1>5. CASE ~s.quoted
  <2>1. \/ Inside(s, c) = [t EXCEPT !.quoted = TRUE]
        \/ Inside(s, c) = [t EXCEPT !.nest = @ + 1]
        \/ Inside(s, c) = [t EXCEPT !.nest = @ - 1]
        \/ Inside(s, c) \in {Refused, t}
        \/ Grown(s.size, c) # MaxObject
    BY <1>3, <1>5, InsideIs, Zenon DEF t
  <2> QED
    BY <1>1, <1>2, <2>1
<1> QED
  BY <1>4, <1>5

\* At the end of the params the search is over: the session was found, or there is none.
LEMMA SessionEnds ==
    ASSUME SideInv, SideInv', Beside, Beside', Passed, Searched, NEW c \in Symbols,
           Product(c), Moves(json, c, json'), Leaving(c), InParams, params' = Extract(params, c),
           Parse(c), Measure(c)
    PROVE  (Found' /\ ~note'.lost) \/ GivenUp' \/ Lost'
<1>1. /\ ReaderOK(json) /\ json \in Readers /\ Placed(params) /\ json.stack \in Seq(Brackets)
      /\ Placed(parser) /\ TypeInv
  BY DEF SideInv, TypeInv, ReaderOK, Searching, Readers
<1>8. note'.lost <=> note.lost
  <2>1. ~Buries(json')
    BY DEF Leaving, Buries
  <2> QED
    BY <1>1, <2>1, NotesAre
<1>2. parser'.at = "next" /\ ~InParams'
  BY DEF Leaving, Scan, InParams
<1>3. json'.stack = TopText
  BY <1>2 DEF Beside
<1>4. json'.members["session_id"] = json.members["session_id"]
  <2>1. TopText # InParamsText
    BY Words3
  <2> QED
    BY <1>1, <1>3, <2>1, SessionIs
<1>5. CASE Found /\ ~note.lost
  <2>1. params' = params
    BY <1>1, <1>5, SearchIsOver DEF Found
  <2> QED
    BY <1>4, <1>5, <1>8, <2>1 DEF Found
<1>6. CASE GivenUp
  <2>1. params' = params
    <3>1. params.at = "refused" /\ Placed(params)
      BY <1>1, <1>6 DEF GivenUp
    <3> QED
      BY <3>1, SearchIsOver
  <2> QED
    BY <1>2, <1>4, <1>6, <2>1 DEF GivenUp
<1>9. CASE Lost
  <2>1. params' = params
    BY <1>1, <1>9, SearchIsOver DEF Lost
  <2> QED
    BY <1>8, <1>9, <2>1 DEF Lost
<1>10. CASE Full
  <2>1. parser.at = "object" /\ parser.size = MaxObject
    BY <1>10 DEF Full, InParams
  <2>2. Grown(parser.size, c) # MaxObject
    BY <1>1, <1>2, <2>1, NestedParse, InsideLeaves
  <2> QED
    BY <2>1, <2>2, Sizes
<1>7. CASE Abreast
  <2>1. Len(json.stack) = 2 /\ params.at \notin {"object", "array"}
    <3>1. Len(json.stack) = 2
      BY DEF Leaving
    <3>2. ~(3 <= 2)
      OBVIOUS
    <3> QED
      BY <1>7, <3>1, <3>2 DEF Abreast, Nested
  <2>2. json.stack = InParamsText /\ params.at \in {"key", "colon", "value", "scalar", "next"}
    BY <1>7, <2>1 DEF Abreast
  <2>3. ~(Len(json'.stack) >= 2)
    <3>1. ~(1 >= 2)
      OBVIOUS
    <3> QED
      BY <1>3, <3>1, TopIs
  <2>4. c \in {"}", "]"} /\ json.at \in {"open", "element", "after"}
    <3>1. Len(json.stack) >= 2
      BY <1>1, <2>1, StackFacts
    <3> QED
      BY <1>1, <2>3, <3>1, Numbers, StackShrinks
  <2>5. params.at \in {"key", "scalar", "next"} /\ ~params.quoted
    BY <1>1, <1>7, <2>2, <2>4 DEF Abreast, Placed
  <2>6. params' = ExtractAt(params, c)
    <3>1. ~SkipsBlank(params, c)
      BY <2>4 DEF SkipsBlank, Blank
    <3> QED
      BY <2>5, <3>1, ExtractCases
  <2>7. ExtractAt(params, c) = Member(params, c)
    BY <2>4, <2>5, ExtractAtIs DEF EndsScalar
  <2>8. Member(params, c) = Refused
    BY <2>4, MemberIs
  <2>9. params'.at = "refused"
    BY <2>6, <2>7, <2>8, RefusedIsPlaced
  <2>10. json'.members["session_id"] \notin Contents
    BY <1>4, <1>7 DEF Abreast, Contents, Words, Fields, Required
  <2> QED
    BY <1>2, <2>9, <2>10 DEF GivenUp
<1> QED
  BY <1>5, <1>6, <1>7, <1>9, <1>10 DEF Searched, Waiting

\* How the parser comes to a value, and to what is nested in one.
LEMMA ProductPlaces ==
    ASSUME Placed(parser), NEW c, Product(c)
    PROVE  /\ parser'.at \in {"object", "array"} => Nesting(c) \/ GoingOn(c)
           /\ parser'.at = "value" => PassingColon(c) \/ (parser.at = "value" /\ parser'.key = parser.key)
<1>1. CASE Nesting(c)
  BY <1>1 DEF Nesting, Placed, Scans
<1>2. CASE PassingColon(c)
  BY <1>2 DEF PassingColon, Placed, Scans
<1>3. CASE GoingOn(c)
  BY <1>3 DEF GoingOn
<1>4. CASE BeginningString(c) \/ SpellingString(c)
  BY <1>4 DEF BeginningString, SpellingString, Quote, Placed, Scans
<1>5. CASE Blanking(c)
  BY <1>5 DEF Blanking
<1>6. CASE BeginningKey(c) \/ SpellingKey(c) \/ PassingAtom(c)
  BY <1>6 DEF BeginningKey, SpellingKey, PassingAtom, Quote, Placed, Scans
<1>7. CASE Opening(c) \/ EndingKey(c) \/ EndingString(c) \/ Leaving(c) \/ Continuing(c) \/ Closing(c)
           \/ Cutting(c) \/ Finishing(c)
  <2>1. parser'.at \in {"key", "colon", "next", "done", "accepted"}
    <3>1. \A at \in {"key", "next", "done", "accepted"} : Scan(at).at = at
      BY DEF Scan
    <3>2. [Scan("colon") EXCEPT !.key = Name(parser.text)].at = "colon"
      BY DEF Scan
    <3> QED
      BY <1>7, <3>1, <3>2 DEF Opening, EndingKey, EndingString, Leaving, Continuing, Closing, Cutting,
         Finishing
  <2> QED
    BY <2>1
<1> QED
  BY <1>1, <1>2, <1>3, <1>4, <1>5, <1>6, <1>7 DEF Product

\* A key is noted as too long only in the params.
LEMMA BuriesInParams ==
    ASSUME Beside', Buries(json')
    PROVE  InParams'
<1>1. json'.at = "keystring" /\ json'.stack = InParamsText /\ json'.key = "params"
  BY DEF Buries, InParamsText
<1>2. InParamsText # <<>> /\ InParamsText # TopText /\ InParamsText[2] = "{"
  BY Words3 DEF InParamsText
<1>3. parser'.at \in {"object", "array"}
  BY <1>1, <1>2 DEF Beside
<1>4. json'.stack[2] = Opener(parser') /\ json'.key = parser'.key
  BY <1>3, Zenon DEF Beside, Nested
<1> QED
  BY <1>1, <1>2, <1>3, <1>4 DEF Opener, InParams

\* Each common step keeps the search where the reader's record says.
LEMMA SearchedStep ==
    ASSUME SideInv, SideInv', Beside, Beside', Recorded, Passed, Searched, NEW c \in Symbols, Parse(c),
           Moves(json, c, json'), Product(c), Follow(c), Measure(c)
    PROVE  Searched'
<1>1. /\ TypeInv /\ Placed(parser) /\ Placed(params) /\ json \in Readers
  BY DEF SideInv, TypeInv, ReaderOK, Searching
<1>2. IsOfParams(c) <=> InParams \/ (parser.at = "value" /\ parser.key = "params" /\ c = "{")
  BY DEF IsOfParams, InParams
<1>3. CASE InParams
  <2>1. params' = Extract(params, c) /\ parser.at = "object"
    BY <1>2, <1>3 DEF Follow, InParams
  <2>2. GoingOn(c) \/ Leaving(c)
    BY <2>1 DEF Product, Blanking, Opening, BeginningKey, SpellingKey, EndingKey, PassingColon,
       BeginningString, SpellingString, EndingString, PassingAtom, Continuing, Closing, Cutting,
       Finishing, Nesting
  <2>3. ((Abreast' \/ Found') /\ ~note'.lost) \/ GivenUp' \/ Lost' \/ Full'
    BY <1>3, <2>1, <2>2, SessionGoesOn, SessionEnds
  <2>4. "params" \in seen' /\ parser'.at # "value"
    <3>1. "params" \in seen
      BY <1>3, FieldsAre DEF Recorded, InMember, InParams
    <3>2. seen' = seen
      BY <1>1, <2>1, RecordsAre
    <3>3. parser'.at # "value"
      <4>1. Scan("next").at = "next"
        BY DEF Scan
      <4> QED
        BY <2>1, <2>2, <4>1 DEF GoingOn, Leaving
    <3> QED
      BY <3>1, <3>2, <3>3
  <2> QED
    BY <2>3, <2>4 DEF Searched
<1>4. CASE parser.at = "value" /\ parser.key = "params" /\ c = "{"
  <2>1. params' = Extract(params, c) /\ ~parser.quoted
    BY <1>2, <1>4 DEF Follow, Passed
  <2>2. Nesting(c)
    BY <1>4, <2>1 DEF Product, Blanking, Opening, BeginningKey, SpellingKey, EndingKey, PassingColon,
       BeginningString, SpellingString, EndingString, PassingAtom, Continuing, Closing, Cutting,
       Finishing, GoingOn, Leaving, White, Blank
  <2>3. params.at = "start" /\ ~params.quoted /\ json.members["session_id"] = "absent" /\ ~note.lost
    BY <1>1, <1>4 DEF Searched, Waiting, Abreast, Found, GivenUp, Lost, Full, InParams, Placed
  <2>4. params' = Scan("key")
    <3>1. ~SkipsBlank(params, c)
      BY <1>4 DEF SkipsBlank, Blank
    <3> QED
      BY <2>1, <2>3, <3>1, ExtractCases, ExtractAtIs
  <2>5. params'.at = "key" /\ ~params'.quoted /\ params'.text = ""
    BY <2>4 DEF Scan
  <2>6. InParams'
    BY <1>1, <1>4, <2>2 DEF Nesting, InParams, Placed, Scans
  <2>7. /\ json'.at = "open" /\ json'.stack = InParamsText /\ json'.members = json.members
    <3>1. json' = Pushed(json, "open", c) /\ c \in Brackets
      BY <1>4, <2>2 DEF Nesting
    <3>2. json.stack = TopText
      BY <1>4 DEF Beside
    <3>3. json'.at = "open" /\ json'.stack = Append(json.stack, c) /\ json'.members = json.members
      BY <1>1, <3>1, PushedIs
    <3> QED
      BY <1>4, <3>1, <3>2, <3>3, PushOnTop
  <2>8. "params" \in seen' /\ parser'.at # "value"
    <3>1. "params" \in seen
      BY <1>4, FieldsAre DEF Recorded, InMember
    <3>2. seen' = seen
      BY <1>1, <1>4, RecordsAre
    <3> QED
      BY <2>6, <3>1, <3>2 DEF InParams
  <2>9. ~note'.lost
    <3>1. ~Buries(json')
      BY <2>7 DEF Buries
    <3> QED
      BY <1>1, <2>3, <3>1, NotesAre
  <2> QED
    BY <2>3, <2>5, <2>6, <2>7, <2>8, <2>9 DEF Searched, Abreast, InSession
<1>5. CASE ~InParams /\ ~(parser.at = "value" /\ parser.key = "params" /\ c = "{")
  <2>1. params' = params
    BY <1>2, <1>5 DEF Follow
  <2>2. json'.members["session_id"] = json.members["session_id"]
    BY <1>5, SessionStays
  <2>3. ~InParams'
    <3>1. CASE Nesting(c)
      BY <1>1, <1>5, <3>1 DEF Nesting, InParams, Brackets, Placed, Scans
    <3>2. CASE GoingOn(c)
      BY <1>5, <3>2 DEF GoingOn, InParams
    <3>3. CASE ~Nesting(c) /\ ~GoingOn(c)
      BY <1>1, <3>3, ProductPlaces DEF InParams
    <3> QED
      BY <3>1, <3>2, <3>3
  <2>4. ASSUME params.at # "start"
        PROVE  "params" \in seen' /\ (parser'.at = "value" => parser'.key # "params")
    <3>1. "params" \in seen /\ (parser.at = "value" => parser.key # "params")
      BY <2>4 DEF Searched
    <3>2. CASE PassingColon(c)
      <4>1. parser'.at = "value" /\ parser'.key = parser.key /\ parser.at = "colon" /\ parser.key \notin seen
        BY <1>1, <3>2 DEF PassingColon, Placed, Scans
      <4>2. seen' = seen \cup ({parser.key} \cap Fields)
        BY <1>1, <4>1, RecordsAre
      <4> QED
        BY <3>1, <4>1, <4>2
    <3>3. CASE ~PassingColon(c)
      <4>1. seen' = seen
        <5>1. CASE parser.at # "colon"
          BY <1>1, <5>1, RecordsAre
        <5>2. CASE parser.at = "colon"
          <6>1. Blanking(c)
            BY <3>3, <5>2 DEF Product, Opening, BeginningKey, SpellingKey, EndingKey,
               BeginningString, SpellingString, EndingString, PassingAtom, Continuing, Closing,
               Cutting, Finishing, GoingOn, Leaving, Nesting
          <6> QED
            BY <1>1, <5>2, <6>1, RecordsAre DEF Blanking
        <5> QED
          BY <5>1, <5>2
      <4>2. parser'.at = "value" => parser.at = "value" /\ parser'.key = parser.key
        BY <1>1, <3>3, ProductPlaces
      <4> QED
        BY <3>1, <4>1, <4>2
    <3> QED
      BY <3>2, <3>3
  <2>5. ~Abreast /\ ~Full
    BY <1>5 DEF Abreast, Full
  <2>6. note'.lost <=> note.lost
    <3>1. ~Buries(json')
      BY <2>3, BuriesInParams
    <3> QED
      BY <1>1, <3>1, NotesAre
  <2> QED
    BY <2>1, <2>2, <2>3, <2>4, <2>5, <2>6 DEF Searched, Waiting, Found, GivenUp, Lost
<1> QED
  BY <1>3, <1>4, <1>5

SessionInv == FieldsInv /\ Followed

\* Before the first symbol.
LEMMA InitIsFollowed == Init => SessionInv
<1> SUFFICES ASSUME Init PROVE SessionInv
  OBVIOUS
<1>1. json.members = [m \in Names |-> "absent"]
  BY DEF Init, Reader, Names
<1>2. parser.at = "start" /\ params.at = "start"
  BY ScanIsPlaced DEF Init, Places
<1>3. Searched
  BY <1>1, <1>2 DEF Init, Searched, Waiting, InParams, Names
<1> QED
  BY <1>3, InitIsMatched DEF SessionInv, Followed

\* The search and the record agree as long as neither refuses.
LEMMA SessionStep ==
    ASSUME SessionInv, [Next]_vars
    PROVE  SessionInv'
<1>1. FieldsInv /\ FieldsInv' /\ SideInv /\ SideInv'
  BY FieldsStep DEF SessionInv, FieldsInv
<1>2. CASE UNCHANGED vars
  BY <1>1, <1>2 DEF SessionInv, vars, Followed, Live, Searched, Waiting, Abreast, Found, GivenUp, InParams,
     InSession, Nested, Opener, TooLong, Lost, Full
<1>3. ASSUME NEW c \in Symbols, Symbol(c)
      PROVE  Followed'
  <2>1. CASE Live /\ Live'
    <3>1. /\ Beside /\ Beside' /\ Recorded /\ Passed /\ TypeInv /\ ReaderOK(json) /\ Parse(c) /\ Aligned
          /\ Follow(c) /\ Measure(c)
      BY <1>1, <1>3, <2>1 DEF FieldsInv, SideInv, Aligned, Matched, Symbol
    <3>2. Product(c) /\ Moves(json, c, json')
      BY <1>3, <2>1, <3>1, ProductSteps, SymbolIs DEF Live
    <3>3. Searched
      BY <2>1 DEF SessionInv, Followed
    <3>4. Searched'
      BY <1>1, <3>1, <3>2, <3>3, SearchedStep
    <3> QED
      BY <3>4 DEF Followed
  <2>2. CASE ~Live
    BY <1>1, <1>3, <2>2, RefusalIsFinal DEF SideInv, Followed
  <2>3. CASE ~Live'
    BY <2>3 DEF Followed
  <2> QED
    BY <2>1, <2>2, <2>3
<1> QED
  BY <1>1, <1>2, <1>3 DEF Next, SessionInv

\* The session of an accepted request is the string that its params hold under session_id,
\* at their top: neither a nested member nor one that comes before it misleads the search.
\* There are two exceptions, and the theorem says what happens in both: a session_id of 64
\* bytes or more, and a key of 64 bytes or more before it.  The session then is "default",
\* as it is where there is no session_id or one that is no string
\* (anything_rpc_extract_param_string, rpc.c:305-366).
THEOREM SessionIsTheOneInTheParams == Spec => []SessionIsTheCallers
<1>1. SessionInv => SessionIsTheCallers
  <2> SUFFICES ASSUME SessionInv, parser.at = "accepted", json.at # "error"
               PROVE  LET session == json.members["session_id"] IN
                      CASE session \in Contents \ {"long"} /\ ~note.lost -> Session = session
                        [] session = "twice" /\ ~note.lost -> TRUE
                        [] OTHER -> Session = "default"
    BY DEF SessionIsTheCallers
  <2>1. Searched
    BY DEF SessionInv, Followed, Live
  <2>2. ~InParams
    BY DEF InParams
  <2>3. "twice" \notin Contents /\ "absent" \notin Contents
    BY DEF Contents, Words, Fields, Required
  <2>4. params.text \in Contents
    BY DEF SessionInv, FieldsInv, SideInv, TypeInv, Searching, Placed, Scans
  <2>5. CASE Found /\ ~note.lost
    <3>1. Session = params.text
      BY <2>5 DEF Found, Session
    <3>2. json.members["session_id"] \in {params.text, "twice"} /\ params.text # "long"
      BY <2>5 DEF Found
    <3> QED
      BY <2>3, <2>4, <2>5, <3>1, <3>2
  <2>6. CASE Waiting \/ GivenUp \/ Lost
    <3>1. Session = "default"
      BY <2>6 DEF Waiting, GivenUp, Lost, Session
    <3>2. json.members["session_id"] \notin Contents \ {"long"} \/ note.lost
      BY <2>3, <2>6 DEF Waiting, GivenUp, Lost
    <3> QED
      BY <2>3, <3>1, <3>2
  <2> QED
    BY <2>1, <2>2, <2>5, <2>6 DEF Searched, Abreast, Full
<1> QED
  BY <1>1, InitIsFollowed, SessionStep, PTL DEF Spec

-----------------------------------------------------------------------------
(* Texts that are of no supported kind, whatever follows. *)
\* A mark says so.
Unfit(j) == \/ j.odd
            \/ j.members["jsonrpc"] \notin {"absent", "2.0"}
            \/ j.members["params"] \notin {"absent", "object"}
            \/ \E f \in {"id", "method"} : j.members[f] \notin {"absent"} \cup Contents

\* In the value of a field.
InValue(j) == \/ j.stack = TopText /\ j.at \in {"value", "string"}
              \/ Len(j.stack) >= 2 /\ j.stack[1] = "{"

\* A field is there again.
Again(j) == j.key \in Fields /\ j.members[j.key] # "absent" /\ InValue(j)

\* A field's value is of the wrong kind.
Unlike(j) == \/ j.key = "params" /\ j.stack = TopText /\ j.at = "string"
             \/ j.key = "params" /\ Len(j.stack) >= 2 /\ j.stack[1] = "{" /\ j.stack[2] = "["
             \/ j.key \in Required /\ Len(j.stack) >= 2 /\ j.stack[1] = "{"

\* The text is not an object, or empty.
Elsewhere(j) == /\ \E f \in Required : j.members[f] = "absent"
                /\ \/ j.stack = <<>> /\ j.at \in {"string", "top", "ended"}
                   \/ j.stack # <<>> /\ j.stack[1] = "["

Doomed(j) == Again(j) \/ Unlike(j) \/ Elsewhere(j)

\* Marks that no supported request has.
LEMMA UnfitIs ==
    ASSUME NEW j
    PROVE  /\ \A f \in Fields : j.members[f] \in {"twice", "array", "atom"} => Unfit(j)
           /\ \A f \in Required : j.members[f] = "object" => Unfit(j)
           /\ j.members["params"] \in Contents => Unfit(j)
           /\ j.members["jsonrpc"] \notin {"absent", "2.0"} => Unfit(j)
<1>1. {"twice", "array", "atom", "object"} \cap ({"absent"} \cup Contents) = {}
  BY DEF Contents, Words, Fields, Required
<1>2. "absent" \notin Contents
  BY DEF Contents, Words, Fields, Required
<1> QED
  BY <1>1, <1>2 DEF Unfit, Fields, Required

\* Unfit is for good.
LEMMA UnfitStep ==
    ASSUME NEW j, ReaderOK(j), NEW c \in Symbols, NEW k, Moves(j, c, k), Unfit(j)
    PROVE  Unfit(k)
<1>1. /\ j.odd => k.odd
      /\ \A m \in Names : j.members[m] # "absent" => k.members[m] \in {j.members[m], "twice"}
  BY MarksStay
<1>2. Fields \subseteq Names /\ "id" \in Fields /\ "method" \in Fields /\ "jsonrpc" \in Fields /\ "params" \in Fields
  BY FieldsAre
<1>3. \A f \in Fields : k.members[f] = "twice" => Unfit(k)
  BY UnfitIs
<1> QED
  BY <1>1, <1>2, <1>3 DEF Unfit

\* The end of a field's value.
LEMMA FieldEnds ==
    ASSUME NEW u \in Readers, u.stack = TopText, u.key \in Fields, NEW v \in Marks
    PROVE  /\ Valued(u, v).members[u.key] \in {v, "twice"}
           /\ u.members[u.key] # "absent" => Valued(u, v).members[u.key] = "twice"
<1>1. Noted(u) = {u.key} /\ u.key \in Names
  BY FieldsAre, NotedIs
<1>2. Valued(u, v).members = Marked(u, v)
  BY ValuedIs
<1> QED
  BY <1>1, <1>2, MarkedIs

\* A field's object or array goes on, or is closed.
StillIn(j, k) == /\ Len(k.stack) >= 2 /\ k.stack[1] = "{" /\ k.stack[2] = j.stack[2] /\ k.key = j.key
                 /\ \A f \in Fields : k.members[f] = j.members[f]
Ending(j, k) == \E u \in Readers, v \in {"object", "array"} :
                   /\ u.stack = TopText /\ u.key = j.key /\ u.members = j.members
                   /\ k = Valued(u, v) /\ (j.stack[2] = "[" => v = "array")

\* Nothing else happens to it.
LEMMA ValueGoesOn ==
    ASSUME NEW j, ReaderOK(j), NEW c \in Symbols, NEW k, Moves(j, c, k),
           Len(j.stack) >= 2, j.stack[1] = "{"
    PROVE  StillIn(j, k) \/ Ending(j, k)
<1>1. j \in Readers /\ j.stack \in Seq(Brackets) /\ 2 \in {2, 3}
  BY DEF ReaderOK, Readers
<1>2. CASE Len(k.stack) >= 2
  <2>1. KeptBelow(j, k)
    BY <1>2, DeepMoves2
  <2> QED
    BY <1>2, <2>1 DEF KeptBelow, StillIn
<1>3. CASE ~(Len(k.stack) >= 2)
  <2>1. /\ Len(j.stack) = 2 /\ c \in {"}", "]"} /\ j.at \in {"open", "element", "after"}
        /\ \E v \in {"object", "array"} : k = Closed(j, v)
    BY <1>1, <1>3, StackShrinks
  <2>2. j.stack # <<>> /\ Last(j.stack) = j.stack[2]
    BY <1>1, <2>1, StackFacts, LastIs
  <2>3. ASSUME j.stack[2] = "[" PROVE k = Closed(j, "array")
    <3>1. Last(j.stack) = "[" /\ j.at # "open"
      BY <2>2, <2>3 DEF ReaderOK
    <3> QED
      BY <2>1, <3>1 DEF Moves, Strings, White, Blank
  <2>4. PICK v \in {"object", "array"} : k = Closed(j, v) /\ (j.stack[2] = "[" => v = "array")
    BY <2>1, <2>3
  <2>5. v \in Marks
    BY DEF Marks
  <2>6. /\ k = Valued(Under(j), v) /\ Under(j) \in Readers /\ Under(j).stack = Front(j.stack)
        /\ Under(j).key = j.key /\ Under(j).members = j.members
    BY <1>1, <2>2, <2>4, <2>5, UnderIs, ClosedIs
  <2>7. Front(j.stack) = TopText
    BY <1>1, <2>1, FrontOfTwo
  <2> QED
    BY <2>4, <2>6, <2>7, Zenon DEF Ending
<1> QED
  BY <1>2, <1>3

\* A string or another value of a field goes on, or it is over.
LEMMA ValueBegins ==
    ASSUME NEW j, ReaderOK(j), NEW c \in Symbols, NEW k, Moves(j, c, k),
           j.stack = TopText, j.at \in {"value", "string"}
    PROVE  \/ /\ k.stack = TopText /\ k.at \in {"value", "string"} /\ (j.at = "string" => k.at = "string")
              /\ k.key = j.key /\ k.members = j.members
           \/ /\ j.at = "value" /\ c \in Brackets /\ k.stack = Append(TopText, c)
              /\ k.key = j.key /\ k.members = j.members
           \/ k = Valued(j, IF j.at = "string" THEN j.text ELSE "atom")
<1>1. j \in Readers
  BY DEF ReaderOK
<1>2. CASE j.at = "string"
  <2>1. (Letter(c) /\ k = Spelled(j, c)) \/ k = Valued(j, j.text)
    BY <1>2, MovesFrom
  <2>2. CASE k = Spelled(j, c)
    BY <1>1, <1>2, <2>2, SpelledIs
  <2> QED
    BY <1>2, <2>1, <2>2
<1>3. CASE j.at = "value"
  <2>1. \/ k = j
        \/ k = Goes(j, "string")
        \/ c \in Brackets /\ \E at \in {"open", "element"} : k = Pushed(j, at, c)
        \/ k = Valued(j, "atom")
    BY <1>3, MovesFrom DEF Strings
  <2> QED
    BY <1>1, <1>3, <2>1, GoesIs, PushedIs
<1> QED
  BY <1>2, <1>3

\* A field that is there again is noted twice.
LEMMA AgainStep ==
    ASSUME NEW j, ReaderOK(j), NEW c \in Symbols, NEW k, Moves(j, c, k), Again(j)
    PROVE  Again(k) \/ Unfit(k)
<1>1. j \in Readers /\ j.key \in Fields /\ j.members[j.key] # "absent" /\ j.text \in Marks /\ "atom" \in Marks
  BY DEF ReaderOK, Readers, Again, Marks
<1>2. ASSUME NEW u \in Readers, NEW v \in Marks, u.stack = TopText, u.key = j.key,
             u.members = j.members, k = Valued(u, v)
      PROVE  Unfit(k)
  BY <1>1, <1>2, FieldEnds, UnfitIs
<1>3. CASE Len(j.stack) >= 2 /\ j.stack[1] = "{"
  <2>1. CASE /\ Len(k.stack) >= 2 /\ k.stack[1] = "{" /\ k.key = j.key
             /\ \A f \in Fields : k.members[f] = j.members[f]
    BY <1>1, <2>1 DEF Again, InValue
  <2>2. "object" \in Marks /\ "array" \in Marks
    BY DEF Marks
  <2>3. StillIn(j, k) \/ Ending(j, k)
    BY <1>3, ValueGoesOn
  <2> QED
    BY <1>2, <2>1, <2>2, <2>3 DEF StillIn, Ending
<1>4. CASE j.stack = TopText /\ j.at \in {"value", "string"}
  <2>1. CASE k.stack = TopText /\ k.at \in {"value", "string"} /\ k.key = j.key /\ k.members = j.members
    BY <1>1, <2>1 DEF Again, InValue
  <2>2. CASE c \in Brackets /\ k.stack = Append(TopText, c) /\ k.key = j.key /\ k.members = j.members
    <3>1. Len(k.stack) >= 2 /\ k.stack[1] = "{"
      <4>1. Len(Append(TopText, c)) = 2 /\ Append(TopText, c)[1] = "{"
        BY <2>2, PushOnTop, Zenon
      <4>2. Len(k.stack) = 2 /\ k.stack[1] = "{"
        BY <2>2, <4>1, Zenon
      <4> QED
        BY <4>2, Numbers, Zenon
    <3> QED
      BY <1>1, <2>2, <3>1 DEF Again, InValue
  <2>3. CASE k = Valued(j, IF j.at = "string" THEN j.text ELSE "atom")
    <3>1. (IF j.at = "string" THEN j.text ELSE "atom") \in Marks
      BY <1>1
    <3> QED
      BY <1>1, <1>2, <1>4, <2>3, <3>1
  <2> QED
    BY <1>4, <2>1, <2>2, <2>3, ValueBegins
<1> QED
  BY <1>3, <1>4 DEF Again, InValue

\* A field whose value is of the wrong kind is noted with it.
LEMMA UnlikeStep ==
    ASSUME NEW j, ReaderOK(j), NEW c \in Symbols, NEW k, Moves(j, c, k), Unlike(j)
    PROVE  Unlike(k) \/ Unfit(k)
<1>1. j \in Readers /\ j.text \in Contents /\ j.text \in Marks /\ "object" \in Marks /\ "array" \in Marks
  BY DEF ReaderOK, Readers, Marks
<1>2. Required \subseteq Fields /\ "params" \in Fields /\ "params" \notin Required
  BY FieldsAre
<1>3. CASE j.key = "params" /\ j.stack = TopText /\ j.at = "string"
  <2>1. CASE k.stack = TopText /\ k.at = "string" /\ k.key = j.key
    BY <1>3, <2>1 DEF Unlike
  <2>2. CASE k = Valued(j, j.text)
    <3>1. k.members["params"] \in {j.text, "twice"}
      BY <1>1, <1>2, <1>3, <2>2, FieldEnds
    <3> QED
      BY <1>1, <1>2, <3>1, UnfitIs
  <2> QED
    BY <1>3, <2>1, <2>2, ValueBegins
<1>4. CASE Len(j.stack) >= 2 /\ j.stack[1] = "{" /\ (j.key \in Required \/ (j.key = "params" /\ j.stack[2] = "["))
  <2>1. CASE Len(k.stack) >= 2 /\ k.stack[1] = "{" /\ k.stack[2] = j.stack[2] /\ k.key = j.key
    BY <1>4, <2>1 DEF Unlike
  <2>2. ASSUME NEW u \in Readers, NEW v \in {"object", "array"}, u.stack = TopText, u.key = j.key,
               k = Valued(u, v), j.stack[2] = "[" => v = "array"
        PROVE  Unfit(k)
    <3>1. k.members[j.key] \in {v, "twice"} /\ j.key \in Fields
      BY <1>1, <1>2, <1>4, <2>2, FieldEnds
    <3> QED
      BY <1>2, <1>4, <2>2, <3>1, UnfitIs
  <2>3. StillIn(j, k) \/ Ending(j, k)
    BY <1>4, ValueGoesOn
  <2> QED
    BY <2>1, <2>2, <2>3 DEF StillIn, Ending
<1> QED
  BY <1>3, <1>4 DEF Unlike

\* Outside of an object no member is noted.
LEMMA ElsewhereStep ==
    ASSUME NEW j, ReaderOK(j), NEW c \in Symbols, NEW k, Moves(j, c, k), Elsewhere(j)
    PROVE  Elsewhere(k)
<1>1. j \in Readers /\ j.stack \in Seq(Brackets)
  BY DEF ReaderOK, Readers
<1>2. PICK f \in Required : j.members[f] = "absent"
  BY DEF Elsewhere
<1>3. f \in Names
  BY <1>2, FieldsAre
<1>4. CASE j.stack = <<>> /\ j.at \in {"string", "top", "ended"}
  <2>1. k = j \/ k = Spelled(j, c) \/ k = Valued(j, j.text) \/ k = Goes(j, "ended")
    BY <1>4 DEF Moves
  <2>2. CASE k = Valued(j, j.text)
    <3>1. j.text \in Marks
      BY <1>1 DEF Readers, Marks
    <3>2. k.members = Marked(j, j.text) /\ k.stack = <<>> /\ k.at = "top"
      BY <1>1, <1>4, <2>2, <3>1, ValuedIs
    <3>3. <<>> # TopText /\ <<>> # InParamsText
      BY Words3
    <3>4. Noted(j) = {}
      BY <1>4, <3>3, NotedIs
    <3>5. k.members[f] = "absent"
      BY <1>1, <1>2, <1>3, <3>1, <3>2, <3>4, MarkedIs
    <3> QED
      BY <1>2, <3>2, <3>5 DEF Elsewhere
  <2>3. CASE k = Spelled(j, c)
    BY <1>1, <1>2, <1>4, <2>3, SpelledIs DEF Elsewhere
  <2>4. CASE k = Goes(j, "ended")
    BY <1>1, <1>2, <1>4, <2>4, GoesIs DEF Elsewhere
  <2>5. CASE k = j
    BY <2>5
  <2> QED
    BY <2>1, <2>2, <2>3, <2>4, <2>5
<1>5. CASE j.stack # <<>> /\ j.stack[1] = "["
  <2>1. ASSUME k.members = j.members,
               k.stack = j.stack \/ \E b \in Brackets : k.stack = Append(j.stack, b)
        PROVE  Elsewhere(k)
    <3>1. ASSUME NEW b \in Brackets PROVE Append(j.stack, b) # <<>> /\ Append(j.stack, b)[1] = j.stack[1]
      BY <1>1, <1>5
    <3> QED
      BY <1>2, <1>5, <2>1, <3>1 DEF Elsewhere
  <2>2. ASSUME NEW u \in Readers, NEW v \in Marks, u.members = j.members,
               u.stack = j.stack \/ (j.stack # <<>> /\ u.stack = Front(j.stack)), k = Valued(u, v)
        PROVE  Elsewhere(k)
    <3>1. u.stack = <<>> \/ (u.stack # <<>> /\ u.stack[1] = "[")
      <4>1. CASE u.stack = Front(j.stack) /\ Front(j.stack) # <<>>
        BY <1>1, <1>5, <4>1, FrontIs
      <4> QED
        BY <1>5, <2>2, <4>1
    <3>2. u.stack # TopText /\ u.stack # InParamsText
      <4>1. TopText[1] # "[" /\ InParamsText[1] # "[" /\ TopText # <<>> /\ InParamsText # <<>>
        BY DEF TopText, InParamsText
      <4> QED
        BY <3>1, <4>1
    <3>3. Noted(u) = {}
      BY <3>2, NotedIs
    <3>4. /\ k.members = Marked(u, v) /\ k.stack = u.stack
          /\ u.stack = <<>> => k.at = "top"
      BY <2>2, ValuedIs
    <3>5. k.members[f] = "absent"
      BY <1>2, <1>3, <2>2, <3>3, <3>4, MarkedIs
    <3> QED
      BY <1>2, <3>1, <3>4, <3>5 DEF Elsewhere
  <2> QED
    BY <2>1, <2>2, Marking
<1> QED
  BY <1>4, <1>5 DEF Elsewhere

\* A text that is of no supported kind remains so, whatever follows.
LEMMA DoomedStep ==
    ASSUME NEW j, ReaderOK(j), NEW c \in Symbols, NEW k, Moves(j, c, k), Unfit(j) \/ Doomed(j)
    PROVE  Unfit(k) \/ Doomed(k)
BY UnfitStep, AgainStep, UnlikeStep, ElsewhereStep DEF Doomed

-----------------------------------------------------------------------------
(* What the parser refuses is of no supported kind. *)

\* What is noted of a top-level object is the size the parser counts.
Weighed == /\ ~InObject(json) => note.size = 0
           /\ Live /\ parser.at = "object" => note.size = parser.size

\* So it is after each step.
LEMMA WeighedStep ==
    ASSUME SideInv, SideInv', Weighed, NEW c \in Symbols, Symbol(c)
    PROVE  Weighed'
<1>1. TypeInv /\ Measure(c) /\ note'.size = IF InObject(json') THEN Grown(note.size, c) ELSE 0
  BY NotesAre DEF SideInv, Symbol
<1>2. ASSUME Live', parser'.at = "object" PROVE note'.size = parser'.size
  <2>1. Live /\ Aligned /\ Beside /\ ReaderOK(json) /\ json \in Readers /\ Placed(parser) /\ parser \in Scans
    BY <1>2, RefusalIsFinal DEF SideInv, Aligned, ReaderOK, TypeInv, Placed
  <2>2. Product(c)
    BY <1>1, <1>2, <2>1, ProductSteps
  <2>3. CASE Nesting(c)
    <3>1. c = "{" /\ parser'.size = Grown(0, c)
      BY <1>2, <2>1, <2>3 DEF Nesting, Scans, Brackets
    <3>2. json.stack = TopText
      BY <2>1, <2>3 DEF Nesting, Beside
    <3>3. ~InObject(json)
      <4>1. ~(1 > 1)
        OBVIOUS
      <4> QED
        BY <3>2, <4>1, TopIs DEF InObject, Depth
    <3>4. InObject(json')
      <4>1. json'.stack = Append(TopText, c) /\ c \in Brackets
        <5>1. json' = Pushed(json, "open", c) /\ c \in Brackets
          BY <2>3, <3>1 DEF Nesting, Brackets
        <5> QED
          BY <2>1, <3>2, <5>1, PushedIs
      <4>2. Len(json'.stack) = 2 /\ json'.stack[1] = "{" /\ json'.stack[2] = "{"
        BY <3>1, <4>1, PushOnTop, Zenon
      <4>3. 2 > 1
        OBVIOUS
      <4> QED
        BY <4>2, <4>3 DEF InObject, Depth
    <3> QED
      BY <1>1, <3>1, <3>3, <3>4 DEF Weighed
  <2>4. CASE GoingOn(c)
    <3>1. parser.at = "object" /\ parser' = Inside(parser, c)
      BY <1>2, <2>4 DEF GoingOn
    <3>2. parser'.size = Grown(parser.size, c)
      BY <1>2, <2>1, <3>1, InsideSize
    <3>3. InObject(json')
      <4>1. Nested(parser', json', 2) /\ json'.stack \in Seq(Brackets) /\ parser'.at = "object"
        BY <1>2, <2>4 DEF GoingOn, SideInv, ReaderOK, Readers
      <4>2. json'.stack[2] = "{" /\ Len(json'.stack) > 1
        BY <4>1, StackFacts DEF Nested, Opener
      <4>3. json'.stack[1] = "{"
        BY <1>2 DEF SideInv, Aligned, Beside
      <4> QED
        BY <4>2, <4>3 DEF InObject, Depth
    <3> QED
      BY <1>1, <2>1, <3>1, <3>2, <3>3 DEF Weighed
  <2> QED
    BY <1>2, <2>1, <2>2, <2>3, <2>4, ProductPlaces
<1> QED
  BY <1>1, <1>2 DEF Weighed

\* Where the parser refuses and the reader does not, the text is of no supported kind.
Refuses(c) == /\ FieldsInv /\ Weighed /\ Live /\ c \in Symbols /\ Symbol(c)
              /\ parser'.at = "refused" /\ json'.at # "error"
Hopeless(j) == j.at = "cut" \/ Unfit(j) \/ Doomed(j)

\* There they were side by side, and the symbol is not passed over.
LEMMA RefusesAt ==
    ASSUME NEW c, Refuses(c)
    PROVE  /\ TypeInv /\ ReaderOK(json) /\ json \in Readers /\ Beside /\ Recorded /\ Passed
           /\ Placed(parser) /\ parser \in Scans /\ parser.at # "refused" /\ parser.at # "accepted"
           /\ Parse(c) /\ Moves(json, c, json') /\ ~SkipsBlank(parser, c)
<1>1. /\ TypeInv /\ ReaderOK(json) /\ json \in Readers /\ Beside /\ Recorded /\ Passed
      /\ Placed(parser) /\ parser \in Scans /\ parser.at # "refused"
  BY DEF Refuses, FieldsInv, SideInv, Matched, Aligned, Live, ReaderOK, TypeInv, Placed
<1>2. Parse(c) /\ Moves(json, c, json') /\ json.at \notin {"ended", "cut"}
  <2>1. c \in Symbols /\ Symbol(c) /\ json'.at # "error" /\ json.at # "error"
    BY DEF Refuses, Live
  <2> QED
    BY <1>1, <2>1, SymbolIs DEF Symbol, Ended
<1>3. ~SkipsBlank(parser, c)
  <2>1. SkipsBlank(parser, c) => ~parser.quoted
    BY DEF SkipsBlank
  <2> QED
    BY <1>1, <1>2, <2>1, ParseAt DEF Refuses
<1> QED
  BY <1>1, <1>2, <1>3 DEF Beside

\* In a string: an escape it does not know, more than fits, or another version.
LEMMA RefusesStrings ==
    ASSUME NEW c, Refuses(c), parser.quoted
    PROVE  Unfit(json')
<1>1. /\ TypeInv /\ ReaderOK(json) /\ json \in Readers /\ Beside /\ Placed(parser) /\ parser \in Scans
      /\ Parse(c) /\ Moves(json, c, json') /\ c \in Symbols
  BY RefusesAt DEF Refuses
<1>2. parser.at \in {"key", "value", "object", "array"} /\ json.at \in Strings
  BY <1>1 DEF Placed, Beside, Nested, Strings
<1>3. ParseString(c)
  BY <1>1 DEF Parse, ParseColon, ParseValue, ParseOther, SkipWs, SkipsBlank, Placed
<1>4. CASE c # "quote"
  <2>1. json' = Spelled(json, c) /\ Letter(c)
    BY <1>1, <1>2, <1>4 DEF Moves, Strings
  <2>2. json'.odd = (json.odd \/ Odd(json, c))
    BY <1>1, <2>1, SpelledIs
  <2>3. parser' = Literal(parser, c, InField \/ parser.at = "key")
    BY <1>3, <1>4 DEF ParseString
  <2>4. (InField \/ parser.at = "key") \in BOOLEAN
    BY DEF InField
  <2>5. CASE c = "unicode"
    BY <2>2, <2>5, Zenon DEF Unfit, Odd
  <2>6. CASE c # "unicode"
    <3>1. c \notin {"quote", "unicode", "newline", "formfeed", "end"}
      BY <1>4, <2>1, <2>6 DEF Letter
    <3>2. Counted(parser, c).at # "refused" /\ [parser EXCEPT !.text = Extend(parser.text, c)].at # "refused"
      <4>1. Counted(parser, c).at = parser.at
        BY <1>1, CountedIs
      <4> QED
        BY <1>1, <1>2, <4>1 DEF Scans
    <3>3. InField \/ parser.at = "key"
      <4>1. ASSUME ~(InField \/ parser.at = "key") PROVE FALSE
        <5>1. parser' = Counted(parser, c)
          BY <2>3, <2>4, <3>1, <4>1, LiteralCases, Zenon
        <5> QED
          BY <3>2, <5>1 DEF Refuses
      <4> QED
        BY <4>1
    <3>4. Extend(parser.text, c) = "long"
      <4>1. parser' = IF Extend(parser.text, c) = "long" THEN Refused
                      ELSE [parser EXCEPT !.text = Extend(parser.text, c)]
        BY <2>3, <2>4, <3>1, <3>3, LiteralCases, Zenon
      <4> QED
        BY <3>2, <4>1 DEF Refuses
    <3>5. parser.text # "long"
      BY <1>1, <3>3 DEF TypeInv, Fits, InField
    <3>6. c = "long"
      BY <3>4, <3>5, TextsAre
    <3>7. json.stack = <<"{">> /\ Matters(json)
      <4>1. json.stack = TopText /\ (json.at = "keystring" \/ (json.at = "string" /\ json.key \in Fields))
        BY <1>1, <3>3, FieldsAre DEF Beside, InField
      <4>2. json.stack = <<"{">>
        BY <4>1 DEF TopText
      <4>3. CASE json.at = "keystring"
        BY <4>2, <4>3 DEF Matters
      <4>4. CASE json.at = "string" /\ json.key \in Fields
        <5>1. Noted(json) # {}
          BY <4>1, <4>4, NotedIs
        <5>2. json.at = "string"
          BY <4>4
        <5>3. Matters(json)
          BY <5>1, <5>2, Zenon DEF Matters
        <5> QED
          BY <4>2, <5>3
      <4> QED
        BY <4>1, <4>2, <4>3, <4>4
    <3>8. Odd(json, c)
      BY <3>6, <3>7 DEF Odd
    <3> QED
      BY <2>2, <3>8, Zenon DEF Unfit
  <2> QED
    BY <2>5, <2>6
<1>5. CASE c = "quote"
  <2>1. \A decode \in BOOLEAN : Literal(parser, c, decode).at # "refused"
    <3> DEFINE t == Counted(parser, c)
    <3>1. Scan("next").at = "next" /\ [Scan("colon") EXCEPT !.key = Name(t.text)].at = "colon"
      BY DEF Scan
    <3>2. t.at = parser.at /\ Placed(t)
      BY <1>1, CountedIs
    <3> HIDE DEF t
    <3>3. [t EXCEPT !.quoted = FALSE].at = t.at
      BY <3>2 DEF Placed, Scans
    <3>4. Unquote(t).at # "refused"
      BY <1>2, <3>1, <3>2, <3>3, UnquoteCases
    <3>5. \A decode \in BOOLEAN : Literal(parser, c, decode) = Unquote(t)
      BY <1>5, LiteralCases DEF t
    <3> QED
      BY <3>4, <3>5
  <2>2. (InField \/ parser.at = "key") \in BOOLEAN
    BY DEF InField
  <2>3. InField /\ parser.key = "jsonrpc" /\ parser.text # "2.0"
    BY <1>3, <2>1, <2>2 DEF ParseString, Refuses
  <2>4. json.at = "string" /\ json.stack = TopText /\ json.key = "jsonrpc" /\ json.text = parser.text
    BY <1>1, <2>3 DEF Beside, InField
  <2>5. json' = Valued(json, json.text)
    BY <1>1, <1>5, <2>4, MovesFrom DEF Letter
  <2>6. json.text \in Contents /\ json.text \in Marks /\ json.text # "absent" /\ "jsonrpc" \in Fields
    BY <1>1, FieldsAre DEF Readers, Marks, Contents, Words, Fields, Required
  <2>7. json'.members["jsonrpc"] \in {json.text, "twice"}
    BY <1>1, <2>4, <2>5, <2>6, FieldEnds
  <2> QED
    BY <2>3, <2>4, <2>6, <2>7, UnfitIs
<1> QED
  BY <1>4, <1>5

\* Before the text's own brace: the text is no object.
LEMMA RefusesStart ==
    ASSUME NEW c, Refuses(c), parser.at = "start"
    PROVE  Elsewhere(json')
<1>1. /\ TypeInv /\ ReaderOK(json) /\ json \in Readers /\ Beside /\ Recorded /\ Placed(parser)
      /\ Parse(c) /\ Moves(json, c, json') /\ c \in Symbols /\ ~SkipsBlank(parser, c)
  BY RefusesAt DEF Refuses
<1>2. json.at = "value" /\ json.stack = <<>> /\ seen = {} /\ ~parser.quoted
  BY <1>1 DEF Beside, Placed
<1>3. c # "{" /\ c \notin White
  <2>1. parser' = IF c = "{" THEN Scan("key") ELSE Refused
    BY <1>1, <1>2, ParseAt, ParseOtherIs
  <2>2. Scan("key").at # "refused"
    BY DEF Scan
  <2>3. c \notin White
    BY <1>1, <1>2 DEF SkipsBlank, White
  <2> QED
    BY <2>1, <2>2, <2>3 DEF Refuses
<1>4. "id" \in Required /\ "id" \in Fields /\ "id" \in Names /\ json.members["id"] = "absent"
  BY <1>1, <1>2, FieldsAre DEF Recorded
<1>5. \/ json' = Goes(json, "string")
      \/ c = "[" /\ json' = Pushed(json, "element", c)
      \/ json' = Valued(json, "atom")
  BY <1>1, <1>2, <1>3, MovesFrom DEF Brackets
<1>6. CASE json' = Goes(json, "string")
  BY <1>1, <1>2, <1>4, <1>6, GoesIs DEF Elsewhere
<1>7. CASE c = "[" /\ json' = Pushed(json, "element", c)
  <2>1. json'.members = json.members /\ json'.stack = Append(json.stack, "[")
    BY <1>1, <1>7, PushedIs DEF Brackets
  <2>2. Append(json.stack, "[") # <<>> /\ Append(json.stack, "[")[1] = "["
    BY <1>2
  <2> QED
    BY <1>4, <2>1, <2>2 DEF Elsewhere
<1>8. CASE json' = Valued(json, "atom")
  <2>1. "atom" \in Marks
    BY DEF Marks
  <2>2. json'.members = Marked(json, "atom") /\ json'.stack = <<>> /\ json'.at = "top"
    BY <1>1, <1>2, <1>8, <2>1, ValuedIs
  <2>3. Noted(json) = {}
    BY <1>2, Words3, NotedIs
  <2>4. json'.members["id"] = "absent"
    BY <1>1, <1>4, <2>1, <2>2, <2>3, MarkedIs
  <2> QED
    BY <1>4, <2>2, <2>4 DEF Elsewhere
<1> QED
  BY <1>5, <1>6, <1>7, <1>8

\* Before a key: the text is cut, or an empty object.
LEMMA RefusesKeys ==
    ASSUME NEW c, Refuses(c), parser.at = "key", ~parser.quoted
    PROVE  json'.at = "cut" \/ Elsewhere(json')
<1>1. /\ TypeInv /\ ReaderOK(json) /\ json \in Readers /\ Beside /\ Recorded /\ Placed(parser)
      /\ Parse(c) /\ Moves(json, c, json') /\ c \in Symbols /\ ~SkipsBlank(parser, c) /\ parser \in Scans
  BY RefusesAt DEF Refuses
<1>2. /\ json.at \in {"open", "key"} /\ json.stack = TopText /\ (json.at = "open" => seen = {})
  BY <1>1 DEF Beside
<1>3. c # "quote" /\ c \notin White
  <2>1. c = "quote" => parser' = Quote(parser)
    BY <1>1, ParseAt, ParseOtherIs
  <2>2. Quote(parser).at # "refused"
    BY <1>1 DEF Quote, Scans
  <2>3. c \notin White
    BY <1>1 DEF SkipsBlank, White
  <2> QED
    BY <2>1, <2>2, <2>3 DEF Refuses
<1>4. \/ json.at = "open" /\ json' = Closed(json, "object")
      \/ json' = Goes(json, "cut")
  BY <1>1, <1>2, <1>3, MovesFrom
<1>5. CASE json' = Goes(json, "cut")
  BY <1>1, <1>5, GoesIs
<1>6. CASE json.at = "open" /\ json' = Closed(json, "object")
  <2>1. "object" \in Marks /\ json.stack # <<>> /\ Front(TopText) = <<>>
    <3>1. Front(TopText) \in Seq(Brackets) /\ Len(Front(TopText)) = 0
      BY Words3, FrontIs
    <3>2. Front(TopText) = <<>>
      BY <3>1, StackFacts
    <3> QED
      BY <1>2, <3>2, TopIs DEF Marks
  <2>2. /\ json' = Valued(Under(json), "object") /\ Under(json) \in Readers
        /\ Under(json).stack = <<>> /\ Under(json).members = json.members
    BY <1>1, <1>2, <1>6, <2>1, UnderIs, ClosedIs
  <2>3. json'.members = Marked(Under(json), "object") /\ json'.stack = <<>> /\ json'.at = "top"
    BY <2>1, <2>2, ValuedIs
  <2>4. Noted(Under(json)) = {}
    BY <2>2, Words3, NotedIs
  <2>5. "id" \in Required /\ "id" \in Fields /\ "id" \in Names /\ json.members["id"] = "absent"
    BY <1>1, <1>2, <1>6, FieldsAre DEF Recorded
  <2>6. json'.members["id"] = "absent"
    BY <2>1, <2>2, <2>3, <2>4, <2>5, MarkedIs
  <2> QED
    BY <2>3, <2>5, <2>6 DEF Elsewhere
<1> QED
  BY <1>4, <1>5, <1>6

\* Behind a key: the field was there before.
LEMMA RefusesColons ==
    ASSUME NEW c, Refuses(c), parser.at = "colon"
    PROVE  Again(json')
<1>1. /\ TypeInv /\ ReaderOK(json) /\ json \in Readers /\ Beside /\ Recorded /\ Placed(parser)
      /\ Parse(c) /\ Moves(json, c, json') /\ c \in Symbols /\ ~SkipsBlank(parser, c) /\ parser \in Scans
  BY RefusesAt DEF Refuses
<1>2. ~parser.quoted /\ json.at = "colon" /\ json.stack = TopText /\ json.key = parser.key
  BY <1>1 DEF Beside, Placed
<1>3. c \notin White
  BY <1>1, <1>2 DEF SkipsBlank, White
<1>4. c = ":" /\ json' = Goes(json, "value")
  BY <1>1, <1>2, <1>3, MovesFrom DEF Strings
<1>5. parser.key \in seen
  <2>1. ParseColon(c)
    BY <1>1, <1>2, ParseAt
  <2>2. [parser EXCEPT !.at = "value"].at # "refused"
    BY <1>1 DEF Scans
  <2> QED
    BY <1>4, <2>1, <2>2 DEF ParseColon, Refuses
<1>6. parser.key \in Fields /\ json.members[parser.key] # "absent"
  BY <1>1, <1>5 DEF TypeInv, TypeOK, Recorded, InMember
<1>7. json'.at = "value" /\ json'.stack = TopText /\ json'.key = parser.key /\ json'.members = json.members
  BY <1>1, <1>2, <1>4, GoesIs
<1> QED
  BY <1>6, <1>7 DEF Again, InValue

\* At a value: it is of the wrong kind.
LEMMA RefusesValues ==
    ASSUME NEW c, Refuses(c), parser.at = "value", ~parser.quoted
    PROVE  Unlike(json') \/ Unfit(json')
<1>1. /\ TypeInv /\ ReaderOK(json) /\ json \in Readers /\ Beside /\ Recorded /\ Placed(parser)
      /\ Parse(c) /\ Moves(json, c, json') /\ c \in Symbols /\ ~SkipsBlank(parser, c) /\ parser \in Scans
  BY RefusesAt DEF Refuses
<1>2. json.at = "value" /\ json.stack = TopText /\ json.key = parser.key
  BY <1>1 DEF Beside
<1>3. ParseValue(c) /\ c \notin White
  BY <1>1, ParseAt DEF SkipsBlank, White
<1>4. \/ c = "quote" /\ json' = Goes(json, "string")
      \/ c \in Brackets /\ \E at \in {"open", "element"} : json' = Pushed(json, at, c)
      \/ c \in {"atom", "2.0"} /\ json' = Valued(json, "atom")
  <2>1. \/ c = "quote" /\ json' = Goes(json, "string")
        \/ c \in Brackets /\ json' = Pushed(json, IF c = "{" THEN "open" ELSE "element", c)
        \/ c \in {"atom", "2.0"} /\ json' = Valued(json, "atom")
    BY <1>1, <1>2, <1>3, MovesFrom
  <2> QED
    BY <2>1
<1>5. Quote(parser).at # "refused" /\ SkipValue(parser, c).at # "refused"
  <2>1. SkipValue(parser, c).at \in {"value", "object", "array", "scalar"}
    BY <1>1, PlacesAfter
  <2> QED
    BY <1>1, <2>1 DEF Quote, Scans
<1>6. parser.key \in Fields
  <2>1. ~EndsScalar(c)
    BY <1>4 DEF EndsScalar, Brackets
  <2> QED
    BY <1>3, <1>5, <2>1, ParseValueIs DEF Refuses
<1>7. ASSUME json' = Valued(json, "atom") PROVE Unfit(json')
  <2>1. "atom" \in Marks
    BY DEF Marks
  <2>2. json'.members[json.key] \in {"atom", "twice"}
    BY <1>1, <1>2, <1>6, <1>7, <2>1, FieldEnds
  <2> QED
    BY <1>2, <1>6, <2>2, UnfitIs
<1>8. ASSUME c \in Brackets, \E at \in {"open", "element"} : json' = Pushed(json, at, c)
      PROVE  /\ json'.key = json.key /\ Len(json'.stack) >= 2 /\ json'.stack[1] = "{" /\ json'.stack[2] = c
  <2>1. json'.key = json.key /\ json'.stack = Append(TopText, c)
    <3>1. PICK at \in {"open", "element"} : json' = Pushed(json, at, c)
      BY <1>8
    <3>2. json \in Readers /\ json.stack = TopText
      BY <1>1, <1>2
    <3>3. Pushed(json, at, c).key = json.key /\ Pushed(json, at, c).stack = Append(json.stack, c)
      BY <1>8, <3>2, PushedIs
    <3> QED
      BY <3>1, <3>2, <3>3, Zenon
  <2>2. Len(Append(TopText, c)) = 2 /\ Append(TopText, c)[1] = "{" /\ Append(TopText, c)[2] = c
    BY <1>8, PushOnTop
  <2>3. Len(json'.stack) >= 2
    BY <2>1, <2>2, Numbers, Zenon
  <2> QED
    BY <2>1, <2>2, <2>3
<1>9. CASE parser.key \in Required
  <2>1. c # "quote"
    BY <1>3, <1>5, <1>9, ParseValueIs DEF Refuses
  <2> QED
    BY <1>2, <1>4, <1>7, <1>8, <1>9, <2>1 DEF Unlike
<1>10. CASE parser.key = "params"
  <2>1. c # "{"
    BY <1>3, <1>5, <1>10, ParseValueIs DEF Refuses
  <2>2. CASE c = "quote" /\ json' = Goes(json, "string")
    BY <1>1, <1>2, <1>10, <2>2, GoesIs DEF Unlike
  <2>3. CASE c = "[" /\ \E at \in {"open", "element"} : json' = Pushed(json, at, c)
    BY <1>2, <1>8, <1>10, <2>3 DEF Unlike, Brackets
  <2> QED
    BY <1>4, <1>7, <2>1, <2>2, <2>3 DEF Brackets
<1> QED
  BY <1>6, <1>9, <1>10, FieldsAre

\* In an object or array: it is cut, or more than fits.
LEMMA RefusesNested ==
    ASSUME NEW c, Refuses(c), parser.at \in {"object", "array"}, ~parser.quoted
    PROVE  json'.at = "cut" \/ note'.big
<1>1. /\ TypeInv /\ ReaderOK(json) /\ json \in Readers /\ Beside /\ Placed(parser)
      /\ Parse(c) /\ Moves(json, c, json') /\ c \in Symbols /\ parser \in Scans
  BY RefusesAt DEF Refuses
<1>2. parser' = Inside(parser, c)
  BY <1>1, NestedParse
<1>3. /\ json.at \notin Strings /\ Nested(parser, json, 2)
      /\ json.at \in {"value", "string", "keystring", "open", "key", "colon", "element", "after"}
  BY <1>1 DEF Beside, Nested
<1> DEFINE t == Counted(parser, c)
<1>4. Placed(t) /\ t.at # "refused" /\ Scan("next").at # "refused"
  BY <1>1, CountedIs DEF Scan
<1> HIDE DEF t
<1>5. /\ \A q : [t EXCEPT !.quoted = q].at # "refused"
      /\ \A n : [t EXCEPT !.nest = n].at # "refused"
  BY <1>4 DEF Placed, Scans
<1>6. parser.nest > 1 \/ parser.nest = 1
  <2>1. parser.nest > 0 /\ parser.nest \in 0..MaxDepth
    BY <1>1 DEF Placed, Scans
  <2> QED
    BY <2>1, DepthFacts
<1>7. c = "end" \/ (c = Closer(parser) /\ parser.nest = 1 /\ parser.at = "object"
                       /\ Grown(parser.size, c) = MaxObject)
  <2>1. \/ Inside(parser, c) = [t EXCEPT !.quoted = TRUE]
        \/ Inside(parser, c) = [t EXCEPT !.nest = @ + 1]
        \/ Inside(parser, c) = [t EXCEPT !.nest = @ - 1]
        \/ Inside(parser, c) \in {Scan("next"), t}
        \/ c = "end" \/ (c = Closer(parser) /\ parser.nest = 1 /\ parser.at = "object"
                             /\ Grown(parser.size, c) = MaxObject)
    BY <1>1, <1>6, InsideIs, Zenon DEF t
  <2> QED
    BY <1>2, <1>4, <1>5, <2>1 DEF Refuses
<1>8. CASE c = "end"
  <2>1. json' = Goes(json, "cut")
    BY <1>1, <1>3, <1>8 DEF Moves, Strings, White, Blank, Letter
  <2> QED
    BY <1>1, <2>1, GoesIs
<1>9. CASE /\ c = Closer(parser) /\ parser.nest = 1 /\ parser.at = "object"
           /\ Grown(parser.size, c) = MaxObject
  <2>1. Len(json.stack) = 2 /\ json' = Closed(json, parser.at)
    BY <1>1, <1>3, <1>9, Numbers, ClosesLast
  <2>2. json.stack \in Seq(Brackets) /\ json.stack # <<>> /\ Len(json.stack) > 1 /\ "object" \in Marks
    BY <1>1, <2>1, StackFacts DEF Readers, Marks
  <2>3. InObject(json)
    BY <1>1, <1>3, <1>9, <2>2 DEF InObject, Depth, Beside, Nested, Opener
  <2>4. Len(json'.stack) = 1
    <3>1. json'.stack = Front(json.stack)
      BY <1>1, <1>9, <2>1, <2>2, ClosedStackIs
    <3>2. Len(Front(json.stack)) = 2 - 1
      BY <2>1, <2>2, FrontIs
    <3> QED
      BY <3>1, <3>2, Numbers
  <2>5. note.size = parser.size
    BY <1>9 DEF Refuses, Weighed
  <2> QED
    BY <1>1, <1>9, <2>3, <2>4, <2>5, NotesAre DEF Refuses, Symbol
<1> QED
  BY <1>7, <1>8, <1>9

\* Behind a value the reader refuses what the parser refuses.
LEMMA RefusesNothing ==
    ASSUME NEW c, Refuses(c), parser.at \in {"scalar", "next"}
    PROVE  FALSE
<1>1. /\ TypeInv /\ ReaderOK(json) /\ json \in Readers /\ Beside /\ Recorded /\ Placed(parser)
      /\ Parse(c) /\ Moves(json, c, json') /\ c \in Symbols /\ ~SkipsBlank(parser, c) /\ parser \in Scans
  BY RefusesAt DEF Refuses
<1>2. ~parser.quoted /\ json.at = "after" /\ Last(json.stack) = "{"
  BY <1>1, TopIs DEF Beside, Placed
<1>3. /\ parser.at = "scalar" => parser' = IF EndsScalar(c) THEN AfterValue(c) ELSE parser
      /\ parser.at = "next" => parser' = AfterValue(c)
  BY <1>1, <1>2, ParseAt, ParseOtherIs
<1>4. c \notin White
  <2>1. CASE parser.at = "scalar"
    <3>1. EndsScalar(c)
      BY <1>1, <1>3, <2>1 DEF Refuses
    <3> QED
      BY <3>1 DEF EndsScalar, White, Blank
  <2>2. CASE parser.at = "next"
    BY <1>1, <1>2, <2>2 DEF SkipsBlank, White
  <2> QED
    BY <2>1, <2>2
<1>5. c \in {",", "}"}
  BY <1>1, <1>2, <1>4, MovesFrom
<1>6. AfterValue(c).at # "refused"
  <2>1. Scan("key").at # "refused" /\ Scan("done").at # "refused"
    BY DEF Scan
  <2> QED
    BY <1>5, <2>1, AfterValueIs
<1> QED
  BY <1>1, <1>3, <1>6 DEF Refuses

\* At the end of the text: a field is missing.
LEMMA RefusesEnds ==
    ASSUME NEW c, Refuses(c), parser.at = "done"
    PROVE  Elsewhere(json')
<1>1. /\ TypeInv /\ ReaderOK(json) /\ json \in Readers /\ Beside /\ Recorded /\ Placed(parser)
      /\ Parse(c) /\ Moves(json, c, json') /\ c \in Symbols /\ ~SkipsBlank(parser, c) /\ parser \in Scans
  BY RefusesAt DEF Refuses
<1>2. ~parser.quoted /\ json.at = "top" /\ json.stack = <<>>
  BY <1>1 DEF Beside, Placed, ReaderOK
<1>3. c \notin White
  BY <1>1, <1>2 DEF SkipsBlank, White
<1>4. c = "end" /\ json' = Goes(json, "ended")
  BY <1>1, <1>2, <1>3, MovesFrom
<1>5. \E f \in Required : f \notin seen
  <2>1. parser' = Checked
    BY <1>1, <1>2, <1>4, ParseAt, ParseOtherIs
  <2>2. Scan("accepted").at # "refused"
    BY DEF Scan
  <2> QED
    BY <2>1, <2>2 DEF Checked, Refuses
<1>6. \E f \in Required : json.members[f] = "absent"
  BY <1>1, <1>5, FieldsAre DEF Recorded
<1>7. json'.at = "ended" /\ json'.stack = <<>> /\ json'.members = json.members
  BY <1>1, <1>2, <1>4, GoesIs
<1> QED
  BY <1>6, <1>7 DEF Elsewhere

\* What the parser refuses there is no hope for.
LEMMA RefusesHopeless ==
    ASSUME NEW c, Refuses(c)
    PROVE  Hopeless(json') \/ note'.big
<1>1. parser.at \in {"start", "key", "colon", "value", "object", "array", "scalar", "next", "done"}
  BY RefusesAt DEF Beside
<1>2. CASE parser.quoted
  BY <1>2, RefusesStrings DEF Hopeless
<1>3. CASE ~parser.quoted
  BY <1>1, <1>3, RefusesStart, RefusesKeys, RefusesColons, RefusesValues, RefusesNested,
     RefusesNothing, RefusesEnds DEF Hopeless, Doomed
<1> QED
  BY <1>2, <1>3

RefusalInv == /\ FieldsInv /\ Weighed
              /\ parser.at = "refused" => json.at = "error" \/ Hopeless(json) \/ note.big

\* Before the first symbol.
LEMMA InitIsHopeful == Init => RefusalInv
<1> SUFFICES ASSUME Init PROVE RefusalInv
  OBVIOUS
<1>1. parser.at = "start" /\ note.size = 0
  BY DEF Init, Scan
<1> QED
  BY <1>1, InitIsMatched DEF RefusalInv, Weighed

\* What was refused stays hopeless.
LEMMA RefusalStep ==
    ASSUME RefusalInv, [Next]_vars
    PROVE  RefusalInv'
<1>1. FieldsInv'
  BY FieldsStep DEF RefusalInv
<1>2. CASE UNCHANGED vars
  BY <1>1, <1>2 DEF RefusalInv, vars, Weighed, InObject, Depth, Live, Hopeless, Unfit, Doomed, Again, InValue,
     Unlike, Elsewhere
<1>3. ASSUME NEW c \in Symbols, Symbol(c)
      PROVE  RefusalInv'
  <2>1. /\ SideInv /\ Matched /\ Weighed /\ TypeInv /\ ReaderOK(json)
        /\ json' = Read(json, c) /\ Parse(c) /\ json.at \notin {"ended", "cut"}
    BY <1>3 DEF RefusalInv, FieldsInv, SideInv, Symbol, Ended
  <2>2. Weighed'
    BY <1>1, <1>3, <2>1, WeighedStep DEF FieldsInv
  <2>4. note.big => note'.big
    BY <1>3, <2>1, NotesAre DEF Symbol
  <2>3. ASSUME parser'.at = "refused", json'.at # "error"
        PROVE  Hopeless(json') \/ note'.big
    <3>1. json.at # "error"
      <4>1. json.at = "error" => json' = json
        BY <2>1, ReadIs, ReadAtIs DEF Strings
      <4> QED
        BY <2>3, <4>1
    <3>2. CASE parser.at = "refused"
      <4>1. Unfit(json) \/ Doomed(json) \/ note.big
        BY <2>1, <3>1, <3>2 DEF RefusalInv, Hopeless
      <4>2. Moves(json, c, json')
        BY <1>3, <2>1, <2>3, <3>1, SymbolIs
      <4> QED
        BY <2>1, <2>4, <4>1, <4>2, DoomedStep DEF Hopeless
    <3>3. CASE parser.at # "refused"
      <4>1. Refuses(c)
        BY <1>3, <2>1, <2>3, <3>1, <3>3 DEF Refuses, RefusalInv, Live
      <4> QED
        BY <4>1, RefusesHopeless
    <3> QED
      BY <3>2, <3>3
  <2> QED
    BY <1>1, <2>2, <2>3 DEF RefusalInv
<1> QED
  BY <1>2, <1>3 DEF Next

\* A request that is valid JSON of the supported kind is accepted: what the parser skips
\* without understanding it is skipped to its end, however deep it nests, and it refuses
\* only what cannot become such a request.  The kind leaves out what the parser has no room
\* for, and no more: a top-level key or a field's value of 64 bytes or more, a top-level
\* object of MaxObject bytes or more, however they are made up, and the escapes it does not
\* know (anything_rpc_parse, skip_json_value, copy_json_object_raw).
THEOREM SupportedRequestsAreAccepted == Spec => []SupportedIsAccepted
<1>1. RefusalInv => SupportedIsAccepted
  <2> SUFFICES ASSUME RefusalInv, json.at = "ended", Supported,
                      \A f \in Required : json.members[f] # "absent"
               PROVE  parser.at = "accepted"
    BY DEF SupportedIsAccepted
  <2>1. CASE parser.at = "refused"
    <3>1. ~Unfit(json) /\ ~note.big
      BY DEF Supported, Unfit
    <3>2. json.stack = <<>>
      BY DEF RefusalInv, FieldsInv, SideInv, ReaderOK
    <3>3. Doomed(json)
      BY <2>1, <3>1 DEF RefusalInv, Hopeless
    <3>4. ~Elsewhere(json)
      BY DEF Elsewhere
    <3>5. json.stack # TopText /\ ~(Len(json.stack) >= 2)
      <4>1. Len(<<>>) = 0 /\ ~(0 >= 2) /\ <<>> # TopText
        BY Words3
      <4> QED
        BY <3>2, <4>1
    <3> QED
      BY <3>3, <3>4, <3>5 DEF Doomed, Again, InValue, Unlike
  <2>2. CASE parser.at # "refused"
    <3>1. Beside
      BY <2>2 DEF RefusalInv, FieldsInv, SideInv, Aligned, Live
    <3> QED
      BY <3>1 DEF Beside, Nested
  <2> QED
    BY <2>1, <2>2
<1> QED
  BY <1>1, InitIsHopeful, RefusalStep, PTL DEF Spec
=============================================================================
