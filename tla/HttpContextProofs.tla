-------------------------- MODULE HttpContextProofs --------------------------
(***************************************************************************)
(* The parser stays within the message, completes a request only after an  *)
(* empty line, and understands a request that comes in one piece as it was *)
(* sent, for all messages and requests.                                    *)
(*                                                                         *)
(* A word ends at a character that is not the NUL, so that it is within    *)
(* the message, and the next one begins behind that character. The parser  *)
(* waits for a message in its first state, and the pointers of the last    *)
(* message are not used in the next one.                                   *)
(*                                                                         *)
(* While it parses the text of a request, it is in a stage (Stage): at one *)
(* of the words, with the pointers within it and all the words before it   *)
(* set as they were sent. Whether it reads the body is decided by the      *)
(* headers that the HttpRequest has at their end (BodyIsRead): in the      *)
(* first request of a connection they are the request's own (OwnHeaders),  *)
(* and the body is empty until it is read (BodyFresh).                     *)
(***************************************************************************)
EXTENDS HttpContext, SequenceLemmas, TLAPS

RequestField == {"method", "url", "params", "protocol", "version", "headers", "body"}

IdleAtStart == pc = "idle" => state = "START"

Inv == /\ TypeOK
       /\ IdleAtStart
       /\ request = [f \in RequestField |-> request[f]]

Text0 == msg \o <<NUL>>

-----------------------------------------------------------------------------
LEMMA MessageAndNul ==
    ASSUME msg \in Seq(Char)
    PROVE  /\ Len(msg) \in Nat
           /\ \A i \in 1 .. Len(msg) : Text0[i] \in Char
           /\ Text0[Len(msg) + 1] = NUL
<1>1. msg \in Seq(AnyChar) /\ <<NUL>> \in Seq(AnyChar) /\ Len(<<NUL>>) = 1
  <2>1. NUL \in AnyChar /\ Char \subseteq AnyChar
    BY DEF AnyChar
  <2> QED
    BY <2>1
<1>2. Len(msg) \in Nat /\ \A i \in 1 .. Len(msg) : msg[i] \in Char
  BY ElementOfSeq, LenProperties
<1>3. \A i \in 1 .. Len(msg) + 1 : Text0[i] = IF i <= Len(msg) THEN msg[i] ELSE <<NUL>>[i - Len(msg)]
  BY <1>1, ConcatProperties DEF Text0
<1> QED
  BY <1>2, <1>3

LEMMA NulIsNoChar == NUL \notin Char
BY DEF NUL, Char, Upper, Digit, White

(* A word that ends within the message is a string of the message's        *)
(* characters.                                                             *)
LEMMA WordInMessage ==
    ASSUME msg \in Seq(Char), NEW first \in Nat \ {0}, NEW last \in Nat, last <= Len(msg) + 1
    PROVE  Word(first, last) \in Seq(Char)
<1>1. \A i \in first .. last - 1 : Text0[i] \in Char
  BY MessageAndNul
<1> QED
  BY <1>1, SubSeqProperties DEF Word, Text0

(* A character that is tested for is not the NUL.                          *)
LEMMA CharInMessage ==
    ASSUME TypeOK, NEW s, NEW c \in Char, At(s, c)
    PROVE  end <= Len(msg) /\ pc = "parse"
<1>1. /\ msg \in Seq(Char) /\ pc = "parse"
      /\ end \in 1 .. Len(msg) + 2 /\ end <= Len(msg) + 1 /\ Text0[end] \in Char
  BY DEF At, Parsing, ch, TypeOK, Text0
<1>2. Text0[Len(msg) + 1] \notin Char /\ Len(msg) \in Nat
  BY <1>1, MessageAndNul, NulIsNoChar
<1> QED
  BY <1>1, <1>2

LEMMA PutIsMap ==
    ASSUME NEW map, IsMap(map), NEW key \in Seq(Char), NEW value \in Seq(Char)
    PROVE  IsMap(Put(map, key, value))
BY DEF IsMap, Put

-----------------------------------------------------------------------------
(* The words and the pointers, apart.                                      *)
WordsOK == /\ request = [f \in RequestField |-> request[f]]
           /\ \A f \in {"method", "url", "protocol", "version", "body"} : request[f] \in Seq(Char)
           /\ IsMap(request.params) /\ IsMap(request.headers)

PlacesOK == /\ state \in State
            /\ end \in 1 .. Len(msg) + 2
            /\ start \in 1 .. end /\ colon \in 1 .. end
            /\ state \in {"BEFORE_URL_PARAM_VALUE", "URL_PARAM_VALUE", "HEADER_VALUE"} => start <= colon /\ colon < end

Parts == /\ WordsOK /\ PlacesOK
         /\ msg \in Seq(Char) /\ received \in 0 .. MaxMessages
         /\ pc \in {"idle", "parse", "closed", "thrown"}
         /\ IdleAtStart

LEMMA InvParts == Inv <=> Parts
BY DEF Inv, Parts, WordsOK, PlacesOK, TypeOK

LEMMA InitInv == Init => Inv
<1> SUFFICES ASSUME Init PROVE Parts
  BY InvParts
<1>1. <<>> \in Seq(Char) /\ Len(<<>>) = 0 /\ IsMap(<<>>)
  BY DEF IsMap
<1>2. WordsOK
  BY <1>1 DEF Init, WordsOK, RequestField, Unknown
<1>3. PlacesOK
  BY <1>1 DEF Init, PlacesOK, State
<1> QED
  BY <1>1, <1>2, <1>3, ConstantsAssumption DEF Init, Parts, IdleAtStart

(* A round that goes on to a state whose word has no colon yet.            *)
Plain == State \ {"BEFORE_URL_PARAM_VALUE", "URL_PARAM_VALUE", "HEADER_VALUE"}

LEMMA GotoPlaces ==
    ASSUME Inv, Parsing, NEW s \in Plain, Goto(s), UNCHANGED <<start, colon>>
    PROVE  PlacesOK'
BY SMTT(30), MessageAndNul DEF Inv, TypeOK, Parsing, Goto, PlacesOK, Plain

LEMMA NextWordPlaces ==
    ASSUME Inv, Parsing, NEW s \in Plain, NextWord(s)
    PROVE  PlacesOK'
BY SMTT(30), MessageAndNul DEF Inv, TypeOK, Parsing, NextWord, Goto, PlacesOK, Plain

LEMMA RoundRest ==
    ASSUME Inv, Parsing, NEW s, Goto(s), WordsOK', PlacesOK'
    PROVE  Inv'
<1>1. Parts'
  BY DEF Inv, TypeOK, Parsing, Goto, Parts, IdleAtStart
<1> QED
  BY <1>1, InvParts, PTL

LEMMA SameWords ==
    ASSUME Inv, UNCHANGED request
    PROVE  WordsOK'
BY InvParts DEF Parts, WordsOK, IsMap

-----------------------------------------------------------------------------
(* The rounds of ParaseRequest.                                            *)
LEMMA RefuseInv == Inv /\ Refuse => Inv'
<1> SUFFICES ASSUME Inv, Refuse PROVE Inv'
  OBVIOUS
<1>1. Parsing /\ Goto("kINVALID") /\ UNCHANGED <<request, start, colon>>
  BY DEF Refuse
<1>2. "kINVALID" \in Plain
  BY DEF Plain, State
<1> QED
  BY <1>1, <1>2, GotoPlaces, SameWords, RoundRest

LEMMA MoveTargets ==
    ASSUME NEW m \in Moves
    PROVE  \/ m[3] \in Plain
           \/ m[3] = "URL_PARAM_VALUE" /\ m[1] \in {"BEFORE_URL_PARAM_VALUE", "URL_PARAM_VALUE"}
           \/ m[3] = "HEADER_VALUE" /\ m[1] = "HEADER_VALUE"
<1>1. CASE \E c : m \in {<<"START", c, "START">>, <<"START", c, "METHOD">>, <<"METHOD", c, "METHOD">>,
                        <<"BEFORE_URL", c, "BEFORE_URL">>, <<"BEFORE_URL", c, "IN_URL">>,
                        <<"IN_URL", c, "IN_URL">>, <<"BEFORE_URL_PARAM_KEY", c, "URL_PARAM_KEY">>,
                        <<"URL_PARAM_KEY", c, "URL_PARAM_KEY">>}
  BY <1>1 DEF Plain, State
<1>2. CASE \E c : m \in {<<"BEFORE_PROTOCOL", c, "BEFORE_PROTOCOL">>, <<"BEFORE_PROTOCOL", c, "PROTOCOL">>,
                        <<"PROTOCOL", c, "PROTOCOL">>, <<"BEFORE_VERSION", c, "VERSION">>,
                        <<"VERSION", c, "VERSION">>, <<"CR_LF", c, "CR_LF_CR">>,
                        <<"CR_LF", c, "HEADER_KEY">>, <<"HEADER_KEY", c, "HEADER_KEY">>}
  BY <1>2 DEF Plain, State
<1>3. CASE \E c : m \in {<<"BEFORE_URL_PARAM_VALUE", c, "URL_PARAM_VALUE">>,
                        <<"URL_PARAM_VALUE", c, "URL_PARAM_VALUE">>, <<"HEADER_VALUE", c, "HEADER_VALUE">>}
  BY <1>3
<1> QED
  BY <1>1, <1>2, <1>3, Zenon DEF Moves

LEMMA MoveInv == Inv /\ Move => Inv'
<1> SUFFICES ASSUME Inv, Move PROVE Inv'
  OBVIOUS
<1>1. PICK m \in Moves : state = m[1] /\ Goto(m[3])
  BY DEF Move
<1>2. Parsing /\ UNCHANGED <<request, start, colon>>
  BY DEF Move
<1>3. PlacesOK'
  <2>1. CASE m[3] \in Plain
    BY <1>1, <1>2, <2>1, GotoPlaces
  <2>2. CASE m[3] \notin Plain
    <3>1. m[1] \in {"BEFORE_URL_PARAM_VALUE", "URL_PARAM_VALUE", "HEADER_VALUE"} /\ m[3] \in State
      BY <2>2, MoveTargets DEF State
    <3> QED
      BY SMTT(30), <1>1, <1>2, <3>1, MessageAndNul DEF Inv, TypeOK, Parsing, Goto, PlacesOK
  <2> QED
    BY <2>1, <2>2
<1> QED
  BY <1>1, <1>2, <1>3, SameWords, RoundRest

LEMMA MarkColonInv == Inv /\ MarkColon => Inv'
<1> SUFFICES ASSUME Inv, MarkColon PROVE Inv'
  OBVIOUS
<1>1. PICK s \in {"BEFORE_URL_PARAM_VALUE", "HEADER_VALUE"} : Goto(s)
  BY DEF MarkColon
<1>2. Parsing /\ colon' = end /\ UNCHANGED <<request, start>>
  BY DEF MarkColon, At
<1>3. PlacesOK'
  BY <1>1, <1>2, MessageAndNul DEF Inv, TypeOK, Parsing, Goto, PlacesOK, State
<1> QED
  BY <1>1, <1>2, <1>3, SameWords, RoundRest

(* What each field of the request is set to is a word of the message.      *)
LEMMA SetField ==
    ASSUME Inv, NEW f \in {"method", "url", "protocol", "version", "body"}, NEW word \in Seq(Char),
           request' = [request EXCEPT ![f] = word]
    PROVE  WordsOK'
BY InvParts DEF Parts, WordsOK, IsMap, RequestField

LEMMA SetMap ==
    ASSUME Inv, NEW f \in {"params", "headers"}, NEW map, IsMap(map),
           request' = [request EXCEPT ![f] = map]
    PROVE  WordsOK'
BY InvParts DEF Parts, WordsOK, IsMap, RequestField

LEMMA PlainStates ==
    {"BEFORE_URL", "BEFORE_URL_PARAM_KEY", "BEFORE_PROTOCOL", "BEFORE_VERSION", "WHEN_CR",
     "CR_LF", "BODY", "COMPLETE", "kINVALID"} \subseteq Plain
BY DEF Plain, State

(* The word that ends at the character tested for.                         *)
LEMMA WordHere ==
    ASSUME Inv, NEW s, NEW c \in Char, At(s, c)
    PROVE  Parsing /\ Word(start, end) \in Seq(Char)
<1>1. end <= Len(msg) /\ Parsing
  BY CharInMessage DEF Inv, At
<1>2. msg \in Seq(Char) /\ Len(msg) \in Nat /\ start \in Nat \ {0} /\ end \in Nat
  BY MessageAndNul DEF Inv, TypeOK
<1> QED
  BY <1>1, <1>2, WordInMessage

LEMMA TestedChars == {" ", "?", "&", "/", "CR", "LF", "=", ":"} \subseteq Char /\ <<>> \in Seq(Char)
BY DEF Char, White

LEMMA SetMethodInv == Inv /\ SetMethod => Inv'
<1> SUFFICES ASSUME Inv, SetMethod PROVE Inv'
  OBVIOUS
<1>1. Parsing /\ Word(start, end) \in Seq(Char) /\ NextWord("BEFORE_URL")
  BY TestedChars, WordHere DEF SetMethod
<1>2. PICK word \in Seq(Char) : request' = [request EXCEPT !.method = word]
  BY <1>1, TestedChars DEF SetMethod, Unknown
<1>3. WordsOK'
  BY <1>2, SetField
<1>4. PlacesOK'
  BY <1>1, PlainStates, NextWordPlaces
<1> QED
  BY <1>1, <1>3, <1>4, RoundRest DEF NextWord

LEMMA SetUrlInv == Inv /\ SetUrl => Inv'
<1> SUFFICES ASSUME Inv, SetUrl PROVE Inv'
  OBVIOUS
<1>1. Parsing /\ Word(start, end) \in Seq(Char)
  BY TestedChars, WordHere DEF SetUrl
<1>2. PICK s \in Plain : NextWord(s)
  BY PlainStates DEF SetUrl
<1>3. WordsOK'
  BY <1>1, SetField DEF SetUrl
<1>4. PlacesOK'
  BY <1>1, <1>2, NextWordPlaces
<1> QED
  BY <1>1, <1>2, <1>3, <1>4, RoundRest DEF NextWord

LEMMA SetRequestParamsInv == Inv /\ SetRequestParams => Inv'
<1> SUFFICES ASSUME Inv, SetRequestParams PROVE Inv'
  OBVIOUS
<1>1. Parsing /\ end <= Len(msg)
  BY TestedChars, WordHere, CharInMessage DEF SetRequestParams, Inv
<1>2. PICK s \in Plain : NextWord(s)
  BY PlainStates DEF SetRequestParams
<1>3. /\ msg \in Seq(Char) /\ Len(msg) \in Nat
      /\ start \in Nat \ {0} /\ colon \in Nat \ {0} /\ end \in Nat /\ colon <= end
  BY MessageAndNul DEF Inv, TypeOK
<1>4. Word(start, colon) \in Seq(Char) /\ Word(colon + 1, end) \in Seq(Char)
  BY <1>1, <1>3, WordInMessage
<1>5. WordsOK'
  <2>1. IsMap(Put(request.params, Word(start, colon), Word(colon + 1, end)))
    BY <1>4, PutIsMap DEF Inv, TypeOK
  <2> QED
    BY <2>1, SetMap DEF SetRequestParams
<1>6. PlacesOK'
  BY <1>1, <1>2, NextWordPlaces
<1> QED
  BY <1>1, <1>2, <1>5, <1>6, RoundRest DEF NextWord

LEMMA SetProtocolInv == Inv /\ SetProtocol => Inv'
<1> SUFFICES ASSUME Inv, SetProtocol PROVE Inv'
  OBVIOUS
<1>1. Parsing /\ Word(start, end) \in Seq(Char) /\ NextWord("BEFORE_VERSION")
  BY TestedChars, WordHere DEF SetProtocol
<1>2. WordsOK'
  BY <1>1, SetField DEF SetProtocol
<1>3. PlacesOK'
  BY <1>1, PlainStates, NextWordPlaces
<1> QED
  BY <1>1, <1>2, <1>3, RoundRest DEF NextWord

LEMMA SetVersionInv == Inv /\ SetVersion => Inv'
<1> SUFFICES ASSUME Inv, SetVersion PROVE Inv'
  OBVIOUS
<1>1. Parsing /\ Word(start, end) \in Seq(Char) /\ NextWord("WHEN_CR")
  BY TestedChars, WordHere DEF SetVersion
<1>2. PICK word \in Seq(Char) : request' = [request EXCEPT !.version = word]
  BY <1>1, TestedChars DEF SetVersion, Unknown
<1>3. WordsOK'
  BY <1>2, SetField
<1>4. PlacesOK'
  BY <1>1, PlainStates, NextWordPlaces
<1> QED
  BY <1>1, <1>3, <1>4, RoundRest DEF NextWord

LEMMA AddHeaderInv == Inv /\ AddHeader => Inv'
<1> SUFFICES ASSUME Inv, AddHeader PROVE Inv'
  OBVIOUS
<1>1. CASE pc' = "thrown" /\ UNCHANGED <<state, request, msg, received, pointers>>
  <2>1. Parts'
    BY <1>1, InvParts, SameWords DEF Parts, PlacesOK, IdleAtStart, pointers
  <2> QED
    BY <2>1, InvParts, PTL
<1>2. CASE /\ request' = [request EXCEPT !.headers = Put(@, Word(start, colon), Word(colon + 2, end))]
           /\ NextWord("WHEN_CR")
  <2>1. Parsing /\ end <= Len(msg)
    BY TestedChars, WordHere, CharInMessage DEF AddHeader, Inv
  <2>2. /\ msg \in Seq(Char) /\ Len(msg) \in Nat
        /\ start \in Nat \ {0} /\ colon \in Nat \ {0} /\ end \in Nat /\ colon <= end
    BY SMTT(30), MessageAndNul DEF Inv, TypeOK
  <2>3. Word(start, colon) \in Seq(Char) /\ Word(colon + 2, end) \in Seq(Char)
    BY <2>1, <2>2, WordInMessage
  <2>4. IsMap(Put(request.headers, Word(start, colon), Word(colon + 2, end)))
    BY <2>3, PutIsMap DEF Inv, TypeOK
  <2>5. WordsOK'
    BY <1>2, <2>4, SetMap
  <2>6. PlacesOK'
    BY <1>2, <2>1, PlainStates, NextWordPlaces
  <2> QED
    BY <1>2, <2>1, <2>5, <2>6, RoundRest DEF NextWord
<1> QED
  BY <1>1, <1>2 DEF AddHeader

LEMMA EndLineInv == Inv /\ EndLine => Inv'
<1> SUFFICES ASSUME Inv, EndLine PROVE Inv'
  OBVIOUS
<1>1. Parsing /\ NextWord("CR_LF") /\ UNCHANGED request
  BY DEF EndLine, At
<1> QED
  BY <1>1, PlainStates, NextWordPlaces, SameWords, RoundRest DEF NextWord

LEMMA EndHeadersInv == Inv /\ EndHeaders => Inv'
<1> SUFFICES ASSUME Inv, EndHeaders PROVE Inv'
  OBVIOUS
<1>1. Parsing /\ UNCHANGED request
  BY DEF EndHeaders, At
<1>2. PICK s \in Plain : NextWord(s)
  BY PlainStates DEF EndHeaders
<1> QED
  BY <1>1, <1>2, NextWordPlaces, SameWords, RoundRest DEF NextWord

LEMMA SetBodyInv == Inv /\ SetBody => Inv'
<1> SUFFICES ASSUME Inv, SetBody PROVE Inv'
  OBVIOUS
<1>1. Parsing /\ Goto("COMPLETE") /\ UNCHANGED <<start, colon>>
  BY DEF SetBody
<1>2. /\ msg \in Seq(Char) /\ Len(msg) \in Nat
      /\ start \in Nat \ {0} /\ end \in Nat /\ start <= end /\ end <= Len(msg) + 1
  BY <1>1, MessageAndNul DEF Inv, TypeOK, Parsing
<1>3. Word(start, start + Len(msg) - (end - 1)) \in Seq(Char)
  BY <1>2, WordInMessage
<1>4. WordsOK'
  BY <1>3, SetField DEF SetBody
<1>5. PlacesOK'
  BY <1>1, PlainStates, GotoPlaces
<1> QED
  BY <1>1, <1>4, <1>5, RoundRest

-----------------------------------------------------------------------------
LEMMA ReceiveInv == Inv /\ (\E m \in Message : Receive(m)) => Inv'
<1> SUFFICES ASSUME Inv, NEW m \in Message, Receive(m) PROVE Inv'
  OBVIOUS
<1>1. m \in Seq(Char) /\ Len(m) \in Nat
  BY ConstantsAssumption, LenProperties
<1>2. PlacesOK'
  BY <1>1 DEF Inv, Receive, IdleAtStart, PlacesOK, State
<1>3. Parts'
  BY <1>1, <1>2, SameWords, ConstantsAssumption DEF Inv, TypeOK, Receive, Parts, IdleAtStart
<1> QED
  BY <1>3, InvParts, PTL

LEMMA AnswerInv == Inv /\ (BadRequest \/ Respond \/ UNCHANGED vars) => Inv'
<1> SUFFICES ASSUME Inv, BadRequest \/ Respond \/ UNCHANGED vars PROVE Inv'
  OBVIOUS
<1>1. WordsOK'
  BY SameWords DEF BadRequest, Respond, vars
<1>2. PlacesOK'
  BY InvParts DEF Parts, PlacesOK, BadRequest, Respond, vars, pointers, State
<1>3. Parts'
  BY <1>1, <1>2, InvParts DEF Parts, BadRequest, Respond, vars, IdleAtStart
<1> QED
  BY <1>3, InvParts, PTL

LEMMA Invariant == Spec => []Inv
<1>1. Inv /\ [Next]_vars => Inv'
  BY RefuseInv, MoveInv, MarkColonInv, SetMethodInv, SetUrlInv, SetRequestParamsInv, SetProtocolInv,
     SetVersionInv, AddHeaderInv, EndLineInv, EndHeadersInv, SetBodyInv, ReceiveInv, AnswerInv
     DEF Next, ParaseRequest
<1> QED
  BY <1>1, InitInv, PTL DEF Spec

(* The parser takes no word from beyond the message, and keeps its         *)
(* pointers in order, whatever the messages.                               *)
THEOREM TypeCorrect == Spec => []TypeOK
<1>1. Inv => TypeOK
  BY DEF Inv
<1> QED
  BY <1>1, Invariant, PTL

(***************************************************************************)
(* The end of the headers. The states after a CR say what comes before the *)
(* character looked at, and those after the headers that an empty line is  *)
(* in the message.                                                         *)
(***************************************************************************)
EmptyLine == \E i \in 1 .. Len(msg) - 3 :
                /\ msg[i] = "CR" /\ msg[i + 1] = "LF"
                /\ msg[i + 2] = "CR" /\ msg[i + 3] = "LF"

LineEnds ==
    /\ state \in {"WHEN_CR", "CR_LF", "CR_LF_CR"} => end - 1 \in 1 .. Len(msg)
    /\ state = "WHEN_CR" => msg[end - 1] = "CR"
    /\ state = "CR_LF" => end > 2 /\ msg[end - 2] = "CR" /\ msg[end - 1] = "LF"
    /\ state = "CR_LF_CR" => /\ end > 3 /\ msg[end - 3] = "CR" /\ msg[end - 2] = "LF"
                             /\ msg[end - 1] = "CR"
    /\ state \in {"BODY", "COMPLETE"} => EmptyLine

(* The character that a round looks at is in the message.                  *)
LEMMA CharHere ==
    ASSUME Inv, NEW s, NEW c \in Char, At(s, c)
    PROVE  /\ state = s /\ end \in 1 .. Len(msg) /\ msg[end] = c
           /\ end \in Nat /\ Len(msg) \in Nat
<1>1. end <= Len(msg)
  BY CharInMessage DEF Inv
<1>2. /\ msg \in Seq(AnyChar) /\ <<NUL>> \in Seq(AnyChar) /\ Len(<<NUL>>) = 1
      /\ msg \in Seq(Char) /\ end \in 1 .. Len(msg) + 2 /\ Len(msg) \in Nat
  <2>1. NUL \in AnyChar /\ Char \subseteq AnyChar
    BY DEF AnyChar
  <2>2. msg \in Seq(Char) /\ end \in 1 .. Len(msg) + 2
    BY DEF Inv, TypeOK
  <2> QED
    BY <2>1, <2>2, LenProperties
<1>3. (msg \o <<NUL>>)[end] = msg[end]
  BY <1>1, <1>2, ConcatProperties
<1> QED
  BY <1>1, <1>2, <1>3 DEF At, ch

LEMMA OtherStates ==
    ASSUME state' \notin {"WHEN_CR", "CR_LF", "CR_LF_CR", "BODY", "COMPLETE"}
    PROVE  LineEnds'
BY DEF LineEnds

LEMMA MoveLines ==
    ASSUME NEW m \in Moves
    PROVE  \/ m[3] \notin {"WHEN_CR", "CR_LF", "CR_LF_CR", "BODY", "COMPLETE"}
           \/ m[3] = "CR_LF_CR" /\ m[1] = "CR_LF" /\ m[2] = {"CR"}
<1>1. CASE \E c : m \in {<<"START", c, "START">>, <<"START", c, "METHOD">>, <<"METHOD", c, "METHOD">>,
                        <<"BEFORE_URL", c, "BEFORE_URL">>, <<"BEFORE_URL", c, "IN_URL">>,
                        <<"IN_URL", c, "IN_URL">>, <<"BEFORE_URL_PARAM_KEY", c, "URL_PARAM_KEY">>,
                        <<"URL_PARAM_KEY", c, "URL_PARAM_KEY">>}
  BY <1>1
<1>2. CASE \E c : m \in {<<"BEFORE_PROTOCOL", c, "BEFORE_PROTOCOL">>, <<"BEFORE_PROTOCOL", c, "PROTOCOL">>,
                        <<"PROTOCOL", c, "PROTOCOL">>, <<"BEFORE_VERSION", c, "VERSION">>,
                        <<"VERSION", c, "VERSION">>,
                        <<"CR_LF", c, "HEADER_KEY">>, <<"HEADER_KEY", c, "HEADER_KEY">>}
  BY <1>2
<1>3. CASE \E c : m \in {<<"BEFORE_URL_PARAM_VALUE", c, "URL_PARAM_VALUE">>,
                        <<"URL_PARAM_VALUE", c, "URL_PARAM_VALUE">>, <<"HEADER_VALUE", c, "HEADER_VALUE">>}
  BY <1>3
<1>4. CASE m = <<"CR_LF", {"CR"}, "CR_LF_CR">>
  BY <1>4
<1> QED
  BY <1>1, <1>2, <1>3, <1>4, Zenon DEF Moves

LEMMA LineEndsStep == Inv /\ LineEnds /\ [Next]_vars => LineEnds'
<1> SUFFICES ASSUME Inv, LineEnds, [Next]_vars
             PROVE  LineEnds'
  OBVIOUS
<1>types. end \in Nat /\ Len(msg) \in Nat
  BY LenProperties DEF Inv, TypeOK
<1>chars. "CR" \in Char /\ "LF" \in Char /\ " " \in Char
  BY DEF Char, White
<1>1. CASE Refuse
  BY <1>1, OtherStates DEF Refuse, Goto
<1>2. CASE Move
  <2>1. PICK m \in Moves : state = m[1] /\ ch \in m[2] /\ Goto(m[3])
    BY <1>2 DEF Move
  <2>2. m[3] \notin {"WHEN_CR", "CR_LF", "BODY", "COMPLETE"}
        /\ (m[3] = "CR_LF_CR" => m[1] = "CR_LF" /\ m[2] = {"CR"})
    BY MoveLines
  <2>3. CASE m[3] # "CR_LF_CR"
    BY <2>1, <2>2, <2>3, OtherStates DEF Goto
  <2>4. CASE m[3] = "CR_LF_CR"
    <3>1. At("CR_LF", "CR")
      BY <1>2, <2>1, <2>2, <2>4 DEF Move, At
    <3>2. end \in 1 .. Len(msg) /\ msg[end] = "CR"
      BY <3>1, <1>chars, CharHere
    <3>3. /\ end > 2 /\ msg[end - 2] = "CR" /\ msg[end - 1] = "LF"
          /\ state' = "CR_LF_CR" /\ end' = end + 1 /\ msg' = msg
      BY <2>1, <2>4, <3>1 DEF LineEnds, Goto, At
    <3>4. end' - 1 = end /\ end' - 2 = end - 1 /\ end' - 3 = end - 2 /\ end' > 3
      BY <3>3, <1>types
    <3> QED
      BY <3>2, <3>3, <3>4 DEF LineEnds
  <2> QED
    BY <2>3, <2>4
<1>3. CASE MarkColon \/ SetMethod \/ SetUrl \/ SetRequestParams \/ SetProtocol
  BY <1>3, OtherStates DEF MarkColon, SetMethod, SetUrl, SetRequestParams, SetProtocol, NextWord, Goto
<1>4. CASE SetVersion \/ AddHeader
  <2>1. CASE pc' = "thrown"
    <3>1. UNCHANGED <<state, msg, end>>
      BY <1>4, <2>1 DEF SetVersion, AddHeader, NextWord, Goto, pointers, At, Parsing
    <3> QED
      BY <3>1 DEF LineEnds, EmptyLine
  <2>2. CASE pc' # "thrown"
    <3>1. At("VERSION", "CR") \/ At("HEADER_VALUE", "CR")
      BY <1>4 DEF SetVersion, AddHeader
    <3>2. end \in 1 .. Len(msg) /\ msg[end] = "CR"
      BY <3>1, <1>chars, CharHere
    <3>3. state' = "WHEN_CR" /\ end' = end + 1 /\ msg' = msg
      BY <1>4, <2>2 DEF SetVersion, AddHeader, NextWord, Goto
    <3>4. end' - 1 = end
      BY <3>3, <1>types
    <3> QED
      BY <3>2, <3>3, <3>4 DEF LineEnds
  <2> QED
    BY <2>1, <2>2
<1>5. CASE EndLine
  <2>1. At("WHEN_CR", "LF") /\ state' = "CR_LF" /\ end' = end + 1 /\ msg' = msg
    BY <1>5 DEF EndLine, NextWord, Goto
  <2>2. end \in 1 .. Len(msg) /\ msg[end] = "LF"
    BY <2>1, <1>chars, CharHere
  <2>3. end - 1 \in 1 .. Len(msg) /\ msg[end - 1] = "CR"
    BY <2>1 DEF LineEnds, At
  <2>4. end' - 1 = end /\ end' - 2 = end - 1 /\ end' > 2
    BY <2>1, <2>3, <1>types
  <2> QED
    BY <2>1, <2>2, <2>3, <2>4 DEF LineEnds
<1>6. CASE EndHeaders
  <2>1. At("CR_LF_CR", "LF") /\ state' \in {"BODY", "COMPLETE"} /\ msg' = msg
    BY <1>6 DEF EndHeaders, NextWord, Goto
  <2>2. end \in 1 .. Len(msg) /\ msg[end] = "LF"
    BY <2>1, <1>chars, CharHere
  <2>3. end > 3 /\ msg[end - 3] = "CR" /\ msg[end - 2] = "LF" /\ msg[end - 1] = "CR"
    BY <2>1 DEF LineEnds, At
  <2>4. /\ end - 3 \in 1 .. Len(msg) - 3 /\ end - 3 + 1 = end - 2
        /\ end - 3 + 2 = end - 1 /\ end - 3 + 3 = end
    BY <2>2, <2>3, <1>types
  <2>5. EmptyLine
    BY <2>2, <2>3, <2>4 DEF EmptyLine
  <2>6. EmptyLine'
    BY <2>1, <2>5 DEF EmptyLine
  <2> QED
    BY <2>1, <2>6 DEF LineEnds
<1>7. CASE SetBody
  <2>1. state = "BODY" /\ state' = "COMPLETE" /\ msg' = msg
    BY <1>7 DEF SetBody, Goto
  <2> QED
    BY <2>1 DEF LineEnds, EmptyLine
<1>8. CASE \E m \in Message : Receive(m)
  <2>1. state' = "START"
    BY <1>8 DEF Receive, Inv, IdleAtStart
  <2> QED
    BY <2>1, OtherStates
<1>9. CASE Respond
  BY <1>9, OtherStates DEF Respond
<1>10. CASE BadRequest \/ UNCHANGED vars
  <2>1. UNCHANGED <<state, msg, end>>
    BY <1>10 DEF BadRequest, vars, pointers
  <2> QED
    BY <2>1 DEF LineEnds, EmptyLine
<1> QED
  BY <1>1, <1>2, <1>3, <1>4, <1>5, <1>6, <1>7, <1>8, <1>9, <1>10 DEF Next, ParaseRequest

(* A request is taken for complete only if an empty line ends its headers, *)
(* wherever a read has cut it off.                                         *)
THEOREM OnlyWithEmptyLine == Spec => []CompleteHasEmptyLine
<1>1. Init => LineEnds
  BY DEF Init, LineEnds
<1>2. Inv /\ LineEnds => CompleteHasEmptyLine
  <2> SUFFICES ASSUME Inv, state = "COMPLETE", EmptyLine
               PROVE  \E i \in 1 .. Len(msg) - 3 : SubSeq(msg, i, i + 3) = <<"CR", "LF", "CR", "LF">>
    BY DEF LineEnds, CompleteHasEmptyLine
  <2>1. PICK i \in 1 .. Len(msg) - 3 : /\ msg[i] = "CR" /\ msg[i + 1] = "LF"
                                       /\ msg[i + 2] = "CR" /\ msg[i + 3] = "LF"
    BY DEF EmptyLine
  <2> DEFINE line == SubSeq(msg, i, i + 3)
             four == <<"CR", "LF", "CR", "LF">>
  <2>2. /\ line \in Seq(Char) /\ Len(line) = 4
        /\ \A k \in 1 .. 4 : line[k] = msg[i + k - 1]
    <3>1. i \in Int /\ i + 3 \in Int /\ i <= i + 3 /\ \A k \in i .. i + 3 : msg[k] \in Char
      BY SMTT(30), ElementOfSeq, LenProperties DEF Inv, TypeOK
    <3>2. /\ line \in Seq(Char) /\ Len(line) = IF i <= i + 3 THEN i + 3 - i + 1 ELSE 0
          /\ \A k \in 1 .. i + 3 - i + 1 : line[k] = msg[i + k - 1]
      BY <3>1, SubSeqProperties
    <3>3. i + 3 - i + 1 = 4
      BY <3>1
    <3> QED
      BY <3>1, <3>2, <3>3
  <2>3. four \in Seq(Char) /\ Len(four) = 4
    BY DEF Char, White
  <2>4. line[1] = four[1] /\ line[2] = four[2] /\ line[3] = four[3] /\ line[4] = four[4]
    BY <2>1, <2>2
  <2>5. \A k \in 1 .. 4 : line[k] = four[k]
    BY <2>4
  <2>6. line = four
    BY <2>2, <2>3, <2>5, SeqEqual
  <2> QED
    BY <2>6
<1>3. Spec => [](Inv /\ LineEnds)
  BY <1>1, Invariant, LineEndsStep, PTL DEF Spec
<1> QED
  BY <1>2, <1>3, PTL

-----------------------------------------------------------------------------
(***************************************************************************)
(* What is sent is understood. Where the words of a request are in its     *)
(* text: the places of its first characters, those of the i-th parameter   *)
(* and header being that of the character before the key and that of the   *)
(* key.                                                                    *)
(***************************************************************************)
Before(texts, i) == Len(FlattenSeq(SubSeq(texts, 1, i - 1)))

UrlAt(r) == Len(r.method) + 2
ParamAt(r, i) == UrlAt(r) + Len(r.url) + Before(ParamTexts(r), i)
ProtocolAt(r) == ParamAt(r, Len(r.params) + 1) + 1
VersionAt(r) == ProtocolAt(r) + Len(r.protocol) + 1
HeaderAt(r, i) == VersionAt(r) + Len(r.version) + 2 + Before(HeaderTexts(r), i)
BodyAt(r) == HeaderAt(r, Len(r.headers) + 1) + 2

(* A word is about to begin, or the parser is in it or at its end.         *)
AtPlace(place) == start = place /\ end = place
InWord(place, word) == start = place /\ end \in place + 1 .. place + Len(word)

(* The map has the first n pairs.                                          *)
AgreesUpTo(map, pairs, n) ==
    \A i \in 1 .. n : (\A j \in 1 .. n : j > i => pairs[j][1] # pairs[i][1])
                          => pairs[i][1] \in DOMAIN map /\ map[pairs[i][1]] = pairs[i][2]

(* What is known of the request while the parser is at its parts.          *)
HasUrl(r, n) == request.method = r.method /\ request.url = r.url /\ AgreesUpTo(request.params, r.params, n)
HasLine(r, n) == /\ HasUrl(r, Len(r.params))
                 /\ request.protocol = r.protocol /\ request.version = r.version
                 /\ AgreesUpTo(request.headers, r.headers, n)

OnMethod(r) == \/ state = "START" /\ AtPlace(1)
               \/ state = "METHOD" /\ InWord(1, r.method)

OnUrl(r) == /\ request.method = r.method
            /\ \/ state = "BEFORE_URL" /\ AtPlace(UrlAt(r))
               \/ state = "IN_URL" /\ InWord(UrlAt(r), r.url)

OnParam(r, i) ==
    LET key == r.params[i][1]
        place == ParamAt(r, i) + 1
        equal == place + Len(key)
    IN  /\ HasUrl(r, i - 1)
        /\ \/ state = "BEFORE_URL_PARAM_KEY" /\ AtPlace(place)
           \/ state = "URL_PARAM_KEY" /\ InWord(place, key)
           \/ /\ state = "BEFORE_URL_PARAM_VALUE"
              /\ start = place /\ colon = equal /\ end = equal + 1
           \/ /\ state = "URL_PARAM_VALUE"
              /\ start = place /\ colon = equal /\ end \in equal + 2 .. equal + 1 + Len(r.params[i][2])

OnProtocol(r) == /\ HasUrl(r, Len(r.params))
                 /\ \/ state = "BEFORE_PROTOCOL" /\ AtPlace(ProtocolAt(r))
                    \/ state = "PROTOCOL" /\ InWord(ProtocolAt(r), r.protocol)

OnVersion(r) == /\ HasUrl(r, Len(r.params)) /\ request.protocol = r.protocol
                /\ \/ state = "BEFORE_VERSION" /\ AtPlace(VersionAt(r))
                   \/ state = "VERSION" /\ InWord(VersionAt(r), r.version)

OnLine(r, i) == /\ HasLine(r, i)
                /\ \/ state = "WHEN_CR" /\ end = HeaderAt(r, i + 1) - 1
                   \/ state = "CR_LF" /\ AtPlace(HeaderAt(r, i + 1))

OnHeader(r, i) ==
    LET key == r.headers[i][1]
        place == HeaderAt(r, i)
        mark == place + Len(key)
    IN  /\ HasLine(r, i - 1)
        /\ \/ state = "HEADER_KEY" /\ InWord(place, key)
           \/ /\ state = "HEADER_VALUE"
              /\ start = place /\ colon = mark /\ end \in mark + 1 .. mark + 2 + Len(r.headers[i][2])

BodyIsRead == ContentLength \in DOMAIN request.headers => Positive(request.headers[ContentLength])

OnBody(r) == /\ HasLine(r, Len(r.headers))
             /\ \/ state = "CR_LF_CR" /\ end = BodyAt(r) - 1
                \/ state = "BODY" /\ AtPlace(BodyAt(r))
                \/ state = "COMPLETE" /\ (BodyIsRead => request.body = r.body)

Stage(r) == \/ OnMethod(r) \/ OnUrl(r)
            \/ \E i \in 1 .. Len(r.params) : OnParam(r, i)
            \/ OnProtocol(r) \/ OnVersion(r)
            \/ \E i \in 0 .. Len(r.headers) : OnLine(r, i)
            \/ \E i \in 1 .. Len(r.headers) : OnHeader(r, i)
            \/ OnBody(r)

StageInv == \A r \in Request : msg = Sent[r] => pc # "thrown" /\ (pc = "parse" => Stage(r))

-----------------------------------------------------------------------------
Blank == " "

(* A sequence is at a place of the text; a word is, and then a character.  *)
Occurs(text, s, p) ==
    /\ text \in Seq(Char) /\ s \in Seq(Char)
    /\ p \in Nat \ {0} /\ p + Len(s) <= Len(text) + 1
    /\ \A k \in 1 .. Len(s) : text[p + k - 1] = s[k]

WordAt(text, p, word, c) ==
    /\ Occurs(text, word, p)
    /\ p + Len(word) <= Len(text) /\ text[p + Len(word)] = c

LEMMA WholeOccurs ==
    ASSUME NEW s \in Seq(Char)
    PROVE  Occurs(s, s, 1)
BY LenProperties DEF Occurs

LEMMA PartsOccur ==
    ASSUME NEW text, NEW a \in Seq(Char), NEW b \in Seq(Char), NEW p, Occurs(text, a \o b, p)
    PROVE  Occurs(text, a, p) /\ Occurs(text, b, p + Len(a))
<1>1. /\ Len(text) \in Nat /\ Len(a) \in Nat /\ Len(b) \in Nat /\ Len(a \o b) = Len(a) + Len(b)
      /\ \A k \in 1 .. Len(a) + Len(b) : (a \o b)[k] = IF k <= Len(a) THEN a[k] ELSE b[k - Len(a)]
      /\ p \in Nat \ {0} /\ p + Len(a \o b) <= Len(text) + 1
      /\ \A k \in 1 .. Len(a \o b) : text[p + k - 1] = (a \o b)[k]
      /\ text \in Seq(Char)
  BY LenProperties, ConcatProperties DEF Occurs
<1>2. ASSUME NEW k \in 1 .. Len(a)
      PROVE  text[p + k - 1] = a[k]
  BY <1>1
<1>3. ASSUME NEW k \in 1 .. Len(b)
      PROVE  text[p + Len(a) + k - 1] = b[k]
  <2>1. PICK j \in 1 .. Len(a) + Len(b) : j = Len(a) + k
    BY <1>1
  <2>2. p + Len(a) + k - 1 = p + j - 1 /\ j - Len(a) = k /\ ~(j <= Len(a))
    BY <1>1, <2>1
  <2>3. text[p + j - 1] = (a \o b)[j] /\ (a \o b)[j] = b[j - Len(a)]
    BY <1>1, <2>2
  <2> QED
    BY <2>2, <2>3
<1> QED
  BY <1>1, <1>2, <1>3 DEF Occurs

(* Of sequences that are joined, each one is behind those before it.       *)
LEMMA BeforeGrows ==
    ASSUME NEW texts \in Seq(Seq(Char)), NEW i \in 1 .. Len(texts)
    PROVE  /\ Before(texts, i) \in Nat
           /\ Before(texts, i + 1) = Before(texts, i) + Len(texts[i])
           /\ FlattenSeq(SubSeq(texts, 1, i)) = FlattenSeq(SubSeq(texts, 1, i - 1)) \o texts[i]
           /\ FlattenSeq(SubSeq(texts, 1, i - 1)) \in Seq(Char)
<1>1. Len(texts) \in Nat /\ texts[i] \in Seq(Char) /\ i + 1 - 1 = i
  BY LenProperties, ElementOfSeq
<1>2. PICK h \in Nat : h = i - 1
  OBVIOUS
<1>3. SubSeq(texts, 1, h) \in Seq(Seq(Char))
  <2>1. 0 \in Nat /\ h <= Len(texts) /\ 0 + 1 = 1
    BY <1>1, <1>2
  <2> QED
    BY <2>1, PartOf
<1>4. SubSeq(texts, 1, i) = Append(SubSeq(texts, 1, h), texts[i])
  <2>1. SubSeq(texts, 1, i) = SubSeq(texts, 1, h) \o <<texts[i]>>
    BY <1>1, <1>2, SubSeqRecursiveSecond
  <2> QED
    BY <1>1, <1>3, <2>1, AppendIsConcat
<1>5. FlattenSeq(SubSeq(texts, 1, i)) = FlattenSeq(SubSeq(texts, 1, h)) \o texts[i]
  BY <1>1, <1>3, <1>4, FlattenMore
<1>6. FlattenSeq(SubSeq(texts, 1, h)) \in Seq(Char)
  BY <1>3, FlattenType
<1> DEFINE f == FlattenSeq(SubSeq(texts, 1, h))
<1>7. Before(texts, i) = Len(f)
  BY <1>2 DEF Before
<1>8. Before(texts, i + 1) = Len(f \o texts[i])
  <2>1. Before(texts, i + 1) = Len(FlattenSeq(SubSeq(texts, 1, i + 1 - 1)))
    BY DEF Before
  <2> QED
    BY <1>1, <1>5, <2>1, Zenon
<1>9. Len(f) \in Nat /\ Len(f \o texts[i]) = Len(f) + Len(texts[i])
  <2>1. f \in Seq(Char)
    BY <1>6
  <2> HIDE DEF f
  <2> QED
    BY <1>1, <2>1, ConcatProperties, LenProperties
<1> QED
  BY <1>2, <1>5, <1>6, <1>7, <1>8, <1>9

LEMMA BeforeEnds ==
    ASSUME NEW texts \in Seq(Seq(Char))
    PROVE  Before(texts, 1) = 0 /\ Before(texts, Len(texts) + 1) = Len(FlattenSeq(texts))
<1>1. Len(texts) \in Nat /\ Len(texts) + 1 - 1 = Len(texts)
  BY LenProperties
<1>2. SubSeq(texts, 1, Len(texts)) = texts
  BY SubSeqFull
<1>3. SubSeq(texts, 1, 0) = <<>>
  BY SubSeqEmpty
<1>4. Before(texts, 1) = 0
  <2>1. Before(texts, 1) = Len(FlattenSeq(SubSeq(texts, 1, 0)))
    BY DEF Before
  <2> QED
    BY <1>3, <2>1, FlattenEmpty, EmptySeq
<1>5. Before(texts, Len(texts) + 1) = Len(FlattenSeq(texts))
  <2>1. Before(texts, Len(texts) + 1) = Len(FlattenSeq(SubSeq(texts, 1, Len(texts) + 1 - 1)))
    BY DEF Before
  <2> QED
    BY <1>1, <1>2, <2>1, Zenon
<1> QED
  BY <1>4, <1>5

LEMMA TextsOccur ==
    ASSUME NEW text, NEW texts \in Seq(Seq(Char)), NEW p, Occurs(text, FlattenSeq(texts), p),
           NEW i \in 1 .. Len(texts)
    PROVE  Occurs(text, texts[i], p + Before(texts, i))
<1>1. Len(texts) \in Nat /\ texts[i] \in Seq(Char)
  BY LenProperties, ElementOfSeq
<1> DEFINE first == SubSeq(texts, 1, i)
           more == SubSeq(texts, i + 1, Len(texts))
<1>2. first \in Seq(Seq(Char)) /\ more \in Seq(Seq(Char)) /\ first \o more = texts
  BY <1>1, CutInTwo
<1>3. /\ FlattenSeq(texts) = FlattenSeq(first) \o FlattenSeq(more)
      /\ FlattenSeq(first) \in Seq(Char) /\ FlattenSeq(more) \in Seq(Char)
  <2> HIDE DEF first, more
  <2> QED
    BY <1>2, FlattenConcat, FlattenType
<1>4. Occurs(text, FlattenSeq(first), p)
  BY <1>3, PartsOccur
<1>5. /\ FlattenSeq(first) = FlattenSeq(SubSeq(texts, 1, i - 1)) \o texts[i]
      /\ FlattenSeq(SubSeq(texts, 1, i - 1)) \in Seq(Char)
  BY BeforeGrows
<1> QED
  BY <1>1, <1>4, <1>5, PartsOccur DEF Before

-----------------------------------------------------------------------------
(* The types of a request's words.                                         *)
LEMMA WordTypes ==
    ASSUME NEW r, WellFormed(r)
    PROVE  /\ r.method \in Seq(Char) /\ r.url \in Seq(Char) /\ r.protocol \in Seq(Char)
           /\ r.version \in Seq(Char) /\ r.body \in Seq(Char)
           /\ Len(r.params) \in Nat /\ Len(r.headers) \in Nat
           /\ \A i \in 1 .. Len(r.params) : r.params[i][1] \in Seq(Char) /\ r.params[i][2] \in Seq(Char)
           /\ \A i \in 1 .. Len(r.headers) : r.headers[i][1] \in Seq(Char) /\ r.headers[i][2] \in Seq(Char)
<1>1. r.method \in Seq(Char) /\ r.version \in Seq(Char)
  <2>1. {"G", "0", "1", "."} \subseteq Char
    BY DEF Char, Upper, Digit
  <2>2. <<"G">> \in Seq(Char) /\ <<"1", ".", "0">> \in Seq(Char) /\ <<"1", ".", "1">> \in Seq(Char)
    BY <2>1
  <2> QED
    BY <2>2 DEF WellFormed, Method, Version
<1>2. r.url \in Seq(Char) /\ r.protocol \in Seq(Char) /\ r.body \in Seq(Char)
  BY DEF WellFormed, IsWord
<1>3. r.params \in Seq(Seq(Char) \X Seq(Char)) /\ r.headers \in Seq(Seq(Char) \X Seq(Char))
  BY DEF WellFormed
<1>4. ASSUME NEW S, NEW pairs \in Seq(S \X S)
      PROVE  Len(pairs) \in Nat /\ \A i \in 1 .. Len(pairs) : pairs[i][1] \in S /\ pairs[i][2] \in S
  BY LenProperties, ElementOfSeq
<1> QED
  BY <1>1, <1>2, <1>3, <1>4

LEMMA Punctuation ==
    /\ <<" ">> \in Seq(Char) /\ <<"/">> \in Seq(Char) /\ <<"CR", "LF">> \in Seq(Char)
    /\ <<"?">> \in Seq(Char) /\ <<"&">> \in Seq(Char) /\ <<"=">> \in Seq(Char) /\ <<":", " ">> \in Seq(Char)
    /\ <<>> \in Seq(Char)
BY DEF Char, White

ArePairs(pairs) == /\ Len(pairs) \in Nat
                   /\ \A i \in 1 .. Len(pairs) : pairs[i][1] \in Seq(Char) /\ pairs[i][2] \in Seq(Char)

AreTexts(texts, pairs) == texts \in Seq(Seq(Char)) /\ Len(texts) = Len(pairs)

LEMMA PairText ==
    ASSUME NEW open \in Seq(Char), NEW more \in Seq(Char), NEW equal \in Seq(Char), NEW close \in Seq(Char),
           NEW pairs, ArePairs(pairs)
    PROVE  AreTexts(PairTexts(open, more, equal, close, pairs), pairs)
<1> USE DEF ArePairs
<1> DEFINE text(i) == (IF i = 1 THEN open ELSE more) \o pairs[i][1] \o equal \o pairs[i][2] \o close
<1>1. PairTexts(open, more, equal, close, pairs) = [i \in 1 .. Len(pairs) |-> text(i)]
  BY DEF PairTexts
<1>2. ASSUME NEW i \in 1 .. Len(pairs)
      PROVE  text(i) \in Seq(Char)
  <2>1. PICK mark \in Seq(Char) : mark = IF i = 1 THEN open ELSE more
    OBVIOUS
  <2>2. mark \o pairs[i][1] \in Seq(Char)
    BY ConcatProperties
  <2>3. mark \o pairs[i][1] \o equal \in Seq(Char)
    BY <2>2, ConcatProperties
  <2>4. mark \o pairs[i][1] \o equal \o pairs[i][2] \in Seq(Char)
    BY <2>3, ConcatProperties
  <2>5. mark \o pairs[i][1] \o equal \o pairs[i][2] \o close \in Seq(Char)
    BY <2>4, ConcatProperties
  <2> QED
    BY <2>1, <2>5
<1> HIDE DEF text
<1> QED
  BY <1>1, <1>2 DEF AreTexts

(* The five parts of such a text.                                          *)
AreFive(s, a, b, c, d, e) ==
    /\ a \in Seq(Char) /\ b \in Seq(Char) /\ c \in Seq(Char) /\ d \in Seq(Char) /\ e \in Seq(Char)
    /\ s = a \o b \o c \o d \o e

FiveAt(text, p, s, a, b, c, d, e) ==
    /\ Occurs(text, a, p) /\ Occurs(text, b, p + Len(a)) /\ Occurs(text, c, p + Len(a) + Len(b))
    /\ Occurs(text, d, p + Len(a) + Len(b) + Len(c))
    /\ Occurs(text, e, p + Len(a) + Len(b) + Len(c) + Len(d))
    /\ Len(s) = Len(a) + Len(b) + Len(c) + Len(d) + Len(e)

LEMMA FiveOccur ==
    ASSUME NEW text, NEW p, NEW s, NEW a, NEW b, NEW c, NEW d, NEW e,
           AreFive(s, a, b, c, d, e), Occurs(text, s, p)
    PROVE  FiveAt(text, p, s, a, b, c, d, e)
<1>0. a \in Seq(Char) /\ b \in Seq(Char) /\ c \in Seq(Char) /\ d \in Seq(Char) /\ e \in Seq(Char)
  BY DEF AreFive
<1>1. PICK ab \in Seq(Char) : ab = a \o b
  BY <1>0, ConcatProperties
<1>2. PICK abc \in Seq(Char) : abc = ab \o c
  BY <1>0, ConcatProperties
<1>3. PICK abcd \in Seq(Char) : abcd = abc \o d
  BY <1>0, ConcatProperties
<1>4. s = abcd \o e
  BY <1>1, <1>2, <1>3, Zenon DEF AreFive
<1>5. Occurs(text, abcd, p) /\ Occurs(text, e, p + Len(abcd))
  BY <1>0, <1>4, PartsOccur
<1>6. Occurs(text, abc, p) /\ Occurs(text, d, p + Len(abc))
  BY <1>0, <1>3, <1>5, PartsOccur
<1>7. Occurs(text, ab, p) /\ Occurs(text, c, p + Len(ab))
  BY <1>0, <1>2, <1>6, PartsOccur
<1>8. Occurs(text, a, p) /\ Occurs(text, b, p + Len(a))
  BY <1>0, <1>1, <1>7, PartsOccur
<1>9. /\ Len(ab) = Len(a) + Len(b) /\ Len(abc) = Len(ab) + Len(c) /\ Len(abcd) = Len(abc) + Len(d)
      /\ Len(s) = Len(abcd) + Len(e)
  BY <1>0, <1>1, <1>2, <1>3, <1>4, ConcatProperties
<1>10. /\ p \in Nat /\ Len(a) \in Nat /\ Len(b) \in Nat /\ Len(c) \in Nat /\ Len(d) \in Nat /\ Len(e) \in Nat
  BY <1>0, <1>8, LenProperties DEF Occurs
<1>11. /\ p + Len(ab) = p + Len(a) + Len(b) /\ p + Len(abc) = p + Len(a) + Len(b) + Len(c)
       /\ p + Len(abcd) = p + Len(a) + Len(b) + Len(c) + Len(d)
  BY <1>9, <1>10
<1>12. Len(s) = Len(a) + Len(b) + Len(c) + Len(d) + Len(e)
  BY <1>9, <1>10
<1> QED
  BY <1>5, <1>6, <1>7, <1>8, <1>9, <1>11, <1>12 DEF FiveAt

IsJoin(s, a, b) == a \in Seq(Char) /\ b \in Seq(Char) /\ s = a \o b

Splits(text, s, a, b) ==
    Occurs(text, a, 1) /\ Occurs(text, b, Len(a) + 1) /\ Len(s) = Len(a) + Len(b) /\ Len(a) \in Nat

LEMMA SplitsInTwo ==
    ASSUME NEW text, NEW s, NEW a, NEW b, IsJoin(s, a, b), Occurs(text, s, 1)
    PROVE  Splits(text, s, a, b)
<1>1. Len(a) \in Nat /\ Len(s) = Len(a) + Len(b)
  BY ConcatProperties, LenProperties DEF IsJoin
<1>2. Occurs(text, a, 1) /\ Occurs(text, b, 1 + Len(a))
  BY PartsOccur DEF IsJoin
<1>3. 1 + Len(a) = Len(a) + 1
  BY <1>1
<1> QED
  BY <1>1, <1>2, <1>3 DEF Splits

LEMMA SplitsAgain ==
    ASSUME NEW text, NEW t, NEW s, NEW c, NEW a, NEW b, Splits(text, t, s, c), IsJoin(s, a, b)
    PROVE  Splits(text, s, a, b)
BY SplitsInTwo, Zenon DEF Splits

PartsAtPlaces(r, text) ==
    /\ Occurs(text, r.method, 1) /\ Occurs(text, <<" ">>, Len(r.method) + 1)
    /\ Occurs(text, r.url, UrlAt(r)) /\ Occurs(text, FlattenSeq(ParamTexts(r)), UrlAt(r) + Len(r.url))
    /\ Occurs(text, <<" ">>, ProtocolAt(r) - 1)
    /\ Occurs(text, r.protocol, ProtocolAt(r)) /\ Occurs(text, <<"/">>, ProtocolAt(r) + Len(r.protocol))
    /\ Occurs(text, r.version, VersionAt(r)) /\ Occurs(text, <<"CR", "LF">>, VersionAt(r) + Len(r.version))
    /\ Occurs(text, FlattenSeq(HeaderTexts(r)), VersionAt(r) + Len(r.version) + 2)
    /\ Occurs(text, <<"CR", "LF">>, BodyAt(r) - 2)
    /\ Occurs(text, r.body, BodyAt(r)) /\ BodyAt(r) + Len(r.body) = Len(text) + 1

LEMMA RequestTexts ==
    ASSUME NEW r, WellFormed(r)
    PROVE  AreTexts(ParamTexts(r), r.params) /\ AreTexts(HeaderTexts(r), r.headers)
<1>1. ArePairs(r.params)
  BY WordTypes DEF ArePairs
<1>2. ArePairs(r.headers)
  BY WordTypes DEF ArePairs
<1>3. AreTexts(ParamTexts(r), r.params)
  BY <1>1, Punctuation, PairText DEF ParamTexts
<1>4. AreTexts(HeaderTexts(r), r.headers)
  BY <1>2, Punctuation, PairText DEF HeaderTexts
<1> QED
  BY <1>3, <1>4

LEMMA TextParts ==
    ASSUME NEW r, WellFormed(r)
    PROVE  PartsAtPlaces(r, Text(r))
<1>1. /\ r.method \in Seq(Char) /\ r.url \in Seq(Char) /\ r.protocol \in Seq(Char)
      /\ r.version \in Seq(Char) /\ r.body \in Seq(Char)
      /\ <<" ">> \in Seq(Char) /\ <<"/">> \in Seq(Char) /\ <<"CR", "LF">> \in Seq(Char)
  BY WordTypes, Punctuation
<1>2. AreTexts(ParamTexts(r), r.params) /\ AreTexts(HeaderTexts(r), r.headers)
  BY RequestTexts
<1>3. PICK params \in Seq(Char) : params = FlattenSeq(ParamTexts(r))
  BY <1>2, FlattenType DEF AreTexts
<1>4. PICK headers \in Seq(Char) : headers = FlattenSeq(HeaderTexts(r))
  BY <1>2, FlattenType DEF AreTexts
<1>5. PICK t1 \in Seq(Char) : IsJoin(t1, r.method, <<" ">>)
  BY <1>1, ConcatProperties DEF IsJoin
<1>6. PICK t2 \in Seq(Char) : IsJoin(t2, t1, r.url)
  BY <1>1, ConcatProperties DEF IsJoin
<1>7. PICK t3 \in Seq(Char) : IsJoin(t3, t2, params)
  BY ConcatProperties DEF IsJoin
<1>8. PICK t4 \in Seq(Char) : IsJoin(t4, t3, <<" ">>)
  BY <1>1, ConcatProperties DEF IsJoin
<1>9. PICK t5 \in Seq(Char) : IsJoin(t5, t4, r.protocol)
  BY <1>1, ConcatProperties DEF IsJoin
<1>10. PICK t6 \in Seq(Char) : IsJoin(t6, t5, <<"/">>)
  BY <1>1, ConcatProperties DEF IsJoin
<1>11. PICK t7 \in Seq(Char) : IsJoin(t7, t6, r.version)
  BY <1>1, ConcatProperties DEF IsJoin
<1>12. PICK t8 \in Seq(Char) : IsJoin(t8, t7, <<"CR", "LF">>)
  BY <1>1, ConcatProperties DEF IsJoin
<1>13. PICK t9 \in Seq(Char) : IsJoin(t9, t8, headers)
  BY ConcatProperties DEF IsJoin
<1>14. PICK t10 \in Seq(Char) : IsJoin(t10, t9, <<"CR", "LF">>)
  BY <1>1, ConcatProperties DEF IsJoin
<1>15. PICK text \in Seq(Char) : IsJoin(text, t10, r.body)
  BY <1>1, ConcatProperties DEF IsJoin
<1>16. Text(r) = text
  BY ONLY <1>3, <1>4, <1>5, <1>6, <1>7, <1>8, <1>9, <1>10, <1>11, <1>12, <1>13, <1>14, <1>15, Zenon DEF Text, IsJoin
<1>t. Occurs(text, text, 1)
  BY WholeOccurs
<1>b. Splits(text, text, t10, r.body)
  BY ONLY <1>15, <1>t, SplitsInTwo, Zenon
<1>l. Splits(text, t10, t9, <<"CR", "LF">>)
  BY ONLY <1>14, <1>b, SplitsAgain, Zenon
<1>h. Splits(text, t9, t8, headers)
  BY ONLY <1>13, <1>l, SplitsAgain, Zenon
<1>e. Splits(text, t8, t7, <<"CR", "LF">>)
  BY ONLY <1>12, <1>h, SplitsAgain, Zenon
<1>v. Splits(text, t7, t6, r.version)
  BY ONLY <1>11, <1>e, SplitsAgain, Zenon
<1>s. Splits(text, t6, t5, <<"/">>)
  BY ONLY <1>10, <1>v, SplitsAgain, Zenon
<1>p. Splits(text, t5, t4, r.protocol)
  BY ONLY <1>9, <1>s, SplitsAgain, Zenon
<1>f. Splits(text, t4, t3, <<" ">>)
  BY ONLY <1>8, <1>p, SplitsAgain, Zenon
<1>q. Splits(text, t3, t2, params)
  BY ONLY <1>7, <1>f, SplitsAgain, Zenon
<1>u. Splits(text, t2, t1, r.url)
  BY ONLY <1>6, <1>q, SplitsAgain, Zenon
<1>m. Splits(text, t1, r.method, <<" ">>)
  BY ONLY <1>5, <1>u, SplitsAgain, Zenon
<1>n. /\ Len(<<" ">>) = 1 /\ Len(<<"/">>) = 1 /\ Len(<<"CR", "LF">>) = 2
      /\ Len(r.method) \in Nat /\ Len(r.url) \in Nat /\ Len(params) \in Nat /\ Len(r.protocol) \in Nat
      /\ Len(r.version) \in Nat /\ Len(headers) \in Nat /\ Len(r.body) \in Nat
  BY <1>1, LenProperties
<1>w. PICK m \in Nat, u \in Nat, p \in Nat, q \in Nat, v \in Nat, h \in Nat, b \in Nat :
         /\ m = Len(r.method) /\ u = Len(r.url) /\ p = Len(params) /\ q = Len(r.protocol)
         /\ v = Len(r.version) /\ h = Len(headers) /\ b = Len(r.body)
  BY ONLY <1>n
<1>k. /\ Before(ParamTexts(r), Len(r.params) + 1) = p
      /\ Before(HeaderTexts(r), Len(r.headers) + 1) = h
  BY <1>2, <1>3, <1>4, <1>w, BeforeEnds DEF AreTexts
<1>i. PICK urlAt \in Nat, protocolAt \in Nat, versionAt \in Nat, bodyAt \in Nat :
         /\ UrlAt(r) = urlAt /\ urlAt = m + 2
         /\ ProtocolAt(r) = protocolAt /\ protocolAt = urlAt + u + p + 1
         /\ VersionAt(r) = versionAt /\ versionAt = protocolAt + q + 1
         /\ BodyAt(r) = bodyAt /\ bodyAt = versionAt + v + 2 + h + 2
  <2>1. UrlAt(r) = m + 2
    BY <1>w DEF UrlAt
  <2>2. ProtocolAt(r) = m + 2 + u + p + 1
    BY <1>w, <1>k, <2>1 DEF ProtocolAt, ParamAt
  <2>3. VersionAt(r) = m + 2 + u + p + 1 + q + 1
    BY <1>w, <2>2 DEF VersionAt
  <2>4. BodyAt(r) = m + 2 + u + p + 1 + q + 1 + v + 2 + h + 2
    BY <1>w, <1>k, <2>3 DEF BodyAt, HeaderAt
  <2> QED
    BY <2>1, <2>2, <2>3, <2>4
<1>j. PICK l1 \in Nat, l2 \in Nat, l3 \in Nat, l4 \in Nat, l5 \in Nat, l6 \in Nat,
           l7 \in Nat, l8 \in Nat, l9 \in Nat, l10 \in Nat, len \in Nat :
         /\ l1 = Len(t1) /\ l2 = Len(t2) /\ l3 = Len(t3) /\ l4 = Len(t4) /\ l5 = Len(t5) /\ l6 = Len(t6)
         /\ l7 = Len(t7) /\ l8 = Len(t8) /\ l9 = Len(t9) /\ l10 = Len(t10) /\ len = Len(text)
  BY LenProperties
<1>x. /\ l1 = m + 1 /\ l2 = l1 + u /\ l3 = l2 + p /\ l4 = l3 + 1 /\ l5 = l4 + q /\ l6 = l5 + 1
      /\ l7 = l6 + v /\ l8 = l7 + 2 /\ l9 = l8 + h /\ l10 = l9 + 2 /\ len = l10 + b
  BY <1>n, <1>w, <1>j, <1>m, <1>u, <1>q, <1>f, <1>p, <1>s, <1>v, <1>e, <1>h, <1>l, <1>b DEF Splits
<1>c. /\ l1 + 1 = urlAt /\ l2 + 1 = urlAt + u /\ l3 + 1 = protocolAt - 1 /\ l4 + 1 = protocolAt
      /\ l5 + 1 = protocolAt + q /\ l6 + 1 = versionAt /\ l7 + 1 = versionAt + v
      /\ l8 + 1 = versionAt + v + 2 /\ l9 + 1 = bodyAt - 2 /\ l10 + 1 = bodyAt /\ bodyAt + b = len + 1
  BY <1>i, <1>x
<1>y. /\ Len(t1) + 1 = UrlAt(r) /\ Len(t2) + 1 = UrlAt(r) + Len(r.url)
      /\ Len(t3) + 1 = ProtocolAt(r) - 1 /\ Len(t4) + 1 = ProtocolAt(r)
      /\ Len(t5) + 1 = ProtocolAt(r) + Len(r.protocol) /\ Len(t6) + 1 = VersionAt(r)
      /\ Len(t7) + 1 = VersionAt(r) + Len(r.version) /\ Len(t8) + 1 = VersionAt(r) + Len(r.version) + 2
  BY <1>w, <1>i, <1>j, <1>c
<1>z. /\ Len(t9) + 1 = BodyAt(r) - 2 /\ Len(t10) + 1 = BodyAt(r)
      /\ BodyAt(r) + Len(r.body) = Len(text) + 1
  BY <1>w, <1>i, <1>j, <1>c
<1>aa. /\ Occurs(text, r.method, 1) /\ Occurs(text, <<" ">>, Len(r.method) + 1)
       /\ Occurs(text, r.url, UrlAt(r)) /\ Occurs(text, FlattenSeq(ParamTexts(r)), UrlAt(r) + Len(r.url))
       /\ Occurs(text, <<" ">>, ProtocolAt(r) - 1) /\ Occurs(text, r.protocol, ProtocolAt(r))
  BY ONLY <1>3, <1>y, <1>m, <1>u, <1>q, <1>f, <1>p DEF Splits
<1>bb. /\ Occurs(text, <<"/">>, ProtocolAt(r) + Len(r.protocol)) /\ Occurs(text, r.version, VersionAt(r))
       /\ Occurs(text, <<"CR", "LF">>, VersionAt(r) + Len(r.version))
       /\ Occurs(text, FlattenSeq(HeaderTexts(r)), VersionAt(r) + Len(r.version) + 2)
       /\ Occurs(text, <<"CR", "LF">>, BodyAt(r) - 2) /\ Occurs(text, r.body, BodyAt(r))
  BY ONLY <1>4, <1>y, <1>z, <1>s, <1>v, <1>e, <1>h, <1>l, <1>b DEF Splits
<1> QED
  BY <1>16, <1>z, <1>aa, <1>bb DEF PartsAtPlaces

LEMMA CharOccurs ==
    ASSUME NEW text, NEW c \in Char, NEW p \in Nat, Occurs(text, <<c>>, p)
    PROVE  p <= Len(text) /\ text[p] = c
<1>1. Len(<<c>>) = 1 /\ <<c>>[1] = c /\ 1 \in 1 .. Len(<<c>>) /\ p + 1 - 1 = p
  OBVIOUS
<1>2. Len(text) \in Nat /\ p + 1 <= Len(text) + 1 /\ text[p + 1 - 1] = <<c>>[1]
  BY <1>1, LenProperties DEF Occurs
<1> QED
  BY <1>1, <1>2

LEMMA TwoOccur ==
    ASSUME NEW text, NEW c \in Char, NEW d \in Char, NEW p \in Nat, Occurs(text, <<c, d>>, p)
    PROVE  p + 1 <= Len(text) /\ text[p] = c /\ text[p + 1] = d
<1>1. Len(<<c, d>>) = 2 /\ p + 1 - 1 = p /\ p + 2 - 1 = p + 1
  OBVIOUS
<1>2. Len(text) \in Nat /\ p + 2 <= Len(text) + 1
  BY <1>1, LenProperties DEF Occurs
<1>3. text[p + 1 - 1] = c /\ text[p + 2 - 1] = d
  <2>1. <<c, d>>[1] = c /\ <<c, d>>[2] = d /\ 1 \in 1 .. 2 /\ 2 \in 1 .. 2
    OBVIOUS
  <2> QED
    BY <1>1, <2>1 DEF Occurs
<1> QED
  BY <1>1, <1>2, <1>3

(* A word, and the character that follows.                                 *)
LEMMA WordThenChar ==
    ASSUME NEW text, NEW word, NEW p \in Nat, Occurs(text, word, p),
           NEW c, NEW q \in Nat, q = p + Len(word), q <= Len(text), text[q] = c
    PROVE  WordAt(text, p, word, c)
BY DEF WordAt

ParamIsAt(r, text, i, place, equal, k, v) ==
    /\ place = ParamAt(r, i) /\ k = Len(r.params[i][1]) /\ v = Len(r.params[i][2])
    /\ equal = place + 1 + k
    /\ ParamAt(r, i + 1) = equal + 1 + v
    /\ place <= Len(text) /\ text[place] = IF i = 1 THEN "?" ELSE "&"
    /\ WordAt(text, place + 1, r.params[i][1], "=")
    /\ Occurs(text, r.params[i][2], equal + 1)

LEMMA ParamOccurs ==
    ASSUME NEW r, WellFormed(r), NEW text, PartsAtPlaces(r, text), NEW i \in 1 .. Len(r.params)
    PROVE  \E place \in Nat, equal \in Nat, k \in Nat, v \in Nat : ParamIsAt(r, text, i, place, equal, k, v)
<1> DEFINE texts == ParamTexts(r)
           key == r.params[i][1]
           value == r.params[i][2]
           mark == IF i = 1 THEN "?" ELSE "&"
<1>1. texts \in Seq(Seq(Char)) /\ Len(texts) = Len(r.params) /\ i \in 1 .. Len(texts)
  BY RequestTexts DEF AreTexts
<1>2. key \in Seq(Char) /\ value \in Seq(Char)
  BY WordTypes
<1>3. texts[i] = <<mark>> \o key \o <<"=">> \o value \o <<>>
  <2>1. texts[i] = (IF i = 1 THEN <<"?">> ELSE <<"&">>) \o key \o <<"=">> \o value \o <<>>
    BY DEF ParamTexts, PairTexts
  <2>2. <<mark>> = IF i = 1 THEN <<"?">> ELSE <<"&">>
    OBVIOUS
  <2> HIDE DEF mark, texts, key, value
  <2> QED
    BY <2>1, <2>2, Zenon
<1>4. Occurs(text, FlattenSeq(texts), UrlAt(r) + Len(r.url))
  BY DEF PartsAtPlaces
<1>5. PICK from \in Nat : from = UrlAt(r) + Len(r.url)
  BY <1>4 DEF Occurs
<1>6. Occurs(text, texts[i], from + Before(texts, i))
  BY <1>1, <1>4, <1>5, TextsOccur
<1>7. PICK place \in Nat : place = from + Before(texts, i)
  BY <1>6 DEF Occurs
<1>8. place = ParamAt(r, i)
  BY <1>5, <1>7 DEF ParamAt
<1>9. PICK b \in Nat, t \in Nat : /\ b = Before(texts, i) /\ t = Len(texts[i])
                                  /\ Before(texts, i + 1) = b + t
  BY <1>1, BeforeGrows, ElementOfSeq, LenProperties
<1>10. ParamAt(r, i + 1) = place + t
  <2>1. ParamAt(r, i + 1) = from + Before(texts, i + 1)
    BY <1>5 DEF ParamAt
  <2> QED
    BY <1>7, <1>9, <2>1
<1>11. <<mark>> \in Seq(Char) /\ <<"=">> \in Seq(Char) /\ <<>> \in Seq(Char) /\ mark \in Char /\ "=" \in Char
  BY Punctuation DEF Char
<1>12. PICK k \in Nat, v \in Nat : k = Len(key) /\ v = Len(value)
  BY <1>2, LenProperties
<1> HIDE DEF texts, key, value, mark
<1>13. /\ Occurs(text, <<mark>>, place) /\ Occurs(text, key, place + Len(<<mark>>))
       /\ Occurs(text, <<"=">>, place + Len(<<mark>>) + Len(key))
       /\ Occurs(text, value, place + Len(<<mark>>) + Len(key) + Len(<<"=">>))
       /\ Len(texts[i]) = Len(<<mark>>) + Len(key) + Len(<<"=">>) + Len(value) + Len(<<>>)
  <2>1. AreFive(texts[i], <<mark>>, key, <<"=">>, value, <<>>)
    BY ONLY <1>2, <1>3, <1>11, Zenon DEF AreFive
  <2>2. Occurs(text, texts[i], place)
    BY <1>6, <1>7
  <2>3. FiveAt(text, place, texts[i], <<mark>>, key, <<"=">>, value, <<>>)
    BY ONLY <2>1, <2>2, FiveOccur, Zenon
  <2> QED
    BY ONLY <2>3, Zenon DEF FiveAt
<1>14. Len(<<mark>>) = 1 /\ Len(<<"=">>) = 1 /\ Len(<<>>) = 0
  BY EmptySeq
<1>15. PICK equal \in Nat : equal = place + 1 + k
  OBVIOUS
<1>16. /\ Occurs(text, <<mark>>, place) /\ Occurs(text, key, place + 1)
       /\ Occurs(text, <<"=">>, equal) /\ Occurs(text, value, equal + 1)
  BY <1>12, <1>13, <1>14, <1>15
<1>17. t = 1 + k + 1 + v
  BY <1>9, <1>12, <1>13, <1>14
<1>18. ParamAt(r, i + 1) = equal + 1 + v
  BY <1>10, <1>15, <1>17
<1>19. place <= Len(text) /\ text[place] = mark
  BY <1>11, <1>16, CharOccurs
<1>20. WordAt(text, place + 1, key, "=")
  <2>1. equal <= Len(text) /\ text[equal] = "="
    BY <1>11, <1>16, CharOccurs
  <2>2. equal = place + 1 + Len(key)
    BY <1>12, <1>15
  <2> QED
    BY <1>16, <2>1, <2>2, WordThenChar
<1>21. ParamIsAt(r, text, i, place, equal, k, v)
  BY <1>8, <1>12, <1>15, <1>16, <1>18, <1>19, <1>20 DEF key, value, mark, ParamIsAt
<1> QED
  BY <1>21

HeaderIsAt(r, text, i, place, mark, k, v) ==
    /\ place = HeaderAt(r, i) /\ k = Len(r.headers[i][1]) /\ v = Len(r.headers[i][2])
    /\ mark = place + k
    /\ HeaderAt(r, i + 1) = mark + 2 + v + 2
    /\ WordAt(text, place, r.headers[i][1], ":")
    /\ mark + 1 <= Len(text) /\ text[mark + 1] = Blank
    /\ WordAt(text, mark + 2, r.headers[i][2], "CR")
    /\ mark + 2 + v + 1 <= Len(text) /\ text[mark + 2 + v + 1] = "LF"

LEMMA HeaderOccurs ==
    ASSUME NEW r, WellFormed(r), NEW text, PartsAtPlaces(r, text), NEW i \in 1 .. Len(r.headers)
    PROVE  \E place \in Nat, mark \in Nat, k \in Nat, v \in Nat : HeaderIsAt(r, text, i, place, mark, k, v)
<1> DEFINE texts == HeaderTexts(r)
           key == r.headers[i][1]
           value == r.headers[i][2]
<1>1. texts \in Seq(Seq(Char)) /\ Len(texts) = Len(r.headers) /\ i \in 1 .. Len(texts)
  BY RequestTexts DEF AreTexts
<1>2. key \in Seq(Char) /\ value \in Seq(Char)
  BY WordTypes
<1>3. texts[i] = <<>> \o key \o <<":", " ">> \o value \o <<"CR", "LF">>
  BY DEF HeaderTexts, PairTexts
<1>4. Occurs(text, FlattenSeq(texts), VersionAt(r) + Len(r.version) + 2)
  BY DEF PartsAtPlaces
<1>5. PICK from \in Nat : from = VersionAt(r) + Len(r.version) + 2
  BY <1>4 DEF Occurs
<1>6. Occurs(text, texts[i], from + Before(texts, i))
  BY <1>1, <1>4, <1>5, TextsOccur
<1>7. PICK place \in Nat : place = from + Before(texts, i)
  BY <1>6 DEF Occurs
<1>8. place = HeaderAt(r, i)
  BY <1>5, <1>7 DEF HeaderAt
<1>9. PICK b \in Nat, t \in Nat : /\ b = Before(texts, i) /\ t = Len(texts[i])
                                  /\ Before(texts, i + 1) = b + t
  BY <1>1, BeforeGrows, ElementOfSeq, LenProperties
<1>10. HeaderAt(r, i + 1) = place + t
  <2>1. HeaderAt(r, i + 1) = from + Before(texts, i + 1)
    BY <1>5 DEF HeaderAt
  <2> QED
    BY <1>7, <1>9, <2>1
<1>11. /\ <<":", " ">> \in Seq(Char) /\ <<"CR", "LF">> \in Seq(Char) /\ <<>> \in Seq(Char)
       /\ ":" \in Char /\ " " \in Char /\ "CR" \in Char /\ "LF" \in Char
  BY Punctuation DEF Char, White
<1>12. PICK k \in Nat, v \in Nat : k = Len(key) /\ v = Len(value)
  BY <1>2, LenProperties
<1> HIDE DEF texts, key, value
<1>13. PICK none \in Seq(Char), sep \in Seq(Char), crlf \in Seq(Char) :
          /\ none = <<>> /\ sep = <<":", " ">> /\ crlf = <<"CR", "LF">>
          /\ Len(none) = 0 /\ Len(sep) = 2 /\ Len(crlf) = 2
  BY <1>11, EmptySeq
<1>14. PICK mark \in Nat, last \in Nat : mark = place + k /\ last = mark + 2 + v
  OBVIOUS
<1>15. /\ Occurs(text, key, place + Len(none))
       /\ Occurs(text, sep, place + Len(none) + Len(key))
       /\ Occurs(text, value, place + Len(none) + Len(key) + Len(sep))
       /\ Occurs(text, crlf, place + Len(none) + Len(key) + Len(sep) + Len(value))
       /\ Len(texts[i]) = Len(none) + Len(key) + Len(sep) + Len(value) + Len(crlf)
  <2>1. AreFive(texts[i], none, key, sep, value, crlf)
    BY ONLY <1>2, <1>3, <1>13, Zenon DEF AreFive
  <2>2. Occurs(text, texts[i], place)
    BY <1>6, <1>7
  <2>3. FiveAt(text, place, texts[i], none, key, sep, value, crlf)
    BY ONLY <2>1, <2>2, FiveOccur, Zenon
  <2> QED
    BY ONLY <2>3, Zenon DEF FiveAt
<1>16. /\ Occurs(text, key, place) /\ Occurs(text, sep, mark)
       /\ Occurs(text, value, mark + 2) /\ Occurs(text, crlf, last)
  <2>1. place + 0 = place /\ place + 0 + k = mark /\ place + 0 + k + 2 = mark + 2 /\ place + 0 + k + 2 + v = last
    BY <1>14
  <2>2. \E n \in Nat, two \in Nat : n = Len(none) /\ two = Len(sep) /\ n = 0 /\ two = 2
    BY <1>13
  <2> QED
    BY <1>12, <1>15, <2>1, <2>2
<1>17. t = k + 2 + v + 2
  <2>1. PICK n \in Nat, two \in Nat, end2 \in Nat :
           n = Len(none) /\ two = Len(sep) /\ end2 = Len(crlf) /\ n = 0 /\ two = 2 /\ end2 = 2
    BY <1>13
  <2>2. t = n + k + two + v + end2
    BY <1>9, <1>12, <1>15, <2>1
  <2> QED
    BY <2>1, <2>2
<1>18. HeaderAt(r, i + 1) = mark + 2 + v + 2
  BY <1>10, <1>14, <1>17
<1>19. mark + 1 <= Len(text) /\ mark <= Len(text) /\ text[mark] = ":" /\ text[mark + 1] = Blank
  <2>1. Len(text) \in Nat /\ mark + 2 <= Len(text) + 1 /\ \A j \in 1 .. 2 : text[mark + j - 1] = sep[j]
    BY <1>13, <1>16, LenProperties DEF Occurs
  <2>2. sep[1] = ":" /\ sep[2] = " "
    BY <1>13
  <2>3. mark + 1 - 1 = mark /\ mark + 2 - 1 = mark + 1
    OBVIOUS
  <2>4. mark + 1 <= Len(text) /\ mark <= Len(text)
    BY <2>1
  <2>5. text[mark] = sep[1]
    BY <2>1, <2>3
  <2>6. text[mark + 1] = sep[2]
    BY <2>1, <2>3
  <2> QED
    BY <2>2, <2>4, <2>5, <2>6, Zenon DEF Blank
<1>20. last + 1 <= Len(text) /\ text[last] = "CR" /\ text[last + 1] = "LF"
  <2>1. Len(text) \in Nat /\ last + 2 <= Len(text) + 1 /\ \A j \in 1 .. 2 : text[last + j - 1] = crlf[j]
    BY <1>13, <1>16, LenProperties DEF Occurs
  <2>2. crlf[1] = "CR" /\ crlf[2] = "LF"
    BY <1>13
  <2>3. last + 1 - 1 = last /\ last + 2 - 1 = last + 1
    OBVIOUS
  <2>4. last + 1 <= Len(text)
    BY <2>1
  <2>5. text[last] = crlf[1]
    BY <2>1, <2>3
  <2>6. text[last + 1] = crlf[2]
    BY <2>1, <2>3
  <2> QED
    BY <2>2, <2>4, <2>5, <2>6
<1>21. Len(text) \in Nat
  BY <1>6, LenProperties DEF Occurs
<1>22. WordAt(text, place, key, ":")
  <2>1. mark = place + Len(key)
    BY <1>12, <1>14
  <2>2. mark <= Len(text)
    BY <1>19
  <2> QED
    BY <1>16, <1>19, <2>1, <2>2, WordThenChar
<1>23. WordAt(text, mark + 2, value, "CR")
  <2>1. PICK first \in Nat : first = mark + 2
    OBVIOUS
  <2>2. last = first + Len(value) /\ last <= Len(text)
    BY <1>12, <1>14, <1>20, <1>21, <2>1
  <2>3. Occurs(text, value, first)
    BY <1>16, <2>1
  <2>4. WordAt(text, first, value, "CR")
    BY <1>20, <2>2, <2>3, WordThenChar
  <2> QED
    BY <2>1, <2>4
<1>24. HeaderIsAt(r, text, i, place, mark, k, v)
  BY <1>8, <1>12, <1>14, <1>18, <1>19, <1>20, <1>22, <1>23 DEF key, value, HeaderIsAt
<1> QED
  BY <1>24

LEMMA TwoChars ==
    ASSUME NEW text, NEW c \in Char, NEW d \in Char, NEW p \in Nat, NEW s \in Seq(Char), s = <<c, d>>, Occurs(text, s, p)
    PROVE  p + 1 <= Len(text) /\ p <= Len(text) /\ text[p] = c /\ text[p + 1] = d
<1>1. p + 1 <= Len(text) /\ text[p] = c /\ text[p + 1] = d
  <2>1. Occurs(text, <<c, d>>, p)
    BY Zenon
  <2> QED
    BY <2>1, TwoOccur
<1>2. Len(text) \in Nat
  BY LenProperties DEF Occurs
<1> QED
  BY <1>1, <1>2

LEMMA BlankIsChar == Blank \in Char /\ <<Blank>> = <<" ">>
BY Zenon DEF Blank, Char, White

LEMMA MethodOccurs ==
    ASSUME NEW r, WellFormed(r), NEW text, PartsAtPlaces(r, text)
    PROVE  /\ r.method = <<"G">> /\ UrlAt(r) = 3
           /\ 2 <= Len(text) /\ text[1] = "G" /\ text[2] = Blank
<1>1. r.method = <<"G">> /\ "G" \in Char /\ Len(<<"G">>) = 1
  BY DEF WellFormed, Method, Char, Upper
<1>2. UrlAt(r) = 3
  BY <1>1 DEF UrlAt
<1>3. text[1] = "G"
  <2>1. Occurs(text, <<"G">>, 1)
    BY <1>1, Zenon DEF PartsAtPlaces
  <2> QED
    BY <1>1, <2>1, CharOccurs
<1>4. Occurs(text, <<Blank>>, Len(r.method) + 1)
  BY BlankIsChar, Zenon DEF PartsAtPlaces
<1>5. Occurs(text, <<Blank>>, 2)
  BY <1>1, <1>4
<1>6. 2 <= Len(text) /\ text[2] = Blank
  BY <1>5, BlankIsChar, CharOccurs
<1> QED
  BY <1>1, <1>2, <1>3, <1>6

(* Behind the URL and each parameter, and before the protocol.             *)
LEMMA ParamEnds ==
    ASSUME NEW r, WellFormed(r), NEW text, PartsAtPlaces(r, text), NEW i \in 0 .. Len(r.params)
    PROVE  \E q \in Nat : /\ q = ParamAt(r, i + 1) /\ q <= Len(text)
                          /\ text[q] = IF i = Len(r.params) THEN Blank ELSE IF i = 0 THEN "?" ELSE "&"
                          /\ i = Len(r.params) => ProtocolAt(r) = q + 1
<1>1. Len(r.params) \in Nat
  BY WordTypes
<1>2. CASE i = Len(r.params)
  <2>1. Occurs(text, <<Blank>>, ProtocolAt(r) - 1) /\ Occurs(text, r.protocol, ProtocolAt(r))
    BY BlankIsChar, Zenon DEF PartsAtPlaces
  <2>2. PICK p \in Nat : p = ProtocolAt(r)
    BY <2>1 DEF Occurs
  <2>3. PICK q \in Nat : q = p - 1
    BY <2>1, <2>2 DEF Occurs
  <2>4. q <= Len(text) /\ text[q] = Blank
    BY <2>1, <2>2, <2>3, BlankIsChar, CharOccurs
  <2>5. q = ParamAt(r, i + 1)
    <3>1. PICK from \in Nat : from = UrlAt(r) + Len(r.url)
      BY DEF PartsAtPlaces, Occurs
    <3>2. PICK b \in Nat : b = Before(ParamTexts(r), i + 1)
      <4>1. ParamTexts(r) \in Seq(Seq(Char)) /\ Len(ParamTexts(r)) = i
        BY <1>2, RequestTexts DEF AreTexts
      <4> QED
        BY <4>1, BeforeEnds, FlattenType, LenProperties
    <3>3. ParamAt(r, i + 1) = from + b
      BY <3>1, <3>2 DEF ParamAt
    <3>4. ProtocolAt(r) = ParamAt(r, i + 1) + 1
      BY <1>2 DEF ProtocolAt
    <3> QED
      BY <2>2, <2>3, <3>3, <3>4
  <2> QED
    BY <1>1, <1>2, <2>2, <2>3, <2>4, <2>5
<1>3. CASE i # Len(r.params)
  <2>1. PICK j \in 1 .. Len(r.params) : j = i + 1 /\ (j = 1 <=> i = 0)
    BY <1>1, <1>3
  <2>2. PICK place \in Nat, equal \in Nat, k \in Nat, v \in Nat : ParamIsAt(r, text, j, place, equal, k, v)
    BY ParamOccurs
  <2>3. /\ place = ParamAt(r, j)
        /\ place <= Len(text) /\ text[place] = IF j = 1 THEN "?" ELSE "&"
    BY <2>2 DEF ParamIsAt
  <2> QED
    BY <1>3, <2>1, <2>3
<1> QED
  BY <1>2, <1>3

(* The words of the request line.                                          *)
LineIsAt(r, text, u, n, p, q, w, v) ==
    /\ u = Len(r.url) /\ Occurs(text, r.url, 3)
    /\ ParamAt(r, 1) = 3 + u
    /\ n = ProtocolAt(r) /\ p = Len(r.protocol) /\ WordAt(text, n, r.protocol, "/")
    /\ q = n + p + 1 /\ q = VersionAt(r) /\ w = Len(r.version) /\ WordAt(text, q, r.version, "CR")
    /\ v = q + w /\ v + 1 <= Len(text) /\ text[v + 1] = "LF" /\ HeaderAt(r, 1) = v + 2

LEMMA LineOccurs ==
    ASSUME NEW r, WellFormed(r), NEW text, PartsAtPlaces(r, text)
    PROVE  \E u \in Nat, n \in Nat, p \in Nat, q \in Nat, w \in Nat, v \in Nat : LineIsAt(r, text, u, n, p, q, w, v)
<1>1. /\ r.url \in Seq(Char) /\ r.protocol \in Seq(Char) /\ r.version \in Seq(Char)
      /\ UrlAt(r) = 3 /\ AreTexts(ParamTexts(r), r.params) /\ AreTexts(HeaderTexts(r), r.headers)
  BY WordTypes, MethodOccurs, RequestTexts
<1>2. PICK u \in Nat, p \in Nat, w \in Nat : u = Len(r.url) /\ p = Len(r.protocol) /\ w = Len(r.version)
  BY <1>1, LenProperties
<1>3. Before(ParamTexts(r), 1) = 0 /\ Before(HeaderTexts(r), 1) = 0
  BY <1>1, BeforeEnds DEF AreTexts
<1>4. Occurs(text, r.url, 3) /\ ParamAt(r, 1) = 3 + u
  <2>1. Occurs(text, r.url, UrlAt(r))
    BY Zenon DEF PartsAtPlaces
  <2>2. ParamAt(r, 1) = 3 + u + 0
    BY <1>1, <1>2, <1>3 DEF ParamAt
  <2> QED
    BY <1>1, <2>1, <2>2
<1>5. PICK n \in Nat : n = ProtocolAt(r) /\ Occurs(text, r.protocol, n)
  BY DEF PartsAtPlaces, Occurs
<1>6. PICK s \in Nat : s = n + p
  OBVIOUS
<1>7. WordAt(text, n, r.protocol, "/")
  <2>1. Occurs(text, <<"/">>, s) /\ "/" \in Char
    BY <1>2, <1>5, <1>6 DEF PartsAtPlaces, Char
  <2>2. s <= Len(text) /\ text[s] = "/"
    BY <2>1, CharOccurs
  <2> QED
    BY <1>2, <1>5, <1>6, <2>2, WordThenChar
<1>8. PICK q \in Nat : q = n + p + 1 /\ q = VersionAt(r)
  BY <1>2, <1>5 DEF VersionAt
<1>9. PICK v \in Nat : v = q + w
  OBVIOUS
<1>10. v + 1 <= Len(text) /\ v <= Len(text) /\ text[v] = "CR" /\ text[v + 1] = "LF"
  <2>1. PICK crlf \in Seq(Char) : crlf = <<"CR", "LF">> /\ "CR" \in Char /\ "LF" \in Char
    BY Punctuation DEF Char, White
  <2>2. Occurs(text, crlf, v)
    BY <1>2, <1>8, <1>9, <2>1 DEF PartsAtPlaces
  <2> QED
    BY <2>1, <2>2, TwoChars
<1>11. WordAt(text, q, r.version, "CR")
  <2>1. Occurs(text, r.version, q)
    BY <1>8 DEF PartsAtPlaces
  <2> QED
    BY <1>2, <1>9, <1>10, <2>1, WordThenChar
<1>12. HeaderAt(r, 1) = v + 2
  <2>1. HeaderAt(r, 1) = q + w + 2 + 0
    BY <1>2, <1>3, <1>8 DEF HeaderAt
  <2> QED
    BY <1>9, <2>1
<1>13. LineIsAt(r, text, u, n, p, q, w, v)
  BY <1>2, <1>4, <1>5, <1>7, <1>8, <1>9, <1>10, <1>11, <1>12 DEF LineIsAt
<1> QED
  BY <1>13

(* The empty line and the body.                                            *)
BodyIsAt(r, text, b, n) ==
    /\ b + 2 = BodyAt(r) /\ b = HeaderAt(r, Len(r.headers) + 1) /\ n = Len(r.body)
    /\ b + 1 <= Len(text) /\ b <= Len(text) /\ text[b] = "CR" /\ text[b + 1] = "LF"
    /\ Occurs(text, r.body, b + 2) /\ b + 2 + n = Len(text) + 1

LEMMA BodyOccurs ==
    ASSUME NEW r, WellFormed(r), NEW text, PartsAtPlaces(r, text)
    PROVE  \E b \in Nat, n \in Nat : BodyIsAt(r, text, b, n)
<1>1. PICK from \in Nat : from = VersionAt(r) + Len(r.version) + 2
  BY DEF PartsAtPlaces, Occurs
<1>2. PICK h \in Nat : h = Before(HeaderTexts(r), Len(r.headers) + 1)
  <2>1. HeaderTexts(r) \in Seq(Seq(Char)) /\ Len(HeaderTexts(r)) = Len(r.headers)
    BY RequestTexts DEF AreTexts
  <2> QED
    BY <2>1, BeforeEnds, FlattenType, LenProperties
<1>3. PICK b \in Nat : b = HeaderAt(r, Len(r.headers) + 1)
  BY <1>1, <1>2 DEF HeaderAt
<1>4. b + 2 = BodyAt(r)
  BY <1>3 DEF BodyAt
<1>5. PICK n \in Nat : n = Len(r.body)
  BY WordTypes, LenProperties
<1>6. Occurs(text, r.body, b + 2) /\ b + 2 + n = Len(text) + 1
  BY <1>4, <1>5 DEF PartsAtPlaces
<1>7. b + 1 <= Len(text) /\ b <= Len(text) /\ text[b] = "CR" /\ text[b + 1] = "LF"
  <2>1. PICK crlf \in Seq(Char) : crlf = <<"CR", "LF">> /\ "CR" \in Char /\ "LF" \in Char
    BY Punctuation DEF Char, White
  <2>2. b = BodyAt(r) - 2
    BY <1>4
  <2>3. Occurs(text, crlf, b)
    BY <2>1, <2>2 DEF PartsAtPlaces
  <2> QED
    BY <2>1, <2>3, TwoChars
<1>8. BodyIsAt(r, text, b, n)
  BY <1>3, <1>4, <1>5, <1>6, <1>7 DEF BodyIsAt
<1> QED
  BY <1>8

(* Behind the request line and each header.                                *)
LEMMA LineEndOccurs ==
    ASSUME NEW r, WellFormed(r), NEW text, PartsAtPlaces(r, text), NEW i \in 0 .. Len(r.headers)
    PROVE  \E q \in Nat : q + 1 = HeaderAt(r, i + 1) /\ q <= Len(text) /\ text[q] = "LF"
<1>1. Len(r.headers) \in Nat
  BY WordTypes
<1>2. CASE i = 0
  <2>1. PICK u \in Nat, n \in Nat, p \in Nat, q \in Nat, w \in Nat, v \in Nat : LineIsAt(r, text, u, n, p, q, w, v)
    BY LineOccurs
  <2>2. v + 1 <= Len(text) /\ text[v + 1] = "LF" /\ HeaderAt(r, 1) = v + 2
    BY <2>1 DEF LineIsAt
  <2>3. v + 1 \in Nat /\ v + 1 + 1 = HeaderAt(r, i + 1)
    BY <1>2, <2>2
  <2> QED
    BY <2>2, <2>3
<1>3. CASE i # 0
  <2>1. i \in 1 .. Len(r.headers)
    BY <1>1, <1>3
  <2>2. PICK place \in Nat, mark \in Nat, k \in Nat, v \in Nat : HeaderIsAt(r, text, i, place, mark, k, v)
    BY <2>1, HeaderOccurs
  <2>3. PICK q \in Nat : q = mark + 2 + v + 1
    OBVIOUS
  <2>4. HeaderAt(r, i + 1) = mark + 2 + v + 2 /\ q <= Len(text) /\ text[q] = "LF"
    BY <2>2, <2>3 DEF HeaderIsAt
  <2> QED
    BY <2>3, <2>4
<1> QED
  BY <1>2, <1>3

-----------------------------------------------------------------------------
(* A round that leaves everything but the state and the place as it is.    *)
Stay(s) == Goto(s) /\ UNCHANGED <<request, start, colon>>

Moved(from, chars, to) == state = from /\ ch \in chars /\ Stay(to)

LEMMA MoveIs ==
    ASSUME Move
    PROVE  \/ Moved("START", White, "START")
           \/ Moved("START", Upper, "METHOD")
           \/ Moved("METHOD", Upper, "METHOD")
           \/ Moved("BEFORE_URL", {" "}, "BEFORE_URL")
           \/ Moved("BEFORE_URL", {"/"}, "IN_URL")
           \/ Moved("IN_URL", AnyChar \ {"?", " "}, "IN_URL")
           \/ Moved("BEFORE_URL_PARAM_KEY", AnyChar \ White, "URL_PARAM_KEY")
           \/ Moved("URL_PARAM_KEY", AnyChar \ {"=", " "}, "URL_PARAM_KEY")
           \/ Moved("BEFORE_URL_PARAM_VALUE", AnyChar \ White, "URL_PARAM_VALUE")
           \/ Moved("URL_PARAM_VALUE", AnyChar \ {"&", " "}, "URL_PARAM_VALUE")
           \/ Moved("BEFORE_PROTOCOL", {" "}, "BEFORE_PROTOCOL")
           \/ Moved("BEFORE_PROTOCOL", AnyChar \ {" "}, "PROTOCOL")
           \/ Moved("PROTOCOL", AnyChar \ {"/"}, "PROTOCOL")
           \/ Moved("BEFORE_VERSION", Digit, "VERSION")
           \/ Moved("VERSION", Digit \cup {"."}, "VERSION")
           \/ Moved("CR_LF", {"CR"}, "CR_LF_CR")
           \/ Moved("CR_LF", AnyChar \ {"CR", " "}, "HEADER_KEY")
           \/ Moved("HEADER_KEY", AnyChar \ {":"}, "HEADER_KEY")
           \/ Moved("HEADER_VALUE", AnyChar \ {"CR"}, "HEADER_VALUE")
<1>1. PICK m \in Moves : state = m[1] /\ ch \in m[2] /\ Stay(m[3])
  BY DEF Move, Stay
<1>2. \A a, b, c : m = <<a, b, c>> => Moved(a, b, c)
  BY <1>1 DEF Moved
<1> QED
  BY <1>2, Zenon DEF Moves

(* A round that refuses, and those that are not a move.                    *)
LEMMA RefuseIs ==
    ASSUME Refuse
    PROVE  \/ state = "START" /\ ch \notin (White \cup Upper)
           \/ state = "METHOD" /\ ch \notin (Upper \cup {" "})
           \/ state = "BEFORE_URL" /\ ch \notin {"/", " "}
           \/ state = "BEFORE_URL_PARAM_KEY" /\ ch \notin (AnyChar \ White)
           \/ state = "URL_PARAM_KEY" /\ ch \notin (AnyChar \ {" "})
           \/ state = "BEFORE_URL_PARAM_VALUE" /\ ch \notin (AnyChar \ White)
           \/ state = "BEFORE_VERSION" /\ ch \notin Digit
           \/ state = "VERSION" /\ ch \notin (Digit \cup {".", "CR"})
           \/ state = "WHEN_CR" /\ ch \notin {"LF"}
           \/ state = "CR_LF" /\ ch \notin (AnyChar \ {" "})
           \/ state = "CR_LF_CR" /\ ch \notin {"LF"}
<1>1. state \in DOMAIN Accepted /\ ch \notin Accepted[state]
  BY DEF Refuse
<1>2. state \in {"START", "METHOD", "BEFORE_URL", "BEFORE_URL_PARAM_KEY", "URL_PARAM_KEY", "BEFORE_URL_PARAM_VALUE",
                "BEFORE_VERSION", "VERSION", "WHEN_CR", "CR_LF", "CR_LF_CR"}
  BY <1>1 DEF Accepted
<1>3. state = "START" => ch \notin (White \cup Upper)
  BY <1>1 DEF Accepted
<1>4. state = "METHOD" => ch \notin (Upper \cup {" "})
  <2>1. Accepted["METHOD"] = Upper \cup {" "}
    BY Zenon DEF Accepted
  <2> QED
    BY <1>1, <2>1, Zenon
<1>5. state = "BEFORE_URL" => ch \notin {"/", " "}
  <2>1. Accepted["BEFORE_URL"] = {"/", " "}
    BY Zenon DEF Accepted
  <2> QED
    BY <1>1, <2>1, Zenon
<1>6. state = "BEFORE_URL_PARAM_KEY" => ch \notin (AnyChar \ White)
  BY <1>1 DEF Accepted
<1>7. state = "URL_PARAM_KEY" => ch \notin (AnyChar \ {" "})
  <2>1. Accepted["URL_PARAM_KEY"] = AnyChar \ {" "}
    BY Zenon DEF Accepted
  <2> QED
    BY <1>1, <2>1, Zenon
<1>8. state = "BEFORE_URL_PARAM_VALUE" => ch \notin (AnyChar \ White)
  BY <1>1 DEF Accepted
<1>9. state = "BEFORE_VERSION" => ch \notin Digit
  BY <1>1 DEF Accepted
<1>10. state = "VERSION" => ch \notin (Digit \cup {".", "CR"})
  BY <1>1 DEF Accepted
<1>11. state = "WHEN_CR" => ch \notin {"LF"}
  BY <1>1 DEF Accepted
<1>12. state = "CR_LF" => ch \notin (AnyChar \ {" "})
  <2>1. Accepted["CR_LF"] = AnyChar \ {" "}
    BY Zenon DEF Accepted
  <2> QED
    BY <1>1, <2>1, Zenon
<1>13. state = "CR_LF_CR" => ch \notin {"LF"}
  BY <1>1 DEF Accepted
<1> QED
  BY <1>2, <1>3, <1>4, <1>5, <1>6, <1>7, <1>8, <1>9, <1>10, <1>11, <1>12, <1>13, Zenon

LEMMA RoundStates ==
    /\ MarkColon => \/ state = "URL_PARAM_KEY" /\ ch = "="
                    \/ state = "HEADER_KEY" /\ ch = ":"
    /\ SetMethod => state = "METHOD" /\ ch = Blank
    /\ SetUrl => state = "IN_URL" /\ ch \in {"?", Blank}
    /\ SetRequestParams => state = "URL_PARAM_VALUE" /\ ch \in {"&", Blank}
    /\ SetProtocol => state = "PROTOCOL" /\ ch = "/"
    /\ SetVersion => state = "VERSION" /\ ch = "CR"
    /\ AddHeader => state = "HEADER_VALUE" /\ ch = "CR"
    /\ EndLine => state = "WHEN_CR" /\ ch = "LF"
    /\ EndHeaders => state = "CR_LF_CR" /\ ch = "LF"
    /\ SetBody => state = "BODY"
BY Zenon DEF MarkColon, SetMethod, SetUrl, SetRequestParams, SetProtocol, SetVersion, AddHeader,
             EndLine, EndHeaders, SetBody, At, Blank

LEMMA CharTypes ==
    ASSUME Inv, Parsing
    PROVE  ch \in AnyChar /\ end \in Nat \ {0} /\ Len(msg) \in Nat /\ end <= Len(msg) + 1
<1>1. msg \in Seq(Char) /\ end \in Nat \ {0} /\ end <= Len(msg) + 1
  BY DEF Inv, TypeOK, Parsing
<1>2. Text0[end] \in AnyChar
  BY <1>1, MessageAndNul DEF AnyChar
<1> QED
  BY <1>1, <1>2, LenProperties DEF ch, Text0

(* A round, by the state.                                                  *)
LEMMA Rounds ==
    ASSUME Inv, Parsing, ParaseRequest
    PROVE  /\ state = "START" => ch \in White \/ (ch \in Upper /\ Stay("METHOD")) \/ ch \notin White \cup Upper
           /\ state = "METHOD" => (ch \in Upper /\ Stay("METHOD")) \/ (ch = Blank /\ SetMethod) \/ ch \notin Upper \cup {Blank}
           /\ state = "BEFORE_URL" => ch = Blank \/ (ch = "/" /\ Stay("IN_URL")) \/ ch \notin {"/", Blank}
           /\ state = "IN_URL" => (ch \notin {"?", Blank} /\ Stay("IN_URL")) \/ (ch \in {"?", Blank} /\ SetUrl)
           /\ state = "BEFORE_URL_PARAM_KEY" => (ch \notin White /\ Stay("URL_PARAM_KEY")) \/ ch \in White
           /\ state = "URL_PARAM_KEY" => (ch \notin {"=", Blank} /\ Stay("URL_PARAM_KEY")) \/ (ch = "=" /\ MarkColon) \/ ch = Blank
           /\ state = "BEFORE_URL_PARAM_VALUE" => (ch \notin White /\ Stay("URL_PARAM_VALUE")) \/ ch \in White
           /\ state = "URL_PARAM_VALUE" => (ch \notin {"&", Blank} /\ Stay("URL_PARAM_VALUE")) \/ (ch \in {"&", Blank} /\ SetRequestParams)
           /\ state = "BEFORE_PROTOCOL" => ch = Blank \/ (ch # Blank /\ Stay("PROTOCOL"))
           /\ state = "PROTOCOL" => (ch # "/" /\ Stay("PROTOCOL")) \/ (ch = "/" /\ SetProtocol)
           /\ state = "BEFORE_VERSION" => (ch \in Digit /\ Stay("VERSION")) \/ ch \notin Digit
           /\ state = "VERSION" => (ch \in Digit \cup {"."} /\ Stay("VERSION")) \/ (ch = "CR" /\ SetVersion) \/ ch \notin Digit \cup {".", "CR"}
           /\ state = "WHEN_CR" => (ch = "LF" /\ EndLine) \/ ch # "LF"
           /\ state = "CR_LF" => (ch = "CR" /\ Stay("CR_LF_CR")) \/ (ch \notin {"CR", Blank} /\ Stay("HEADER_KEY")) \/ ch = Blank
           /\ state = "HEADER_KEY" => (ch # ":" /\ Stay("HEADER_KEY")) \/ (ch = ":" /\ MarkColon)
           /\ state = "HEADER_VALUE" => (ch # "CR" /\ Stay("HEADER_VALUE")) \/ (ch = "CR" /\ AddHeader)
           /\ state = "CR_LF_CR" => (ch = "LF" /\ EndHeaders) \/ ch # "LF"
           /\ state = "BODY" => SetBody
<1>1. ch \in AnyChar
  BY CharTypes
<1>2. CASE Move
  <2>1. state = "START" => ch \in White \/ (ch \in Upper /\ Stay("METHOD")) \/ ch \notin White \cup Upper
    BY <1>1, <1>2, MoveIs, Zenon DEF Moved, Blank
  <2>2. state = "METHOD" => (ch \in Upper /\ Stay("METHOD")) \/ (ch = Blank /\ SetMethod) \/ ch \notin Upper \cup {Blank}
    BY <1>1, <1>2, MoveIs, Zenon DEF Moved, Blank
  <2>3. state = "BEFORE_URL" => ch = Blank \/ (ch = "/" /\ Stay("IN_URL")) \/ ch \notin {"/", Blank}
    BY <1>1, <1>2, MoveIs, Zenon DEF Moved, Blank
  <2>4. state = "IN_URL" => (ch \notin {"?", Blank} /\ Stay("IN_URL")) \/ (ch \in {"?", Blank} /\ SetUrl)
    BY <1>1, <1>2, MoveIs, Zenon DEF Moved, Blank
  <2>5. state = "BEFORE_URL_PARAM_KEY" => (ch \notin White /\ Stay("URL_PARAM_KEY")) \/ ch \in White
    BY <1>1, <1>2, MoveIs, Zenon DEF Moved, Blank
  <2>6. state = "URL_PARAM_KEY" => (ch \notin {"=", Blank} /\ Stay("URL_PARAM_KEY")) \/ (ch = "=" /\ MarkColon) \/ ch = Blank
    BY <1>1, <1>2, MoveIs, Zenon DEF Moved, Blank
  <2>7. state = "BEFORE_URL_PARAM_VALUE" => (ch \notin White /\ Stay("URL_PARAM_VALUE")) \/ ch \in White
    BY <1>1, <1>2, MoveIs, Zenon DEF Moved, Blank
  <2>8. state = "URL_PARAM_VALUE" => (ch \notin {"&", Blank} /\ Stay("URL_PARAM_VALUE")) \/ (ch \in {"&", Blank} /\ SetRequestParams)
    BY <1>1, <1>2, MoveIs, Zenon DEF Moved, Blank
  <2>9. state = "BEFORE_PROTOCOL" => ch = Blank \/ (ch # Blank /\ Stay("PROTOCOL"))
    BY <1>1, <1>2, MoveIs, Zenon DEF Moved, Blank
  <2>10. state = "PROTOCOL" => (ch # "/" /\ Stay("PROTOCOL")) \/ (ch = "/" /\ SetProtocol)
    BY <1>1, <1>2, MoveIs, Zenon DEF Moved, Blank
  <2>11. state = "BEFORE_VERSION" => (ch \in Digit /\ Stay("VERSION")) \/ ch \notin Digit
    BY <1>1, <1>2, MoveIs, Zenon DEF Moved, Blank
  <2>12. state = "VERSION" => (ch \in Digit \cup {"."} /\ Stay("VERSION")) \/ (ch = "CR" /\ SetVersion) \/ ch \notin Digit \cup {".", "CR"}
    BY <1>1, <1>2, MoveIs, Zenon DEF Moved, Blank
  <2>13. state = "WHEN_CR" => (ch = "LF" /\ EndLine) \/ ch # "LF"
    BY <1>1, <1>2, MoveIs, Zenon DEF Moved, Blank
  <2>14. state = "CR_LF" => (ch = "CR" /\ Stay("CR_LF_CR")) \/ (ch \notin {"CR", Blank} /\ Stay("HEADER_KEY")) \/ ch = Blank
    BY <1>1, <1>2, MoveIs, Zenon DEF Moved, Blank
  <2>15. state = "HEADER_KEY" => (ch # ":" /\ Stay("HEADER_KEY")) \/ (ch = ":" /\ MarkColon)
    BY <1>1, <1>2, MoveIs, Zenon DEF Moved, Blank
  <2>16. state = "HEADER_VALUE" => (ch # "CR" /\ Stay("HEADER_VALUE")) \/ (ch = "CR" /\ AddHeader)
    BY <1>1, <1>2, MoveIs, Zenon DEF Moved, Blank
  <2>17. state = "CR_LF_CR" => (ch = "LF" /\ EndHeaders) \/ ch # "LF"
    BY <1>1, <1>2, MoveIs, Zenon DEF Moved, Blank
  <2>18. state = "BODY" => SetBody
    BY <1>1, <1>2, MoveIs, Zenon DEF Moved, Blank
  <2> QED
    BY <2>1, <2>2, <2>3, <2>4, <2>5, <2>6, <2>7, <2>8, <2>9, <2>10, <2>11, <2>12, <2>13, <2>14, <2>15, <2>16, <2>17, <2>18, Zenon
<1>3. CASE Refuse
  BY <1>1, <1>3, RefuseIs, Zenon DEF Blank
<1>4. CASE ~Move /\ ~Refuse
  BY <1>4, RoundStates DEF ParaseRequest
<1> QED
  BY <1>2, <1>3, <1>4

-----------------------------------------------------------------------------
(* The effects of the rounds that end at a blank.                          *)
LEMMA BlankRounds ==
    /\ SetMethod => /\ request' = [request EXCEPT !.method = IF Word(start, end) \in Method THEN Word(start, end) ELSE Unknown]
                    /\ NextWord("BEFORE_URL")
    /\ SetUrl => /\ request' = [request EXCEPT !.url = Word(start, end)]
                 /\ ch = "?" => NextWord("BEFORE_URL_PARAM_KEY")
                 /\ ch # "?" => NextWord("BEFORE_PROTOCOL")
    /\ SetRequestParams =>
          /\ request' = [request EXCEPT !.params = Put(@, Word(start, colon), Word(colon + 1, end))]
          /\ ch = "&" => NextWord("BEFORE_URL_PARAM_KEY")
          /\ ch # "&" => NextWord("BEFORE_PROTOCOL")
<1>1. SetMethod => /\ request' = [request EXCEPT !.method = IF Word(start, end) \in Method THEN Word(start, end) ELSE Unknown]
                   /\ NextWord("BEFORE_URL")
  BY Zenon DEF SetMethod
<1>2. SetUrl => /\ request' = [request EXCEPT !.url = Word(start, end)]
                /\ ch = "?" => NextWord("BEFORE_URL_PARAM_KEY")
                /\ ch # "?" => NextWord("BEFORE_PROTOCOL")
  BY Zenon DEF SetUrl, At
<1>3. SetRequestParams =>
         /\ request' = [request EXCEPT !.params = Put(@, Word(start, colon), Word(colon + 1, end))]
         /\ ch = "&" => NextWord("BEFORE_URL_PARAM_KEY")
         /\ ch # "&" => NextWord("BEFORE_PROTOCOL")
  BY Zenon DEF SetRequestParams, At
<1> QED
  BY <1>1, <1>2, <1>3, Zenon

(* What the parser reads while it is in a word, and at its end.            *)
LEMMA CharRead ==
    ASSUME Inv, end <= Len(msg)
    PROVE  ch = msg[end] /\ ch \in Char
<1>1. /\ msg \in Seq(AnyChar) /\ <<NUL>> \in Seq(AnyChar) /\ Len(<<NUL>>) = 1
      /\ msg \in Seq(Char) /\ end \in 1 .. Len(msg) + 2 /\ Len(msg) \in Nat
  <2>1. NUL \in AnyChar /\ Char \subseteq AnyChar
    BY DEF AnyChar
  <2>2. msg \in Seq(Char) /\ end \in 1 .. Len(msg) + 2
    BY DEF Inv, TypeOK
  <2> QED
    BY <2>1, <2>2, LenProperties
<1>2. (msg \o <<NUL>>)[end] = msg[end] /\ msg[end] \in Char
  BY <1>1, ConcatProperties, ElementOfSeq
<1> QED
  BY <1>2 DEF ch

LEMMA WordRead ==
    ASSUME Inv, NEW p \in Nat, NEW w, NEW n \in Nat, n = Len(w), Occurs(msg, w, p),
           NEW bad, Without(w, bad), end \in p .. p + n - 1
    PROVE  end <= Len(msg) /\ ch \in Char /\ ch \notin bad /\ ch = w[end - p + 1]
<1>1. /\ Len(msg) \in Nat /\ w \in Seq(Char) /\ p \in Nat \ {0} /\ p + n <= Len(msg) + 1
      /\ \A k \in 1 .. n : msg[p + k - 1] = w[k]
  BY LenProperties DEF Occurs
<1>2. PICK k \in 1 .. n : k = end - p + 1
  BY <1>1
<1>3. end <= Len(msg) /\ end = p + k - 1
  BY <1>1, <1>2
<1>4. ch = msg[end] /\ ch \in Char
  BY <1>3, CharRead
<1>5. DOMAIN w = 1 .. n
  BY <1>1, LenProperties
<1>6. w[k] \notin bad
  BY <1>2, <1>5, Zenon DEF Without
<1>7. msg[end] = w[k]
  BY <1>1, <1>2, <1>3
<1> QED
  BY <1>2, <1>3, <1>4, <1>6, <1>7

LEMMA WordIs ==
    ASSUME Inv, NEW p \in Nat, NEW w, NEW n \in Nat, n = Len(w), NEW e \in Nat, e = p + n, Occurs(msg, w, p)
    PROVE  Word(p, e) = w
<1>1. /\ Len(msg) \in Nat /\ Len(w) \in Nat /\ p \in Nat \ {0} /\ p + n <= Len(msg) + 1 /\ e <= Len(msg) + 1
      /\ msg \in Seq(Char) /\ w \in Seq(Char)
  BY LenProperties DEF Occurs
<1>2. NUL \in AnyChar /\ Char \subseteq AnyChar
  BY DEF AnyChar
<1>3. /\ msg \in Seq(AnyChar) /\ <<NUL>> \in Seq(AnyChar) /\ Len(<<NUL>>) = 1 /\ w \in Seq(AnyChar)
  BY <1>1, <1>2
<1>4. PICK text \in Seq(AnyChar) : text = msg \o <<NUL>>
  BY <1>3, ConcatProperties
<1>5. Len(text) = Len(msg) + 1 /\ \A k \in 1 .. Len(msg) : text[k] = msg[k]
  BY <1>1, <1>3, <1>4, ConcatProperties
<1>6. PICK last \in Int : last = e - 1 /\ last = p + n - 1
  BY <1>1
<1>7. \A k \in p .. last : text[k] \in AnyChar
  BY <1>1, <1>5, <1>6, ElementOfSeq
<1>8. /\ SubSeq(text, p, last) \in Seq(AnyChar)
      /\ Len(SubSeq(text, p, last)) = IF p <= last THEN last - p + 1 ELSE 0
      /\ \A k \in 1 .. last - p + 1 : SubSeq(text, p, last)[k] = text[p + k - 1]
  BY <1>1, <1>7, SubSeqProperties
<1>9. Len(SubSeq(text, p, last)) = n /\ last - p + 1 = n /\ n = Len(w)
  BY <1>1, <1>6, <1>8
<1>10. ASSUME NEW k \in 1 .. Len(w)
       PROVE  SubSeq(text, p, last)[k] = w[k]
  <2>1. PICK j \in 1 .. Len(msg) : j = p + k - 1
    BY <1>1
  <2>2. SubSeq(text, p, last)[k] = text[j] /\ text[j] = msg[j]
    BY <1>5, <1>8, <1>9, <2>1
  <2>3. msg[j] = w[k]
    BY <2>1 DEF Occurs
  <2> QED
    BY <2>2, <2>3
<1>11. SubSeq(text, p, last) = w
  BY <1>3, <1>8, <1>9, <1>10, SeqEqual
<1> QED
  BY <1>4, <1>6, <1>11 DEF Word

LEMMA AgreesMore ==
    ASSUME NEW map, NEW pairs, NEW i \in Nat \ {0}, AgreesUpTo(map, pairs, i - 1)
    PROVE  AgreesUpTo(Put(map, pairs[i][1], pairs[i][2]), pairs, i)
<1> SUFFICES ASSUME NEW a \in 1 .. i, \A j \in 1 .. i : j > a => pairs[j][1] # pairs[a][1]
             PROVE  /\ pairs[a][1] \in DOMAIN Put(map, pairs[i][1], pairs[i][2])
                    /\ Put(map, pairs[i][1], pairs[i][2])[pairs[a][1]] = pairs[a][2]
  BY DEF AgreesUpTo
<1>1. CASE a = i
  BY <1>1 DEF Put
<1>2. CASE a # i
  <2>1. a \in 1 .. i - 1 /\ i > a /\ i \in 1 .. i /\ \A j \in 1 .. i - 1 : j \in 1 .. i
    BY <1>2
  <2>2. pairs[a][1] \in DOMAIN map /\ map[pairs[a][1]] = pairs[a][2]
    BY <2>1 DEF AgreesUpTo
  <2>3. pairs[a][1] # pairs[i][1]
    BY <2>1
  <2> QED
    BY <2>2, <2>3 DEF Put
<1> QED
  BY <1>1, <1>2

LEMMA RequestSet ==
    ASSUME Inv, NEW f \in RequestField, NEW x, request' = [request EXCEPT ![f] = x]
    PROVE  request'[f] = x /\ \A g \in RequestField : g # f => request'[g] = request[g]
BY DEF Inv

(* The parser is in a request's text and reads.                            *)
Reads(r) == Inv /\ Parsing /\ ParaseRequest /\ WellFormed(r) /\ PartsAtPlaces(r, msg)

LEMMA BlankIs ==
    /\ Blank \notin Upper /\ Blank \in White /\ Blank # "/" /\ Blank # "?" /\ Blank # "=" /\ Blank # "&"
    /\ Blank # "CR" /\ Blank # "LF" /\ Blank # ":" /\ Blank # "G" /\ Blank \in Char
BY Zenon DEF Blank, Upper, White, Char

LEMMA MethodStep ==
    ASSUME NEW r, Reads(r), OnMethod(r)
    PROVE  pc' = "parse" /\ (OnMethod(r)' \/ OnUrl(r)')
<1>1. /\ r.method = <<"G">> /\ UrlAt(r) = 3 /\ 2 <= Len(msg) /\ msg[1] = "G" /\ msg[2] = Blank
      /\ Len(msg) \in Nat /\ end \in Nat /\ Inv /\ Parsing /\ ParaseRequest
  BY MethodOccurs, CharTypes DEF Reads
<1>2. "G" \in Upper /\ "G" \notin White /\ Len(<<"G">>) = 1
  BY DEF Upper, White
<1>3. CASE state = "START" /\ AtPlace(1)
  <2>1. start = 1 /\ end = 1 /\ ch = "G"
    BY <1>1, <1>3, CharRead DEF AtPlace
  <2>2. Stay("METHOD")
    BY <1>1, <1>2, <1>3, <2>1, Rounds
  <2>3. state' = "METHOD" /\ start' = 1 /\ end' = 2 /\ pc' = "parse"
    BY <1>1, <2>1, <2>2 DEF Stay, Goto, Parsing
  <2> QED
    BY <1>1, <1>2, <2>3 DEF OnMethod, InWord
<1>4. CASE state = "METHOD" /\ InWord(1, r.method)
  <2>1. start = 1 /\ end = 2
    BY <1>1, <1>2, <1>4 DEF InWord
  <2>2. ch = Blank
    BY <1>1, <2>1, CharRead
  <2>3. SetMethod
    BY <1>1, <1>4, <2>2, BlankIs, Rounds
  <2>4. Word(start, end) = <<"G">>
    <3>1. Occurs(msg, <<"G">>, 1)
      BY <1>1, Zenon DEF Reads, PartsAtPlaces
    <3>2. 1 \in Nat /\ 2 \in Nat /\ 2 = 1 + 1
      OBVIOUS
    <3>3. Word(1, 2) = <<"G">>
      BY ONLY <1>1, <1>2, <3>1, <3>2, WordIs
    <3> QED
      BY <2>1, <3>3
  <2>5. NextWord("BEFORE_URL") /\ request' = [request EXCEPT !["method"] = <<"G">>]
    BY <2>3, <2>4, BlankRounds DEF Method
  <2>6. request'.method = r.method
    BY <1>1, <2>5, RequestSet DEF RequestField
  <2>7. state' = "BEFORE_URL" /\ start' = 3 /\ end' = 3 /\ pc' = "parse"
    BY <1>1, <2>1, <2>5 DEF NextWord, Goto, Parsing
  <2> QED
    BY <1>1, <2>6, <2>7 DEF OnUrl, AtPlace
<1> QED
  BY <1>3, <1>4 DEF OnMethod

LEMMA WordChars ==
    ASSUME NEW r, WellFormed(r)
    PROVE  /\ Without(r.url, {"?", Blank}) /\ r.url[1] = "/" /\ Len(r.url) \in Nat \ {0}
           /\ Without(r.protocol, {"/", Blank}) /\ Len(r.protocol) \in Nat \ {0}
           /\ \A i \in 1 .. Len(r.params) :
                 /\ Without(r.params[i][1], White \cup {"="}) /\ Len(r.params[i][1]) \in Nat \ {0}
                 /\ Without(r.params[i][2], White \cup {"&"}) /\ Len(r.params[i][2]) \in Nat \ {0}
           /\ \A i \in 1 .. Len(r.headers) :
                 /\ Without(r.headers[i][1], White \cup {":"}) /\ Len(r.headers[i][1]) \in Nat \ {0}
                 /\ Without(r.headers[i][2], {"CR"}) /\ Len(r.headers[i][2]) \in Nat
<1>1. \A w : w \in Seq(Char) \ {<<>>} => Len(w) \in Nat \ {0}
  BY LenProperties, EmptySeq
<1>2. Without(r.url, {"?", Blank}) /\ r.url[1] = "/" /\ r.url \in Seq(Char) \ {<<>>}
  BY Zenon DEF WellFormed, IsWord, Blank
<1>3. Without(r.protocol, {"/", Blank}) /\ r.protocol \in Seq(Char) \ {<<>>}
  BY Zenon DEF WellFormed, IsWord, Blank
<1>4. DOMAIN r.params = 1 .. Len(r.params) /\ DOMAIN r.headers = 1 .. Len(r.headers)
  <2>1. r.params \in Seq(Seq(Char) \X Seq(Char)) /\ r.headers \in Seq(Seq(Char) \X Seq(Char))
    BY Zenon DEF WellFormed
  <2> QED
    BY <2>1, LenProperties
<1>5. ASSUME NEW i \in 1 .. Len(r.params)
      PROVE  /\ Without(r.params[i][1], White \cup {"="}) /\ r.params[i][1] \in Seq(Char) \ {<<>>}
             /\ Without(r.params[i][2], White \cup {"&"}) /\ r.params[i][2] \in Seq(Char) \ {<<>>}
  BY <1>4, Zenon DEF WellFormed, IsWord
<1>6. ASSUME NEW i \in 1 .. Len(r.headers)
      PROVE  /\ Without(r.headers[i][1], White \cup {":"}) /\ r.headers[i][1] \in Seq(Char) \ {<<>>}
             /\ Without(r.headers[i][2], {"CR"})
  BY <1>4, Zenon DEF WellFormed, IsWord
<1>7. \A i \in 1 .. Len(r.headers) : Len(r.headers[i][2]) \in Nat
  BY WordTypes, LenProperties
<1> QED
  BY <1>1, <1>2, <1>3, <1>5, <1>6, <1>7

(* Nothing but the places moves.                                           *)
LEMMA SameUrl ==
    ASSUME NEW r, NEW n, HasUrl(r, n), UNCHANGED request
    PROVE  HasUrl(r, n)'
BY DEF HasUrl, AgreesUpTo

LEMMA SameLine ==
    ASSUME NEW r, NEW n, HasLine(r, n), UNCHANGED request
    PROVE  HasLine(r, n)'
BY SameUrl DEF HasLine, AgreesUpTo

LEMMA UrlStep ==
    ASSUME NEW r, Reads(r), OnUrl(r)
    PROVE  pc' = "parse" /\ (OnUrl(r)' \/ (\E i \in 1 .. Len(r.params) : OnParam(r, i)') \/ OnProtocol(r)')
<1>1. Inv /\ Parsing /\ ParaseRequest /\ WellFormed(r) /\ PartsAtPlaces(r, msg) /\ pc = "parse"
  BY DEF Reads, Parsing
<1>2. PICK u \in Nat, n \in Nat, p \in Nat, q \in Nat, w \in Nat, v \in Nat : LineIsAt(r, msg, u, n, p, q, w, v)
  BY <1>1, LineOccurs
<1>3. /\ UrlAt(r) = 3 /\ u = Len(r.url) /\ u > 0 /\ r.url[1] = "/" /\ ParamAt(r, 1) = 3 + u
      /\ Occurs(msg, r.url, 3) /\ Without(r.url, {"?", Blank}) /\ Len(msg) \in Nat /\ end \in Nat
      /\ r.url \in Seq(Char) /\ Len(r.params) \in Nat
  <2>1. UrlAt(r) = 3
    BY <1>1, MethodOccurs
  <2>2. Len(r.url) \in Nat \ {0} /\ r.url[1] = "/" /\ Without(r.url, {"?", Blank})
    BY <1>1, WordChars
  <2>3. u = Len(r.url) /\ ParamAt(r, 1) = 3 + u /\ Occurs(msg, r.url, 3)
    BY <1>2 DEF LineIsAt
  <2>4. Len(msg) \in Nat /\ end \in Nat
    BY <1>1, CharTypes
  <2>5. r.url \in Seq(Char) /\ Len(r.params) \in Nat
    BY <1>1, WordTypes
  <2> QED
    BY <2>1, <2>2, <2>3, <2>4, <2>5
<1>4. CASE state = "BEFORE_URL" /\ AtPlace(3)
  <2>1. start = 3 /\ end = 3 /\ 3 \in 3 .. 3 + u - 1 /\ 3 - 3 + 1 = 1
    BY <1>3, <1>4 DEF AtPlace
  <2>2. ch = "/"
    BY <1>1, <1>3, <2>1, WordRead
  <2>3. Stay("IN_URL")
    BY <1>1, <1>4, <2>2, BlankIs, Rounds
  <2>4. state' = "IN_URL" /\ start' = 3 /\ end' = 4 /\ pc' = "parse" /\ request' = request
    BY <1>1, <2>1, <2>3 DEF Stay, Goto
  <2> QED
    BY <1>3, <2>4 DEF OnUrl, InWord
<1>5. CASE state = "IN_URL" /\ InWord(3, r.url) /\ end # 3 + u
  <2>1. start = 3 /\ end \in 3 .. 3 + u - 1 /\ end + 1 \in 3 + 1 .. 3 + u
    BY <1>3, <1>5 DEF InWord
  <2>2. ch \notin {"?", Blank}
    BY <1>1, <1>3, <2>1, WordRead
  <2>3. Stay("IN_URL")
    BY <1>1, <1>5, <2>2, Rounds
  <2>4. state' = "IN_URL" /\ start' = 3 /\ end' = end + 1 /\ pc' = "parse" /\ request' = request
    BY <1>1, <2>1, <2>3 DEF Stay, Goto
  <2> QED
    BY <1>3, <2>1, <2>4 DEF OnUrl, InWord
<1>6. CASE state = "IN_URL" /\ InWord(3, r.url) /\ end = 3 + u
  <2>1. start = 3 /\ end = ParamAt(r, 0 + 1) /\ Word(start, end) = r.url
    BY <1>1, <1>3, <1>6, WordIs DEF InWord
  <2>2. /\ end <= Len(msg) /\ msg[end] = IF 0 = Len(r.params) THEN Blank ELSE "?"
        /\ 0 = Len(r.params) => ProtocolAt(r) = end + 1
    <3>1. PICK i \in 0 .. Len(r.params) : i = 0
      BY <1>3
    <3> QED
      BY <1>1, <2>1, <3>1, ParamEnds
  <2>3. ch = IF 0 = Len(r.params) THEN Blank ELSE "?"
    BY <1>1, <2>2, CharRead
  <2>4. SetUrl
    BY <1>1, <1>6, <2>3, Rounds
  <2>5. request' = [request EXCEPT !["url"] = r.url]
    BY <2>1, <2>4, BlankRounds
  <2>6. request'.url = r.url /\ request'.method = r.method
    BY <1>1, <2>5, RequestSet DEF RequestField, OnUrl
  <2>7. HasUrl(r, 0)'
    BY <2>6 DEF HasUrl, AgreesUpTo
  <2>8. CASE 0 = Len(r.params)
    <3>1. NextWord("BEFORE_PROTOCOL")
      BY <2>3, <2>4, <2>8, BlankIs, BlankRounds
    <3>2. state' = "BEFORE_PROTOCOL" /\ start' = end + 1 /\ end' = end + 1 /\ pc' = "parse"
      BY <1>1, <3>1 DEF NextWord, Goto
    <3> QED
      BY <2>2, <2>7, <2>8, <3>2 DEF OnProtocol, AtPlace
  <2>9. CASE 0 # Len(r.params)
    <3>1. NextWord("BEFORE_URL_PARAM_KEY")
      BY <2>3, <2>4, <2>9, BlankRounds
    <3>2. state' = "BEFORE_URL_PARAM_KEY" /\ start' = end + 1 /\ end' = end + 1 /\ pc' = "parse"
      BY <1>1, <3>1 DEF NextWord, Goto
    <3>3. PICK i \in 1 .. Len(r.params) : i = 1 /\ i - 1 = 0
      BY <1>3, <2>9
    <3>4. ParamAt(r, i) = end
      BY <2>1, <3>3
    <3>5. OnParam(r, i)'
      BY <2>7, <3>2, <3>3, <3>4 DEF OnParam, AtPlace
    <3> QED
      BY <3>2, <3>5
  <2> QED
    BY <2>8, <2>9
<1> QED
  BY <1>3, <1>4, <1>5, <1>6 DEF OnUrl

LEMMA ParamStep ==
    ASSUME NEW r, Reads(r), NEW i \in 1 .. Len(r.params), OnParam(r, i)
    PROVE  pc' = "parse" /\ ((\E j \in 1 .. Len(r.params) : OnParam(r, j)') \/ OnProtocol(r)')
<1> DEFINE key == r.params[i][1]
           value == r.params[i][2]
<1>1. Inv /\ Parsing /\ ParaseRequest /\ WellFormed(r) /\ PartsAtPlaces(r, msg) /\ pc = "parse"
  BY DEF Reads, Parsing
<1>2. PICK place \in Nat, equal \in Nat, k \in Nat, v \in Nat : ParamIsAt(r, msg, i, place, equal, k, v)
  BY <1>1, ParamOccurs
<1>3. /\ place = ParamAt(r, i) /\ k = Len(key) /\ v = Len(value) /\ equal = place + 1 + k
      /\ ParamAt(r, i + 1) = equal + 1 + v
      /\ Occurs(msg, key, place + 1) /\ Occurs(msg, value, equal + 1)
  BY <1>2 DEF ParamIsAt, WordAt
<1>4. equal <= Len(msg) /\ msg[equal] = "="
  BY <1>2, <1>3 DEF ParamIsAt, WordAt
<1>5. Without(key, White \cup {"="}) /\ Without(value, White \cup {"&"}) /\ k > 0 /\ v > 0
  <2>1. /\ Without(key, White \cup {"="}) /\ Len(key) \in Nat \ {0}
        /\ Without(value, White \cup {"&"}) /\ Len(value) \in Nat \ {0}
    BY <1>1, WordChars, Zenon
  <2>2. k \in Nat \ {0} /\ v \in Nat \ {0}
    BY <1>3, <2>1, Zenon
  <2>3. k > 0 /\ v > 0
    BY <2>2
  <2> QED
    BY <2>1, <2>3, Zenon
<1>6. Len(msg) \in Nat /\ end \in Nat /\ Len(r.params) \in Nat
  BY <1>1, CharTypes, WordTypes
<1>7. PICK first \in Nat, begin \in Nat : /\ first = place + 1 /\ begin = equal + 1
                                          /\ Occurs(msg, key, first) /\ Occurs(msg, value, begin)
  BY <1>3
<1>8. /\ HasUrl(r, i - 1)
      /\ \/ state = "BEFORE_URL_PARAM_KEY" /\ start = first /\ end = first
         \/ state = "URL_PARAM_KEY" /\ start = first /\ end \in first + 1 .. first + k
         \/ state = "BEFORE_URL_PARAM_VALUE" /\ start = first /\ colon = equal /\ end = equal + 1
         \/ /\ state = "URL_PARAM_VALUE"
            /\ start = first /\ colon = equal /\ end \in equal + 2 .. equal + 1 + v
  BY <1>3, <1>7 DEF OnParam, AtPlace, InWord
<1>9. ASSUME pc' = "parse", HasUrl(r, i - 1)',
             \/ state' = "URL_PARAM_KEY" /\ start' = first /\ end' \in first + 1 .. first + k
             \/ state' = "BEFORE_URL_PARAM_VALUE" /\ start' = first /\ colon' = equal /\ end' = equal + 1
             \/ /\ state' = "URL_PARAM_VALUE"
                /\ start' = first /\ colon' = equal /\ end' \in equal + 2 .. equal + 1 + v
      PROVE  pc' = "parse" /\ OnParam(r, i)'
  BY <1>3, <1>7, <1>9 DEF OnParam, AtPlace, InWord
<1> HIDE DEF key, value
<1>10. CASE state = "BEFORE_URL_PARAM_KEY" /\ start = first /\ end = first
  <2>1. end \in first .. first + k - 1
    BY <1>5, <1>10
  <2>2. ch \notin White \cup {"="}
    BY <1>1, <1>3, <1>5, <1>7, <2>1, WordRead, Zenon
  <2>3. Stay("URL_PARAM_KEY")
    BY <1>1, <1>10, <2>2, Rounds
  <2>4. /\ state' = "URL_PARAM_KEY" /\ start' = first /\ end' = first + 1 /\ pc' = "parse"
        /\ UNCHANGED request
    BY <1>1, <1>10, <2>3 DEF Stay, Goto
  <2> QED
    BY <1>5, <1>8, <1>9, <2>4, SameUrl
<1>11. CASE state = "URL_PARAM_KEY" /\ start = first /\ end \in first + 1 .. first + k /\ end # first + k
  <2>1. end \in first .. first + k - 1 /\ end + 1 \in first + 1 .. first + k
    BY <1>11
  <2>2. ch \notin {"=", Blank}
    <3>1. ch \notin White \cup {"="}
      BY <1>1, <1>3, <1>5, <1>7, <2>1, WordRead, Zenon
    <3> QED
      BY <3>1, BlankIs
  <2>3. Stay("URL_PARAM_KEY")
    BY <1>1, <1>11, <2>2, Rounds
  <2>4. /\ state' = "URL_PARAM_KEY" /\ start' = first /\ end' = end + 1 /\ pc' = "parse"
        /\ UNCHANGED request
    BY <1>1, <1>11, <2>3 DEF Stay, Goto
  <2> QED
    BY <1>8, <1>9, <2>1, <2>4, SameUrl
<1>12. CASE state = "URL_PARAM_KEY" /\ start = first /\ end = first + k
  <2>1. end = equal
    BY <1>3, <1>7, <1>12
  <2>2. ch = "="
    BY <1>1, <1>4, <2>1, CharRead
  <2>3. MarkColon
    BY <1>1, <1>12, <2>2, BlankIs, Rounds
  <2>4. /\ state' = "BEFORE_URL_PARAM_VALUE" /\ start' = first /\ colon' = equal /\ end' = equal + 1 /\ pc' = "parse"
        /\ UNCHANGED request
    BY <1>1, <1>12, <2>1, <2>3 DEF MarkColon, At, Goto
  <2> QED
    BY <1>8, <1>9, <2>4, SameUrl
<1>13. CASE state = "BEFORE_URL_PARAM_VALUE" /\ start = first /\ colon = equal /\ end = equal + 1
  <2>1. end \in begin .. begin + v - 1
    BY <1>5, <1>7, <1>13
  <2>2. ch \notin White \cup {"&"}
    BY <1>1, <1>3, <1>5, <1>7, <2>1, WordRead, Zenon
  <2>3. Stay("URL_PARAM_VALUE")
    BY <1>1, <1>13, <2>2, Rounds
  <2>4. /\ state' = "URL_PARAM_VALUE" /\ start' = first /\ colon' = equal /\ end' = equal + 2 /\ pc' = "parse"
        /\ UNCHANGED request
    BY <1>1, <1>13, <2>3 DEF Stay, Goto
  <2> QED
    BY <1>5, <1>8, <1>9, <2>4, SameUrl
<1>14. CASE /\ state = "URL_PARAM_VALUE" /\ start = first /\ colon = equal
            /\ end \in equal + 2 .. equal + 1 + v /\ end # equal + 1 + v
  <2>1. end \in begin .. begin + v - 1 /\ end + 1 \in equal + 2 .. equal + 1 + v
    BY <1>7, <1>14
  <2>2. ch \notin {"&", Blank}
    <3>1. ch \notin White \cup {"&"}
      BY <1>1, <1>3, <1>5, <1>7, <2>1, WordRead, Zenon
    <3> QED
      BY <3>1, BlankIs
  <2>3. Stay("URL_PARAM_VALUE")
    BY <1>1, <1>14, <2>2, Rounds
  <2>4. /\ state' = "URL_PARAM_VALUE" /\ start' = first /\ colon' = equal /\ end' = end + 1 /\ pc' = "parse"
        /\ UNCHANGED request
    BY <1>1, <1>14, <2>3 DEF Stay, Goto
  <2> QED
    BY <1>8, <1>9, <2>1, <2>4, SameUrl
<1>15. CASE state = "URL_PARAM_VALUE" /\ start = first /\ colon = equal /\ end = equal + 1 + v
  <2>1. end = ParamAt(r, i + 1) /\ Word(start, colon) = key /\ Word(colon + 1, end) = value
    <3>1. Word(first, equal) = key
      BY <1>1, <1>3, <1>7, WordIs
    <3>2. PICK last \in Nat : last = begin + v
      OBVIOUS
    <3>3. Word(begin, last) = value
      BY <1>1, <1>3, <1>7, <3>2, WordIs
    <3> QED
      BY <1>3, <1>7, <1>15, <3>1, <3>2, <3>3
  <2>2. /\ end <= Len(msg) /\ msg[end] = IF i = Len(r.params) THEN Blank ELSE "&"
        /\ i = Len(r.params) => ProtocolAt(r) = end + 1
    BY <1>1, <2>1, ParamEnds
  <2>3. ch = IF i = Len(r.params) THEN Blank ELSE "&"
    BY <1>1, <2>2, CharRead
  <2>4. SetRequestParams
    BY <1>1, <1>15, <2>3, Rounds
  <2>5. request' = [request EXCEPT !["params"] = Put(request.params, key, value)]
    BY <2>1, <2>4, BlankRounds
  <2>6. /\ request'.params = Put(request.params, key, value)
        /\ request'.url = request.url /\ request'.method = request.method
    BY <1>1, <2>5, RequestSet DEF RequestField
  <2>7. AgreesUpTo(request'.params, r.params, i)
    BY <1>8, <2>6, AgreesMore DEF HasUrl, key, value
  <2>8. HasUrl(r, i)'
    BY <1>8, <2>6, <2>7 DEF HasUrl, AgreesUpTo
  <2>9. CASE i = Len(r.params)
    <3>1. NextWord("BEFORE_PROTOCOL")
      BY <2>3, <2>4, <2>9, BlankIs, BlankRounds
    <3>2. state' = "BEFORE_PROTOCOL" /\ start' = end + 1 /\ end' = end + 1 /\ pc' = "parse"
      BY <1>1, <3>1 DEF NextWord, Goto
    <3> QED
      BY <2>2, <2>8, <2>9, <3>2 DEF OnProtocol, AtPlace
  <2>10. CASE i # Len(r.params)
    <3>1. NextWord("BEFORE_URL_PARAM_KEY")
      BY <2>3, <2>4, <2>10, BlankRounds
    <3>2. state' = "BEFORE_URL_PARAM_KEY" /\ start' = end + 1 /\ end' = end + 1 /\ pc' = "parse"
      BY <1>1, <3>1 DEF NextWord, Goto
    <3>3. PICK j \in 1 .. Len(r.params) : j = i + 1 /\ j - 1 = i
      BY <1>6, <2>10
    <3>4. ParamAt(r, j) = end
      BY <2>1, <3>3
    <3>5. OnParam(r, j)'
      BY <2>8, <3>2, <3>3, <3>4 DEF OnParam, AtPlace
    <3> QED
      BY <3>2, <3>5
  <2> QED
    BY <2>9, <2>10
<1> QED
  BY <1>8, <1>10, <1>11, <1>12, <1>13, <1>14, <1>15

LEMMA ProtocolStep ==
    ASSUME NEW r, Reads(r), OnProtocol(r)
    PROVE  pc' = "parse" /\ (OnProtocol(r)' \/ OnVersion(r)')
<1>1. Inv /\ Parsing /\ ParaseRequest /\ WellFormed(r) /\ PartsAtPlaces(r, msg) /\ pc = "parse"
  BY DEF Reads, Parsing
<1>2. PICK u \in Nat, n \in Nat, p \in Nat, q \in Nat, w \in Nat, v \in Nat : LineIsAt(r, msg, u, n, p, q, w, v)
  BY <1>1, LineOccurs
<1>3. /\ n = ProtocolAt(r) /\ p = Len(r.protocol) /\ q = n + p + 1 /\ q = VersionAt(r)
      /\ Occurs(msg, r.protocol, n)
  BY <1>2 DEF LineIsAt, WordAt
<1>4. n + p <= Len(msg) /\ msg[n + p] = "/"
  BY <1>2, <1>3 DEF LineIsAt, WordAt
<1>5. Without(r.protocol, {"/", Blank}) /\ p \in Nat \ {0}
  BY <1>1, <1>3, WordChars, Zenon
<1>6. Len(msg) \in Nat /\ end \in Nat
  BY <1>1, CharTypes
<1>7. /\ HasUrl(r, Len(r.params))
      /\ \/ state = "BEFORE_PROTOCOL" /\ start = n /\ end = n
         \/ state = "PROTOCOL" /\ start = n /\ end \in n + 1 .. n + p
  BY <1>3 DEF OnProtocol, AtPlace, InWord
<1>8. CASE end # n + p
  <2>1. end \in n .. n + p - 1 /\ end + 1 \in n + 1 .. n + p /\ start = n
    BY <1>5, <1>7, <1>8
  <2>2. ch \notin {"/", Blank}
    BY <1>1, <1>3, <1>5, <2>1, WordRead, Zenon
  <2>3. Stay("PROTOCOL")
    BY <1>1, <1>7, <2>2, Rounds
  <2>4. state' = "PROTOCOL" /\ start' = n /\ end' = end + 1 /\ pc' = "parse" /\ UNCHANGED request
    BY <1>1, <2>1, <2>3 DEF Stay, Goto
  <2>5. HasUrl(r, Len(r.params))'
    BY <1>7, <2>4, SameUrl
  <2> QED
    BY <1>3, <2>1, <2>4, <2>5 DEF OnProtocol, InWord
<1>9. CASE end = n + p
  <2>1. state = "PROTOCOL" /\ start = n
    BY <1>5, <1>7, <1>9
  <2>2. ch = "/"
    BY <1>1, <1>4, <1>9, CharRead
  <2>3. SetProtocol
    BY <1>1, <2>1, <2>2, Rounds
  <2>4. Word(start, end) = r.protocol
    BY <1>1, <1>3, <1>6, <1>9, <2>1, WordIs
  <2>5. request' = [request EXCEPT !["protocol"] = r.protocol] /\ NextWord("BEFORE_VERSION")
    BY <2>3, <2>4 DEF SetProtocol
  <2>6. /\ request'.protocol = r.protocol /\ request'.params = request.params
        /\ request'.url = request.url /\ request'.method = request.method
    BY <1>1, <2>5, RequestSet DEF RequestField
  <2>7. HasUrl(r, Len(r.params))'
    BY <1>7, <2>6 DEF HasUrl, AgreesUpTo
  <2>8. state' = "BEFORE_VERSION" /\ start' = q /\ end' = q /\ pc' = "parse"
    BY <1>1, <1>3, <1>9, <2>5 DEF NextWord, Goto
  <2> QED
    BY <1>3, <2>6, <2>7, <2>8 DEF OnVersion, AtPlace
<1> QED
  BY <1>8, <1>9

LEMMA VersionChars ==
    ASSUME NEW w \in Version
    PROVE  /\ w \in Seq(Char) /\ Len(w) = 3 /\ w[1] \in Digit
           /\ \A k \in 1 .. 3 : w[k] \in Digit \cup {"."}
<1>1. w \in Seq(Char)
  <2>1. {"0", "1", "."} \subseteq Char
    BY DEF Char, Digit
  <2>2. <<"1", ".", "0">> \in Seq(Char) /\ <<"1", ".", "1">> \in Seq(Char)
    BY <2>1
  <2> QED
    BY <2>2 DEF Version
<1>2. CASE w = <<"1", ".", "0">>
  <2>1. w[1] = "1" /\ w[2] = "." /\ w[3] = "0" /\ Len(w) = 3
    BY <1>2
  <2> QED
    BY <1>1, <2>1 DEF Digit
<1>3. CASE w = <<"1", ".", "1">>
  <2>1. w[1] = "1" /\ w[2] = "." /\ w[3] = "1" /\ Len(w) = 3
    BY <1>3
  <2> QED
    BY <1>1, <2>1 DEF Digit
<1> QED
  BY <1>2, <1>3 DEF Version

LEMMA VersionStep ==
    ASSUME NEW r, Reads(r), OnVersion(r)
    PROVE  pc' = "parse" /\ (OnVersion(r)' \/ (\E i \in 0 .. Len(r.headers) : OnLine(r, i)'))
<1>1. Inv /\ Parsing /\ ParaseRequest /\ WellFormed(r) /\ PartsAtPlaces(r, msg) /\ pc = "parse"
  BY DEF Reads, Parsing
<1>2. PICK u \in Nat, n \in Nat, p \in Nat, q \in Nat, w \in Nat, v \in Nat : LineIsAt(r, msg, u, n, p, q, w, v)
  BY <1>1, LineOccurs
<1>3. /\ q = VersionAt(r) /\ w = Len(r.version) /\ v = q + w /\ HeaderAt(r, 1) = v + 2
      /\ Occurs(msg, r.version, q)
  BY <1>2 DEF LineIsAt, WordAt
<1>4. v <= Len(msg) /\ msg[v] = "CR"
  BY <1>2, <1>3 DEF LineIsAt, WordAt
<1>5. r.version \in Version /\ w = 3
  <2>1. r.version \in Version
    BY <1>1, Zenon DEF WellFormed
  <2> QED
    BY <1>3, <2>1, VersionChars
<1>6. Len(msg) \in Nat /\ end \in Nat /\ Len(r.headers) \in Nat
  BY <1>1, CharTypes, WordTypes
<1>7. /\ HasUrl(r, Len(r.params)) /\ request.protocol = r.protocol
      /\ \/ state = "BEFORE_VERSION" /\ start = q /\ end = q
         \/ state = "VERSION" /\ start = q /\ end \in q + 1 .. v
  BY <1>3 DEF OnVersion, AtPlace, InWord
<1>8. CASE end # v
  <2>1. end \in q .. q + w - 1 /\ end + 1 \in q + 1 .. v /\ start = q /\ end - q + 1 \in 1 .. 3
    BY <1>3, <1>5, <1>7, <1>8
  <2>2. ch = r.version[end - q + 1]
    <3>1. Without(r.version, {})
      BY DEF Without
    <3> QED
      BY <1>1, <1>3, <2>1, <3>1, WordRead, Zenon
  <2>3. ch \in Digit \cup {"."} /\ (end = q => ch \in Digit)
    <3>1. end = q => end - q + 1 = 1
      BY <1>6
    <3> QED
      BY <1>5, <2>1, <2>2, <3>1, VersionChars
  <2>4. ch # "CR"
    BY <2>3 DEF Digit
  <2>5. Stay("VERSION")
    BY <1>1, <1>7, <2>3, <2>4, Rounds
  <2>6. state' = "VERSION" /\ start' = q /\ end' = end + 1 /\ pc' = "parse" /\ UNCHANGED request
    BY <1>1, <2>1, <2>5 DEF Stay, Goto
  <2>7. HasUrl(r, Len(r.params))'
    BY <1>7, <2>6, SameUrl
  <2> QED
    BY <1>3, <1>7, <2>1, <2>6, <2>7 DEF OnVersion, InWord
<1>9. CASE end = v
  <2>1. state = "VERSION" /\ start = q
    <3>1. end # q
      <4>1. v = q + w
        BY <1>3
      <4>2. v = q + 3
        BY <1>5, <4>1
      <4> QED
        BY <1>9, <4>2
    <3> QED
      BY <1>7, <3>1
  <2>2. ch = "CR"
    BY <1>1, <1>4, <1>9, CharRead
  <2>3. SetVersion
    <3>1. ch \notin Digit \cup {"."}
      BY <2>2 DEF Digit
    <3> QED
      BY <1>1, <2>1, <2>2, <3>1, Rounds
  <2>4. Word(start, end) = r.version
    BY <1>1, <1>3, <1>6, <1>9, <2>1, WordIs
  <2>5. request' = [request EXCEPT !["version"] = r.version] /\ NextWord("WHEN_CR")
    BY <1>5, <2>3, <2>4 DEF SetVersion
  <2>6. /\ request'.version = r.version /\ request'.protocol = request.protocol
        /\ request'.params = request.params
        /\ request'.url = request.url /\ request'.method = request.method
    BY <1>1, <2>5, RequestSet DEF RequestField
  <2>7. HasUrl(r, Len(r.params))'
    BY <1>7, <2>6 DEF HasUrl, AgreesUpTo
  <2>8. HasLine(r, 0)'
    BY <1>7, <2>6, <2>7 DEF HasLine, AgreesUpTo
  <2>9. PICK i \in 0 .. Len(r.headers) : i = 0
    BY <1>6
  <2>10. state' = "WHEN_CR" /\ end' = HeaderAt(r, i + 1) - 1 /\ pc' = "parse"
    BY <1>1, <1>3, <1>9, <2>5, <2>9 DEF NextWord, Goto
  <2>11. OnLine(r, i)'
    BY <2>8, <2>9, <2>10 DEF OnLine
  <2> QED
    BY <2>10, <2>11
<1> QED
  BY <1>8, <1>9

LEMMA LineStep ==
    ASSUME NEW r, Reads(r), NEW i \in 0 .. Len(r.headers), OnLine(r, i)
    PROVE  pc' = "parse" /\ (OnLine(r, i)' \/ (\E j \in 1 .. Len(r.headers) : OnHeader(r, j)') \/ OnBody(r)')
<1>1. Inv /\ Parsing /\ ParaseRequest /\ WellFormed(r) /\ PartsAtPlaces(r, msg) /\ pc = "parse" /\ HasLine(r, i)
  BY DEF Reads, Parsing, OnLine
<1>2. Len(msg) \in Nat /\ end \in Nat /\ Len(r.headers) \in Nat
  BY <1>1, CharTypes, WordTypes
<1>3. CASE state = "WHEN_CR" /\ end = HeaderAt(r, i + 1) - 1
  <2>1. PICK q \in Nat : q + 1 = HeaderAt(r, i + 1) /\ q <= Len(msg) /\ msg[q] = "LF"
    BY <1>1, LineEndOccurs
  <2>2. end = q
    BY <1>3, <2>1
  <2>3. ch = "LF"
    BY <1>1, <2>1, <2>2, CharRead
  <2>4. EndLine
    BY <1>1, <1>3, <2>3, Rounds
  <2>5. /\ state' = "CR_LF" /\ start' = HeaderAt(r, i + 1) /\ end' = HeaderAt(r, i + 1) /\ pc' = "parse"
        /\ UNCHANGED request
    BY <1>1, <2>1, <2>2, <2>4 DEF EndLine, NextWord, Goto
  <2>6. HasLine(r, i)'
    BY <1>1, <2>5, SameLine
  <2> QED
    BY <2>5, <2>6 DEF OnLine, AtPlace
<1>4. CASE state = "CR_LF" /\ AtPlace(HeaderAt(r, i + 1)) /\ i = Len(r.headers)
  <2>1. PICK b \in Nat, n \in Nat : BodyIsAt(r, msg, b, n)
    BY <1>1, BodyOccurs
  <2>2. end = b /\ b + 2 = BodyAt(r) /\ b <= Len(msg) /\ msg[b] = "CR"
    BY <1>4, <2>1 DEF BodyIsAt, AtPlace
  <2>3. ch = "CR"
    BY <1>1, <2>2, CharRead
  <2>4. Stay("CR_LF_CR")
    BY <1>1, <1>4, <2>3, BlankIs, Rounds
  <2>5. state' = "CR_LF_CR" /\ end' = BodyAt(r) - 1 /\ pc' = "parse" /\ UNCHANGED request
    BY <1>1, <2>2, <2>4 DEF Stay, Goto
  <2>6. HasLine(r, i)'
    BY <1>1, <2>5, SameLine
  <2> QED
    BY <1>4, <2>5, <2>6 DEF OnBody
<1>5. CASE state = "CR_LF" /\ AtPlace(HeaderAt(r, i + 1)) /\ i # Len(r.headers)
  <2>1. PICK j \in 1 .. Len(r.headers) : j = i + 1 /\ j - 1 = i
    BY <1>2, <1>5
  <2>2. PICK place \in Nat, mark \in Nat, k \in Nat, v \in Nat : HeaderIsAt(r, msg, j, place, mark, k, v)
    BY <1>1, HeaderOccurs
  <2>3. place = HeaderAt(r, j) /\ k = Len(r.headers[j][1]) /\ Occurs(msg, r.headers[j][1], place)
    BY <2>2 DEF HeaderIsAt, WordAt
  <2>4. Without(r.headers[j][1], White \cup {":"}) /\ k \in Nat \ {0}
    BY <1>1, <2>3, WordChars, Zenon
  <2>5. start = place /\ end = place /\ end \in place .. place + k - 1
    BY <1>5, <2>1, <2>3, <2>4 DEF AtPlace
  <2>6. ch \notin White \cup {":"}
    BY <1>1, <2>3, <2>4, <2>5, WordRead, Zenon
  <2>7. ch # "CR" /\ ch # Blank
    BY <2>6, BlankIs DEF White
  <2>8. Stay("HEADER_KEY")
    BY <1>1, <1>5, <2>7, Rounds
  <2>9. state' = "HEADER_KEY" /\ start' = place /\ end' = place + 1 /\ pc' = "parse" /\ UNCHANGED request
    BY <1>1, <2>5, <2>8 DEF Stay, Goto
  <2>10. HasLine(r, j - 1)'
    BY <1>1, <2>1, <2>9, SameLine
  <2>11. end' \in place + 1 .. place + Len(r.headers[j][1])
    BY <2>3, <2>4, <2>9
  <2>12. OnHeader(r, j)'
    BY <2>3, <2>9, <2>10, <2>11 DEF OnHeader, InWord
  <2> QED
    BY <2>9, <2>12
<1> QED
  BY <1>3, <1>4, <1>5 DEF OnLine

LEMMA HeaderStep ==
    ASSUME NEW r, Reads(r), NEW i \in 1 .. Len(r.headers), OnHeader(r, i)
    PROVE  pc' = "parse" /\ (OnHeader(r, i)' \/ OnLine(r, i)')
<1> DEFINE key == r.headers[i][1]
           value == r.headers[i][2]
<1>1. Inv /\ Parsing /\ ParaseRequest /\ WellFormed(r) /\ PartsAtPlaces(r, msg) /\ pc = "parse"
  BY DEF Reads, Parsing
<1>2. PICK place \in Nat, mark \in Nat, k \in Nat, v \in Nat : HeaderIsAt(r, msg, i, place, mark, k, v)
  BY <1>1, HeaderOccurs
<1>3. /\ place = HeaderAt(r, i) /\ k = Len(key) /\ v = Len(value) /\ mark = place + k
      /\ HeaderAt(r, i + 1) = mark + 2 + v + 2
      /\ Occurs(msg, key, place) /\ Occurs(msg, value, mark + 2)
  BY <1>2 DEF HeaderIsAt, WordAt
<1>4. mark <= Len(msg) /\ msg[mark] = ":" /\ mark + 1 <= Len(msg) /\ msg[mark + 1] = Blank
  BY <1>2, <1>3 DEF HeaderIsAt, WordAt
<1>5. mark + 2 + v <= Len(msg) /\ msg[mark + 2 + v] = "CR"
  BY <1>2, <1>3 DEF HeaderIsAt, WordAt
<1>6. Without(key, White \cup {":"}) /\ Without(value, {"CR"})
  BY <1>1, WordChars, Zenon
<1>7. Len(msg) \in Nat /\ end \in Nat
  BY <1>1, CharTypes
<1>m. mark = place + k
  BY <1>3
<1>b. PICK begin \in Nat, last \in Nat : begin = mark + 2 /\ last = mark + 2 + v
  OBVIOUS
<1>8. begin = mark + 2 /\ last = mark + 2 + v /\ Occurs(msg, value, begin)
  BY <1>3, <1>b
<1>9. /\ HasLine(r, i - 1)
      /\ \/ state = "HEADER_KEY" /\ start = place /\ end \in place + 1 .. mark
         \/ state = "HEADER_VALUE" /\ start = place /\ colon = mark /\ end \in mark + 1 .. last
  BY <1>3, <1>8 DEF OnHeader, InWord
<1>10. ASSUME pc' = "parse", HasLine(r, i - 1)',
              \/ state' = "HEADER_KEY" /\ start' = place /\ end' \in place + 1 .. mark
              \/ state' = "HEADER_VALUE" /\ start' = place /\ colon' = mark /\ end' \in mark + 1 .. last
       PROVE  pc' = "parse" /\ OnHeader(r, i)'
  BY <1>3, <1>8, <1>10 DEF OnHeader, InWord
<1> HIDE DEF key, value
<1>11. CASE state = "HEADER_KEY" /\ start = place /\ end \in place + 1 .. mark /\ end # mark
  <2>1. end \in place .. place + k - 1 /\ end + 1 \in place + 1 .. mark
    BY <1>m, <1>11
  <2>2. ch \notin White \cup {":"}
    BY <1>1, <1>3, <1>6, <2>1, WordRead, Zenon
  <2>3. Stay("HEADER_KEY")
    BY <1>1, <1>11, <2>2, Rounds
  <2>4. state' = "HEADER_KEY" /\ start' = place /\ end' = end + 1 /\ pc' = "parse" /\ UNCHANGED request
    BY <1>1, <1>11, <2>3 DEF Stay, Goto
  <2> QED
    BY <1>9, <1>10, <2>1, <2>4, SameLine
<1>12. CASE state = "HEADER_KEY" /\ start = place /\ end = mark
  <2>1. ch = ":"
    BY <1>1, <1>4, <1>12, CharRead
  <2>2. MarkColon
    BY <1>1, <1>12, <2>1, Rounds
  <2>3. /\ state' = "HEADER_VALUE" /\ start' = place /\ colon' = mark /\ end' = mark + 1 /\ pc' = "parse"
        /\ UNCHANGED request
    BY <1>1, <1>12, <2>2 DEF MarkColon, At, Goto
  <2>4. end' \in mark + 1 .. last
    BY <1>8, <2>3
  <2> QED
    BY <1>9, <1>10, <2>3, <2>4, SameLine
<1>13. CASE state = "HEADER_VALUE" /\ start = place /\ colon = mark /\ end \in mark + 1 .. last /\ end # last
  <2>1. ch # "CR"
    <3>1. CASE end = mark + 1
      BY <1>1, <1>4, <3>1, CharRead, BlankIs
    <3>2. CASE end # mark + 1
      <4>1. end \in begin .. begin + v - 1
        BY <1>8, <1>13, <3>2
      <4>2. ch \notin {"CR"}
        BY <1>1, <1>3, <1>6, <1>8, <4>1, WordRead, Zenon
      <4> QED
        BY <4>2
    <3> QED
      BY <3>1, <3>2
  <2>2. Stay("HEADER_VALUE")
    BY <1>1, <1>13, <2>1, Rounds
  <2>3. /\ state' = "HEADER_VALUE" /\ start' = place /\ colon' = mark /\ end' = end + 1 /\ pc' = "parse"
        /\ UNCHANGED request
    BY <1>1, <1>13, <2>2 DEF Stay, Goto
  <2>4. end' \in mark + 1 .. last
    BY <1>13, <2>3
  <2> QED
    BY <1>9, <1>10, <2>3, <2>4, SameLine
<1>14. CASE state = "HEADER_VALUE" /\ start = place /\ colon = mark /\ end = last
  <2>1. ch = "CR" /\ end > colon + 1
    BY <1>1, <1>5, <1>8, <1>14, CharRead
  <2>2. AddHeader
    BY <1>1, <1>14, <2>1, Rounds
  <2>3. Word(start, colon) = key /\ Word(colon + 2, end) = value
    <3>1. Word(place, mark) = key
      BY <1>1, <1>3, WordIs
    <3>2. Word(begin, last) = value
      BY <1>1, <1>3, <1>8, WordIs
    <3> QED
      BY <1>8, <1>14, <3>1, <3>2
  <2>4. /\ request' = [request EXCEPT !["headers"] = Put(request.headers, key, value)]
        /\ NextWord("WHEN_CR")
    <3>1. end # colon + 1
      BY <1>7, <1>14, <2>1
    <3> QED
      BY <2>2, <2>3, <3>1 DEF AddHeader
  <2>5. /\ request'.headers = Put(request.headers, key, value)
        /\ request'.version = request.version /\ request'.protocol = request.protocol
        /\ request'.params = request.params
        /\ request'.url = request.url /\ request'.method = request.method
    BY <1>1, <2>4, RequestSet DEF RequestField
  <2>6. AgreesUpTo(request'.headers, r.headers, i)
    BY <1>9, <2>5, AgreesMore DEF HasLine, key, value
  <2>7. HasUrl(r, Len(r.params))'
    BY <1>9, <2>5 DEF HasLine, HasUrl, AgreesUpTo
  <2>8. HasLine(r, i)'
    BY <1>9, <2>5, <2>6, <2>7 DEF HasLine, AgreesUpTo
  <2>9. state' = "WHEN_CR" /\ end' = last + 1 /\ pc' = "parse"
    BY <1>1, <1>14, <2>4 DEF NextWord, Goto
  <2>10. end' = HeaderAt(r, i + 1) - 1
    BY <1>3, <1>8, <2>9
  <2> QED
    BY <2>8, <2>9, <2>10 DEF OnLine
<1> QED
  BY <1>9, <1>11, <1>12, <1>13, <1>14

LEMMA BodyStep ==
    ASSUME NEW r, Reads(r), OnBody(r)
    PROVE  pc' = "parse" /\ OnBody(r)'
<1>1. /\ Inv /\ Parsing /\ ParaseRequest /\ WellFormed(r) /\ PartsAtPlaces(r, msg) /\ pc = "parse"
      /\ HasLine(r, Len(r.headers)) /\ state # "COMPLETE"
  BY DEF Reads, Parsing, OnBody
<1>2. PICK b \in Nat, n \in Nat : BodyIsAt(r, msg, b, n)
  BY <1>1, BodyOccurs
<1>3. /\ b + 2 = BodyAt(r) /\ n = Len(r.body) /\ b + 1 <= Len(msg) /\ msg[b + 1] = "LF"
      /\ Occurs(msg, r.body, b + 2) /\ b + 2 + n = Len(msg) + 1
  BY <1>2 DEF BodyIsAt
<1>4. Len(msg) \in Nat /\ end \in Nat
  BY <1>1, CharTypes
<1>5. PICK first \in Nat : first = b + 2 /\ first = BodyAt(r) /\ Occurs(msg, r.body, first)
  BY <1>3
<1>6. CASE state = "CR_LF_CR" /\ end = first - 1
  <2>1. end = b + 1
    BY <1>5, <1>6
  <2>2. ch = "LF"
    BY <1>1, <1>3, <2>1, CharRead
  <2>3. EndHeaders
    BY <1>1, <1>6, <2>2, Rounds
  <2> DEFINE Positively == Positive(request.headers[ContentLength])
             HasBody == IF ContentLength \in DOMAIN request.headers THEN Positively ELSE end - 1 < Len(msg)
  <2>4. NextWord(IF HasBody THEN "BODY" ELSE "COMPLETE") /\ UNCHANGED request
    BY <2>3, Zenon DEF EndHeaders
  <2>5. HasLine(r, Len(r.headers))'
    BY <1>1, <2>4, SameLine
  <2>6. CASE HasBody
    <3>1. state' = "BODY" /\ start' = first /\ end' = first /\ pc' = "parse"
      BY <1>1, <1>5, <2>1, <2>4, <2>6 DEF NextWord, Goto
    <3> QED
      BY <1>5, <2>5, <3>1 DEF OnBody, AtPlace
  <2>7. CASE ~HasBody
    <3>1. state' = "COMPLETE" /\ pc' = "parse"
      BY <1>1, <2>4, <2>7 DEF NextWord, Goto
    <3>2. end - 1 < Len(msg)
      BY <1>3, <1>4, <2>1
    <3>3. ~BodyIsRead'
      BY <2>4, <2>7, <3>2, Zenon DEF BodyIsRead
    <3> QED
      BY <2>5, <3>1, <3>3 DEF OnBody
  <2> QED
    BY <2>6, <2>7
<1>7. CASE state = "BODY" /\ AtPlace(first)
  <2>1. start = first /\ end = first
    BY <1>7 DEF AtPlace
  <2>2. SetBody
    BY <1>1, <1>7, Rounds
  <2>3. Word(start, start + Len(msg) - (end - 1)) = r.body
    <3>1. PICK last \in Nat : last = first + n
      OBVIOUS
    <3>2. last = start + Len(msg) - (end - 1)
      <4>1. PICK len \in Nat : len = Len(msg)
        BY <1>4
      <4>2. b + 2 + n = len + 1 /\ first = b + 2
        BY <1>3, <1>5, <4>1
      <4>3. last = first + len - (first - 1)
        BY <3>1, <4>2
      <4> QED
        BY <2>1, <4>1, <4>3
    <3>3. Word(first, last) = r.body
      BY <1>1, <1>3, <1>5, <3>1, WordIs
    <3> QED
      BY <2>1, <3>2, <3>3
  <2>4. request' = [request EXCEPT !["body"] = r.body] /\ state' = "COMPLETE" /\ pc' = "parse"
    BY <1>1, <2>2, <2>3 DEF SetBody, Goto
  <2>5. /\ request'.body = r.body /\ request'.headers = request.headers
        /\ request'.version = request.version /\ request'.protocol = request.protocol
        /\ request'.params = request.params
        /\ request'.url = request.url /\ request'.method = request.method
    BY <1>1, <2>4, RequestSet DEF RequestField
  <2>6. HasUrl(r, Len(r.params))'
    BY <1>1, <2>5 DEF HasLine, HasUrl, AgreesUpTo
  <2>7. HasLine(r, Len(r.headers))'
    BY <1>1, <2>5, <2>6 DEF HasLine, AgreesUpTo
  <2> QED
    BY <2>4, <2>5, <2>7 DEF OnBody
<1> QED
  BY <1>1, <1>5, <1>6, <1>7 DEF OnBody

-----------------------------------------------------------------------------
LEMMA RoundStage ==
    ASSUME NEW r, Reads(r), Stage(r)
    PROVE  pc' = "parse" /\ Stage(r)'
<1>1. CASE OnMethod(r)
  BY <1>1, MethodStep DEF Stage
<1>2. CASE OnUrl(r)
  BY <1>2, UrlStep DEF Stage
<1>3. CASE \E i \in 1 .. Len(r.params) : OnParam(r, i)
  BY <1>3, ParamStep DEF Stage
<1>4. CASE OnProtocol(r)
  BY <1>4, ProtocolStep DEF Stage
<1>5. CASE OnVersion(r)
  BY <1>5, VersionStep DEF Stage
<1>6. CASE \E i \in 0 .. Len(r.headers) : OnLine(r, i)
  BY <1>6, LineStep DEF Stage
<1>7. CASE \E i \in 1 .. Len(r.headers) : OnHeader(r, i)
  <2>1. PICK i \in 1 .. Len(r.headers) : OnHeader(r, i)
    BY <1>7
  <2>2. i \in 0 .. Len(r.headers)
    OBVIOUS
  <2>3. pc' = "parse" /\ (OnHeader(r, i)' \/ OnLine(r, i)')
    BY <2>1, HeaderStep
  <2> QED
    BY <2>2, <2>3 DEF Stage
<1>8. CASE OnBody(r)
  BY <1>8, BodyStep DEF Stage
<1> QED
  BY <1>1, <1>2, <1>3, <1>4, <1>5, <1>6, <1>7, <1>8 DEF Stage

(* A request that has been sent has its words at their places.             *)
LEMMA SentIsRead ==
    ASSUME NEW r \in Request
    PROVE  WellFormed(r) /\ PartsAtPlaces(r, Sent[r])
<1>1. WellFormed(r)
  BY RequestAssumption
<1>2. Sent[r] = Text(r)
  BY DEF Sent
<1> QED
  BY <1>1, <1>2, TextParts

LEMMA StageInvStep == Inv /\ StageInv /\ [Next]_vars => StageInv'
<1> SUFFICES ASSUME Inv, StageInv, [Next]_vars, NEW r \in Request, msg' = Sent[r]
             PROVE  pc' # "thrown" /\ (pc' = "parse" => Stage(r)')
  BY DEF StageInv
<1>1. WellFormed(r) /\ PartsAtPlaces(r, Sent[r])
  BY SentIsRead
<1>2. CASE ParaseRequest
  <2>1. msg' = msg /\ Parsing /\ pc = "parse"
    BY <1>2 DEF ParaseRequest, Refuse, Move, MarkColon, SetMethod, SetUrl, SetRequestParams, SetProtocol,
                SetVersion, AddHeader, EndLine, EndHeaders, SetBody, At, Parsing, NextWord, Goto
  <2>2. Reads(r) /\ Stage(r)
    BY <1>1, <1>2, <2>1 DEF Reads, StageInv
  <2>3. pc' = "parse" /\ Stage(r)'
    BY <2>2, RoundStage
  <2> QED
    BY <2>3
<1>3. CASE \E m \in Message : Receive(m)
  <2>1. state' = "START" /\ start' = 1 /\ end' = 1 /\ pc' = "parse"
    BY <1>3 DEF Receive, Inv, IdleAtStart
  <2> QED
    BY <2>1 DEF Stage, OnMethod, AtPlace
<1>4. CASE BadRequest \/ Respond
  BY <1>4 DEF BadRequest, Respond
<1>5. CASE UNCHANGED vars
  <2>1. /\ state' = state /\ request' = request /\ start' = start /\ colon' = colon /\ end' = end
        /\ pc' = pc /\ msg' = msg
    BY <1>5 DEF vars, pointers
  <2>2. Stage(r)' = Stage(r)
    BY <2>1 DEF Stage, OnMethod, OnUrl, OnParam, OnProtocol, OnVersion, OnLine, OnHeader, OnBody, HasUrl, HasLine,
                AgreesUpTo, AtPlace, InWord, BodyIsRead
  <2> QED
    BY <2>1, <2>2 DEF StageInv
<1> QED
  BY <1>2, <1>3, <1>4, <1>5 DEF Next

(* In no stage is the request refused, and in none does the parser come to *)
(* the end of the message before the request is complete.                  *)
LEMMA StageStates ==
    ASSUME NEW r, Inv, WellFormed(r), PartsAtPlaces(r, msg), pc = "parse", Stage(r), state # "COMPLETE"
    PROVE  state # "kINVALID" /\ end <= Len(msg) + 1
<1>0. Len(msg) \in Nat /\ end \in Nat
  BY LenProperties DEF Inv, TypeOK
<1>1. CASE OnMethod(r)
  <2>1. r.method = <<"G">> /\ 2 <= Len(msg) /\ Len(<<"G">>) = 1
    BY MethodOccurs
  <2>2. end \in 1 .. 2 /\ state \in {"START", "METHOD"}
    BY <1>1, <2>1 DEF OnMethod, AtPlace, InWord
  <2> QED
    BY <1>0, <2>1, <2>2
<1>2. CASE OnUrl(r)
  <2>1. UrlAt(r) = 3 /\ Occurs(msg, r.url, 3)
    <3>1. Occurs(msg, r.url, UrlAt(r))
      BY Zenon DEF PartsAtPlaces
    <3> QED
      BY <3>1, MethodOccurs
  <2>2. PICK u \in Nat : u = Len(r.url) /\ 3 + u <= Len(msg) + 1
    BY <2>1, WordTypes, LenProperties DEF Occurs
  <2>3. end \in 3 .. 3 + u /\ state \in {"BEFORE_URL", "IN_URL"}
    BY <1>2, <2>1, <2>2 DEF OnUrl, AtPlace, InWord
  <2> QED
    BY <1>0, <2>2, <2>3
<1>3. CASE \E i \in 1 .. Len(r.params) : OnParam(r, i)
  <2>1. PICK i \in 1 .. Len(r.params) : OnParam(r, i)
    BY <1>3
  <2>2. PICK place \in Nat, equal \in Nat, k \in Nat, v \in Nat : ParamIsAt(r, msg, i, place, equal, k, v)
    BY ParamOccurs
  <2>3. /\ place = ParamAt(r, i) /\ k = Len(r.params[i][1]) /\ v = Len(r.params[i][2]) /\ equal = place + 1 + k
        /\ Occurs(msg, r.params[i][2], equal + 1)
    BY <2>2 DEF ParamIsAt
  <2>4. equal + 1 + v <= Len(msg) + 1
    BY <2>3 DEF Occurs
  <2>5. /\ end \in place + 1 .. equal + 1 + v
        /\ state \in {"BEFORE_URL_PARAM_KEY", "URL_PARAM_KEY", "BEFORE_URL_PARAM_VALUE", "URL_PARAM_VALUE"}
    <3>1. /\ state \in {"BEFORE_URL_PARAM_KEY", "URL_PARAM_KEY", "BEFORE_URL_PARAM_VALUE", "URL_PARAM_VALUE"}
          /\ \/ end = place + 1 \/ end \in place + 1 + 1 .. place + 1 + k
             \/ end = equal + 1 \/ end \in equal + 2 .. equal + 1 + v
      BY <2>1, <2>3 DEF OnParam, AtPlace, InWord
    <3>2. equal = place + 1 + k
      BY <2>3
    <3> QED
      BY <3>1, <3>2
  <2> QED
    BY <1>0, <2>4, <2>5
<1>4. CASE OnProtocol(r) \/ OnVersion(r)
  <2>1. PICK u \in Nat, n \in Nat, p \in Nat, q \in Nat, w \in Nat, v \in Nat : LineIsAt(r, msg, u, n, p, q, w, v)
    BY LineOccurs
  <2>2. /\ n = ProtocolAt(r) /\ p = Len(r.protocol) /\ q = n + p + 1 /\ q = VersionAt(r) /\ w = Len(r.version)
        /\ v = q + w /\ v + 1 <= Len(msg)
    BY <2>1 DEF LineIsAt
  <2>3. /\ state \in {"BEFORE_PROTOCOL", "PROTOCOL", "BEFORE_VERSION", "VERSION"}
        /\ end = n \/ end \in n + 1 .. n + p \/ end = q \/ end \in q + 1 .. q + w
    BY <1>4, <2>2 DEF OnProtocol, OnVersion, AtPlace, InWord
  <2>4. q = n + p + 1 /\ v = q + w /\ v + 1 <= Len(msg)
    BY <2>2
  <2>5. end <= v
    BY <2>3, <2>4
  <2>6. v <= Len(msg) + 1
    BY <1>0, <2>4
  <2> QED
    BY <1>0, <2>3, <2>5, <2>6
<1>5. CASE \E i \in 0 .. Len(r.headers) : OnLine(r, i)
  <2>1. PICK i \in 0 .. Len(r.headers) : OnLine(r, i)
    BY <1>5
  <2>2. PICK q \in Nat : q + 1 = HeaderAt(r, i + 1) /\ q <= Len(msg)
    BY LineEndOccurs
  <2>3. end \in q .. q + 1 /\ state \in {"WHEN_CR", "CR_LF"}
    BY <2>1, <2>2 DEF OnLine, AtPlace
  <2> QED
    BY <1>0, <2>2, <2>3
<1>6. CASE \E i \in 1 .. Len(r.headers) : OnHeader(r, i)
  <2>1. PICK i \in 1 .. Len(r.headers) : OnHeader(r, i)
    BY <1>6
  <2>2. PICK place \in Nat, mark \in Nat, k \in Nat, v \in Nat : HeaderIsAt(r, msg, i, place, mark, k, v)
    BY HeaderOccurs
  <2>3. /\ place = HeaderAt(r, i) /\ k = Len(r.headers[i][1]) /\ v = Len(r.headers[i][2]) /\ mark = place + k
        /\ mark + 2 + v + 1 <= Len(msg)
    BY <2>2 DEF HeaderIsAt
  <2>4. end \in place .. mark + 2 + v /\ state \in {"HEADER_KEY", "HEADER_VALUE"}
    <3>1. /\ state \in {"HEADER_KEY", "HEADER_VALUE"}
          /\ end \in place + 1 .. place + k \/ end \in mark + 1 .. mark + 2 + v
      BY <2>1, <2>3 DEF OnHeader, InWord
    <3>2. mark = place + k
      BY <2>3
    <3> QED
      BY <3>1, <3>2
  <2>5. mark + 2 + v + 1 <= Len(msg)
    BY <2>3
  <2>6. end <= mark + 2 + v
    BY <2>4
  <2> QED
    BY <1>0, <2>4, <2>5, <2>6
<1>7. CASE OnBody(r)
  <2>1. PICK b \in Nat, n \in Nat : BodyIsAt(r, msg, b, n)
    BY BodyOccurs
  <2>2. b + 2 = BodyAt(r) /\ b + 1 <= Len(msg)
    BY <2>1 DEF BodyIsAt
  <2>3. end \in b + 1 .. b + 2 /\ state \in {"CR_LF_CR", "BODY"}
    BY <1>7, <2>2 DEF OnBody, AtPlace
  <2> QED
    BY <1>0, <2>2, <2>3
<1> QED
  BY <1>1, <1>2, <1>3, <1>4, <1>5, <1>6, <1>7 DEF Stage

-----------------------------------------------------------------------------
(***************************************************************************)
(* The first request of a connection.                                      *)
(***************************************************************************)
NothingRead == pc = "idle" /\ request.body = <<>> /\ DOMAIN request.headers = {}

BodyFresh == /\ received = 0 => NothingRead
             /\ state = "BODY" => BodyIsRead
             /\ received = 1 /\ pc = "parse" => request.body = <<>> \/ (state = "COMPLETE" /\ BodyIsRead)

Keys(r) == {r.headers[i][1] : i \in 1 .. Len(r.headers)}
OwnHeaders == \A r \in Request : msg = Sent[r] /\ received = 1 /\ pc = "parse" => DOMAIN request.headers \subseteq Keys(r)

(* A round that neither reads the body nor comes to it.                    *)
LEMMA BodyStays ==
    ASSUME BodyFresh, UNCHANGED received, state # "COMPLETE", state' # "BODY",
           pc = "parse", request'.body = request.body
    PROVE  BodyFresh'
BY DEF BodyFresh, NothingRead

LEMMA MoveNoBody ==
    ASSUME NEW m \in Moves
    PROVE  m[3] # "BODY"
BY MoveLines

LEMMA BodyFreshStep == Inv /\ BodyFresh /\ [Next]_vars => BodyFresh'
<1> SUFFICES ASSUME Inv, BodyFresh, [Next]_vars
             PROVE  BodyFresh'
  OBVIOUS
<1>0. ParaseRequest => pc = "parse" /\ state # "COMPLETE" /\ received' = received
  BY DEF ParaseRequest, Refuse, Move, MarkColon, SetMethod, SetUrl, SetRequestParams, SetProtocol,
         SetVersion, AddHeader, EndLine, EndHeaders, SetBody, At, Parsing, NextWord, Goto
<1>1. CASE Refuse \/ MarkColon \/ EndLine
  <2>1. state' # "BODY" /\ request' = request
    BY <1>1 DEF Refuse, MarkColon, EndLine, NextWord, Goto
  <2> QED
    BY <1>0, <1>1, <2>1, BodyStays DEF ParaseRequest
<1>2. CASE Move
  <2>1. state' # "BODY" /\ request' = request
    BY <1>2, MoveNoBody DEF Move, Goto
  <2> QED
    BY <1>0, <1>2, <2>1, BodyStays DEF ParaseRequest
<1>3. CASE SetMethod \/ SetUrl \/ SetRequestParams \/ SetProtocol \/ SetVersion
  <2>1. state' # "BODY"
    BY <1>3 DEF SetMethod, SetUrl, SetRequestParams, SetProtocol, SetVersion, NextWord, Goto
  <2>2. PICK f \in RequestField \ {"body"} : \E x : request' = [request EXCEPT ![f] = x]
    BY <1>3 DEF SetMethod, SetUrl, SetRequestParams, SetProtocol, SetVersion, RequestField
  <2>3. request'.body = request.body
    BY <2>2, RequestSet DEF RequestField
  <2> QED
    BY <1>0, <1>3, <2>1, <2>3, BodyStays DEF ParaseRequest
<1>4. CASE AddHeader
  <2>1. state' # "BODY"
    BY <1>4 DEF AddHeader, NextWord, Goto, At
  <2>2. request' = request \/ \E x : request' = [request EXCEPT !["headers"] = x]
    BY <1>4 DEF AddHeader
  <2>3. request'.body = request.body
    BY <2>2, RequestSet DEF RequestField
  <2> QED
    BY <1>0, <1>4, <2>1, <2>3, BodyStays DEF ParaseRequest
<1>5. CASE EndHeaders
  <2> DEFINE Positively == Positive(request.headers[ContentLength])
             HasBody == IF ContentLength \in DOMAIN request.headers THEN Positively ELSE end - 1 < Len(msg)
  <2>1. /\ state' = IF HasBody THEN "BODY" ELSE "COMPLETE"
        /\ pc' = pc /\ UNCHANGED request
    BY <1>5, Zenon DEF EndHeaders, NextWord, Goto
  <2>2. HasBody => BodyIsRead
    BY DEF BodyIsRead
  <2>3. BodyIsRead' = BodyIsRead
    BY <2>1 DEF BodyIsRead
  <2> HIDE DEF HasBody
  <2>4. state' = "BODY" => BodyIsRead'
    BY <2>1, <2>2, <2>3
  <2> QED
    BY <1>0, <1>5, <2>1, <2>4 DEF BodyFresh, NothingRead, ParaseRequest
<1>6. CASE SetBody
  <2>1. state = "BODY" /\ state' = "COMPLETE" /\ \E x : request' = [request EXCEPT !["body"] = x]
    BY <1>6 DEF SetBody, Goto
  <2>2. request'.headers = request.headers
    BY <2>1, RequestSet DEF RequestField
  <2>3. BodyIsRead'
    BY <2>1, <2>2 DEF BodyFresh, BodyIsRead
  <2> QED
    BY <1>0, <1>6, <2>1, <2>3 DEF BodyFresh, NothingRead, ParaseRequest
<1>7. CASE \E m \in Message : Receive(m)
  <2>1. /\ state = "START" /\ state' = state /\ request' = request /\ received' = received + 1
        /\ received \in Nat
    BY <1>7, ConstantsAssumption DEF Receive, Inv, IdleAtStart, TypeOK
  <2>2. received' # 0 /\ (received' = 1 => received = 0)
    BY <2>1
  <2> QED
    BY <2>1, <2>2 DEF BodyFresh, NothingRead
<1>8. CASE BadRequest \/ Respond
  <2>1. pc = "parse" /\ pc' # "parse" /\ request' = request /\ received' = received
        /\ (state' = state \/ state' = "START")
    BY <1>8 DEF BadRequest, Respond
  <2> QED
    BY <2>1 DEF BodyFresh, NothingRead, BodyIsRead
<1>9. CASE UNCHANGED vars
  BY <1>9 DEF vars, BodyFresh, NothingRead, BodyIsRead
<1> QED
  BY <1>1, <1>2, <1>3, <1>4, <1>5, <1>6, <1>7, <1>8, <1>9 DEF Next, ParaseRequest

(* The key of the header that the parser is in is a key of the request.    *)
LEMMA HeaderKeyRead ==
    ASSUME NEW r, Inv, WellFormed(r), PartsAtPlaces(r, msg), NEW i \in 1 .. Len(r.headers),
           OnHeader(r, i), state = "HEADER_VALUE"
    PROVE  Word(start, colon) = r.headers[i][1]
<1>1. PICK place \in Nat, mark \in Nat, k \in Nat, v \in Nat : HeaderIsAt(r, msg, i, place, mark, k, v)
  BY HeaderOccurs
<1>2. /\ place = HeaderAt(r, i) /\ k = Len(r.headers[i][1]) /\ mark = place + k
      /\ Occurs(msg, r.headers[i][1], place)
  BY <1>1 DEF HeaderIsAt, WordAt
<1>3. start = place /\ colon = mark
  BY <1>2 DEF OnHeader
<1>4. Word(place, mark) = r.headers[i][1]
  BY <1>2, WordIs
<1> QED
  BY <1>3, <1>4

LEMMA OwnHeadersStep == Inv /\ StageInv /\ BodyFresh /\ OwnHeaders /\ [Next]_vars => OwnHeaders'
<1> SUFFICES ASSUME Inv, StageInv, BodyFresh, OwnHeaders, [Next]_vars,
                    NEW r \in Request, msg' = Sent[r], received' = 1, pc' = "parse"
             PROVE  DOMAIN request'.headers \subseteq Keys(r)
  BY DEF OwnHeaders
<1>1. CASE \E m \in Message : Receive(m)
  <2>1. received = 0 /\ request' = request
    BY <1>1, ConstantsAssumption DEF Receive, Inv, TypeOK
  <2> QED
    BY <2>1 DEF BodyFresh, NothingRead
<1>2. CASE AddHeader
  <2>1. /\ At("HEADER_VALUE", "CR") /\ pc = "parse" /\ state = "HEADER_VALUE"
        /\ request' = [request EXCEPT !["headers"] = Put(request.headers, Word(start, colon), Word(colon + 2, end))]
        /\ msg' = msg /\ received' = received
    BY <1>2 DEF AddHeader, At, Parsing, NextWord, Goto
  <2>2. WellFormed(r) /\ PartsAtPlaces(r, msg) /\ Stage(r)
    BY <2>1, SentIsRead DEF StageInv
  <2>3. PICK i \in 1 .. Len(r.headers) : OnHeader(r, i)
    BY <2>1, <2>2 DEF Stage, OnMethod, OnUrl, OnParam, OnProtocol, OnVersion, OnLine, OnBody
  <2>4. Word(start, colon) = r.headers[i][1]
    BY <2>1, <2>2, <2>3, HeaderKeyRead
  <2>5. request'.headers = Put(request.headers, Word(start, colon), Word(colon + 2, end))
    BY <2>1, RequestSet DEF RequestField
  <2>6. DOMAIN request'.headers = DOMAIN request.headers \cup {Word(start, colon)}
    BY <2>5 DEF Put
  <2>7. DOMAIN request.headers \subseteq Keys(r)
    BY <2>1 DEF OwnHeaders
  <2> QED
    BY <2>3, <2>4, <2>6, <2>7 DEF Keys
<1>3. CASE (ParaseRequest /\ ~AddHeader) \/ UNCHANGED vars
  <2>1. msg' = msg /\ received' = received /\ pc = "parse"
    BY <1>3 DEF ParaseRequest, Refuse, Move, MarkColon, SetMethod, SetUrl, SetRequestParams, SetProtocol,
                SetVersion, EndLine, EndHeaders, SetBody, At, Parsing, NextWord, Goto, vars
  <2>2. request' = request \/ \E f \in RequestField \ {"headers"} : \E x : request' = [request EXCEPT ![f] = x]
    BY <1>3 DEF ParaseRequest, Refuse, Move, MarkColon, SetMethod, SetUrl, SetRequestParams, SetProtocol,
                SetVersion, EndLine, EndHeaders, SetBody, RequestField, vars
  <2>3. request'.headers = request.headers
    BY <2>2, RequestSet DEF RequestField
  <2> QED
    BY <2>1, <2>3 DEF OwnHeaders
<1>4. CASE BadRequest \/ Respond
  BY <1>4 DEF BadRequest, Respond
<1> QED
  BY <1>1, <1>2, <1>3, <1>4 DEF Next

-----------------------------------------------------------------------------
LEMMA AllAgree ==
    ASSUME NEW map, NEW pairs, Len(pairs) \in Nat, DOMAIN pairs = 1 .. Len(pairs), AgreesUpTo(map, pairs, Len(pairs))
    PROVE  Agrees(map, pairs)
BY DEF Agrees, AgreesUpTo, IsLast

(* Of the headers of a name, one is the last.                              *)
HasLast(pairs, n, name) == \E k \in 1 .. n : pairs[k][1] = name /\ \A j \in 1 .. n : j > k => pairs[j][1] # name

LEMMA LastOfName ==
    ASSUME NEW pairs, NEW n \in Nat, NEW name, NEW i \in 1 .. n, pairs[i][1] = name
    PROVE  HasLast(pairs, n, name)
<1> DEFINE Found == HasLast(pairs, n, name)
           T == {d \in Nat : (\E k \in 1 .. n : k + d >= n /\ pairs[k][1] = name) => Found}
<1>1. 0 \in T
  <2>1. ASSUME NEW k \in 1 .. n, k + 0 >= n, pairs[k][1] = name
        PROVE  Found
    <3>1. \A j \in 1 .. n : ~(j > k)
      BY <2>1
    <3> QED
      BY <2>1, <3>1 DEF HasLast
  <2> QED
    BY <2>1
<1>2. ASSUME NEW d \in T
      PROVE  d + 1 \in T
  <2>1. ASSUME NEW k \in 1 .. n, k + (d + 1) >= n, pairs[k][1] = name
        PROVE  Found
    <3>1. CASE \A j \in 1 .. n : j > k => pairs[j][1] # name
      BY <2>1, <3>1 DEF HasLast
    <3>2. CASE \E j \in 1 .. n : j > k /\ pairs[j][1] = name
      <4>1. PICK j \in 1 .. n : j > k /\ pairs[j][1] = name
        BY <3>2
      <4>2. j + d >= n
        BY <2>1, <4>1
      <4> QED
        BY <4>1, <4>2
    <3> QED
      BY <3>1, <3>2
  <2> QED
    BY <2>1
<1>3. T = Nat
  <2> HIDE DEF Found
  <2>1. T \subseteq Nat
    OBVIOUS
  <2> HIDE DEF T
  <2> QED
    BY <1>1, <1>2, <2>1, SetInduction
<1>4. n \in T
  BY <1>3, Zenon
<1>5. i \in 1 .. n /\ i + n >= n
  OBVIOUS
<1> QED
  BY <1>4, <1>5

(* A request that announces its body has it read.                          *)
LEMMA AnnouncedIsRead ==
    ASSUME NEW r, Agrees(request.headers, r.headers), Lengths(r) # {}
    PROVE  /\ ContentLength \in DOMAIN request.headers
           /\ BodyIsRead <=> AnnouncesBody(r)
<1>1. ASSUME NEW i \in Lengths(r)
      PROVE  ContentLength \in DOMAIN request.headers /\ request.headers[ContentLength] = r.headers[i][2]
  BY DEF Lengths, Agrees
<1>2. PICK i \in Lengths(r) : TRUE
  OBVIOUS
<1>3. AnnouncesBody(r) <=> Positive(request.headers[ContentLength])
  BY <1>1, <1>2, Zenon DEF AnnouncesBody
<1> QED
  BY <1>1, <1>2, <1>3 DEF BodyIsRead

(* Whoever reads the request that was sent understands it.                 *)
LEMMA StageUnderstood == Inv /\ StageInv /\ BodyFresh /\ OwnHeaders => UnderstoodAsSent
<1> SUFFICES ASSUME Inv, StageInv, BodyFresh, OwnHeaders, NEW r \in Request, msg = Sent[r], pc = "parse"
             PROVE  state # "kINVALID" /\ (~Parsing => state = "COMPLETE" /\ Understood(r))
  BY DEF StageInv, UnderstoodAsSent
<1>1. WellFormed(r) /\ PartsAtPlaces(r, msg) /\ Stage(r)
  BY SentIsRead DEF StageInv
<1>2. CASE state # "COMPLETE"
  BY <1>1, <1>2, StageStates DEF Parsing
<1>3. CASE state = "COMPLETE"
  <2>1. HasLine(r, Len(r.headers)) /\ (BodyIsRead => request.body = r.body)
    BY <1>1, <1>3 DEF Stage, OnMethod, OnUrl, OnParam, OnProtocol, OnVersion, OnLine, OnHeader, OnBody
  <2>2. /\ Len(r.params) \in Nat /\ Len(r.headers) \in Nat
        /\ DOMAIN r.params = 1 .. Len(r.params) /\ DOMAIN r.headers = 1 .. Len(r.headers)
    <3>1. r.params \in Seq(Seq(Char) \X Seq(Char)) /\ r.headers \in Seq(Seq(Char) \X Seq(Char))
      BY <1>1, Zenon DEF WellFormed
    <3> QED
      BY <3>1, LenProperties
  <2>3. Agrees(request.params, r.params) /\ Agrees(request.headers, r.headers)
    BY <2>1, <2>2, AllAgree DEF HasLine, HasUrl
  <2>4. ASSUME AnnouncesBody(r)
        PROVE  request.body = r.body
    <3>1. Lengths(r) # {}
      BY <2>4 DEF AnnouncesBody
    <3> QED
      BY <2>1, <2>3, <2>4, <3>1, AnnouncedIsRead
  <2>5. ASSUME received = 1, LengthIsRight(r), ~AnnouncesBody(r)
        PROVE  request.body = r.body
    <3>1. CASE Lengths(r) = {}
      <4>1. ContentLength \notin Keys(r)
        <5> SUFFICES ASSUME NEW i \in 1 .. Len(r.headers), r.headers[i][1] = ContentLength
                     PROVE  FALSE
          BY DEF Keys
        <5>1. PICK n \in Nat : n = Len(r.headers)
          BY <2>2
        <5>2. PICK i0 \in 1 .. n : r.headers[i0][1] = ContentLength /\ \A j \in 1 .. n : j > i0 => r.headers[j][1] # ContentLength
          <6>1. i \in 1 .. n
            BY <5>1
          <6> HIDE DEF ContentLength
          <6>2. HasLast(r.headers, n, ContentLength)
            BY <6>1, LastOfName
          <6> QED
            BY <6>2 DEF HasLast
        <5>3. i0 \in Lengths(r)
          BY <2>2, <5>1, <5>2 DEF Lengths, IsLast
        <5> QED
          BY <3>1, <5>3
      <4>2. BodyIsRead
        BY <2>5, <4>1 DEF OwnHeaders, BodyIsRead
      <4> QED
        BY <2>1, <4>2
    <3>2. CASE Lengths(r) # {}
      <4>1. r.body = <<>> /\ ~BodyIsRead
        BY <2>3, <2>5, <3>2, AnnouncedIsRead DEF LengthIsRight
      <4>2. request.body = <<>>
        BY <2>5, <4>1 DEF BodyFresh
      <4> QED
        BY <4>1, <4>2
    <3> QED
      BY <3>1, <3>2
  <2> QED
    BY <1>3, <2>1, <2>3, <2>4, <2>5 DEF Understood, HasLine, HasUrl
<1> QED
  BY <1>2, <1>3

(* A request that comes in one piece is understood as it was sent, for all *)
(* requests: its words whatever the connection has parsed before, and its  *)
(* body if a header of the request announces it or it is the first.        *)
THEOREM IsUnderstood == Spec => []UnderstoodAsSent
<1>1. Init => StageInv /\ BodyFresh /\ OwnHeaders
  BY DEF Init, StageInv, BodyFresh, NothingRead, OwnHeaders
<1>2. Spec => [](Inv /\ StageInv /\ BodyFresh /\ OwnHeaders)
  BY <1>1, Invariant, StageInvStep, BodyFreshStep, OwnHeadersStep, PTL DEF Spec
<1> QED
  BY <1>2, StageUnderstood, PTL
=============================================================================
