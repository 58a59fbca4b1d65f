------------------------------ MODULE HttpContext ------------------------------
(***************************************************************************)
(* The parser of a connection's requests (src/day23/http/HttpContext.cpp)  *)
(* as HttpServer::onMessage uses it: one message after the other, each one *)
(* what a read gave, with the state and the HttpRequest of the parser kept *)
(* from one to the next.                                                   *)
(*                                                                         *)
(* One step is one round of ParaseRequest's loop. A character stands for   *)
(* all those that the parser treats alike, and the known words are one or  *)
(* three characters long: "G" is GET, POST, HEAD or PUT, and "c" the       *)
(* header Content-Lenght, as the code spells it.                           *)
(***************************************************************************)
EXTENDS Integers, Sequences, SequencesExt

CONSTANTS
    Message,    \* what a read may give
    MaxMessages,\* the bound on the messages of a connection
    Request     \* requests as clients mean them

Upper == {"G", "A"}
Digit == {"0", "1"}
White == {" ", "CR", "LF"}
Char == Upper \cup Digit \cup White \cup {"a", "c", "/", "?", "=", "&", ":", "."}

ASSUME ConstantsAssumption == Message \subseteq Seq(Char) \ {<<>>} /\ MaxMessages \in Nat

VARIABLES
    state, request,     \* HttpContext: state_ and request_
    msg, received,      \* the message, and the number of messages so far
    start, colon, end,  \* ParaseRequest's pointers, as places of the message
    pc                  \* "idle", "parse", "closed"; "thrown" after an exception

pointers == <<start, colon, end>>
vars == <<state, request, msg, received, pointers, pc>>

NUL == "NUL"
AnyChar == Char \cup {NUL}
ch == (msg \o <<NUL>>)[end]

Unknown == <<>>
Method == {<<"G">>}
Version == {<<"1", ".", "0">>, <<"1", ".", "1">>}
ContentLength == <<"c">>

Init == /\ state = "START"
        /\ request = [method |-> Unknown, url |-> <<>>, params |-> <<>>, protocol |-> <<>>,
                      version |-> Unknown, headers |-> <<>>, body |-> <<>>]
        /\ msg = <<>> /\ received = 0
        /\ start = 1 /\ colon = 1 /\ end = 1
        /\ pc = "idle"

-----------------------------------------------------------------------------
(* The characters that a state refuses, by those that it does not.         *)
Accepted == [START |-> White \cup Upper, METHOD |-> Upper \cup {" "}, BEFORE_URL |-> {"/", " "},
             BEFORE_URL_PARAM_KEY |-> AnyChar \ White, URL_PARAM_KEY |-> AnyChar \ {" "},
             BEFORE_URL_PARAM_VALUE |-> AnyChar \ White, BEFORE_VERSION |-> Digit,
             VERSION |-> Digit \cup {".", "CR"}, WHEN_CR |-> {"LF"}, CR_LF |-> AnyChar \ {" "},
             CR_LF_CR |-> {"LF"}]

(* The rounds that go on in a word or to the beginning of one.             *)
Moves == {<<"START", White, "START">>, <<"START", Upper, "METHOD">>,
          <<"METHOD", Upper, "METHOD">>,
          <<"BEFORE_URL", {" "}, "BEFORE_URL">>, <<"BEFORE_URL", {"/"}, "IN_URL">>,
          <<"IN_URL", AnyChar \ {"?", " "}, "IN_URL">>,
          <<"BEFORE_URL_PARAM_KEY", AnyChar \ White, "URL_PARAM_KEY">>,
          <<"URL_PARAM_KEY", AnyChar \ {"=", " "}, "URL_PARAM_KEY">>,
          <<"BEFORE_URL_PARAM_VALUE", AnyChar \ White, "URL_PARAM_VALUE">>,
          <<"URL_PARAM_VALUE", AnyChar \ {"&", " "}, "URL_PARAM_VALUE">>,
          <<"BEFORE_PROTOCOL", {" "}, "BEFORE_PROTOCOL">>, <<"BEFORE_PROTOCOL", AnyChar \ {" "}, "PROTOCOL">>,
          <<"PROTOCOL", AnyChar \ {"/"}, "PROTOCOL">>,
          <<"BEFORE_VERSION", Digit, "VERSION">>, <<"VERSION", Digit \cup {"."}, "VERSION">>,
          <<"CR_LF", {"CR"}, "CR_LF_CR">>, <<"CR_LF", AnyChar \ {"CR", " "}, "HEADER_KEY">>,
          <<"HEADER_KEY", AnyChar \ {":"}, "HEADER_KEY">>,
          <<"HEADER_VALUE", AnyChar \ {"CR"}, "HEADER_VALUE">>}

Parsing == pc = "parse" /\ state \notin {"kINVALID", "COMPLETE"} /\ end <= Len(msg) + 1
At(s, c) == Parsing /\ state = s /\ ch = c
Goto(s) == state' = s /\ end' = end + 1 /\ UNCHANGED <<msg, received, pc>>
Word(first, last) == SubSeq(msg \o <<NUL>>, first, last - 1)
NextWord(s) == Goto(s) /\ start' = end + 1 /\ UNCHANGED colon
Put(map, key, value) == [k \in DOMAIN map \cup {key} |-> IF k = key THEN value ELSE map[k]]

Refuse == /\ Parsing
          /\ state \in DOMAIN Accepted /\ ch \notin Accepted[state]
          /\ Goto("kINVALID")
          /\ UNCHANGED <<request, start, colon>>

Move == /\ Parsing
        /\ \E m \in Moves : state = m[1] /\ ch \in m[2] /\ Goto(m[3])
        /\ UNCHANGED <<request, start, colon>>

MarkColon == /\ \/ At("URL_PARAM_KEY", "=") /\ Goto("BEFORE_URL_PARAM_VALUE")
                \/ At("HEADER_KEY", ":") /\ Goto("HEADER_VALUE")
             /\ colon' = end
             /\ UNCHANGED <<request, start>>

-----------------------------------------------------------------------------
(* The rounds that end a word.                                             *)
SetMethod == /\ At("METHOD", " ")
             /\ request' = [request EXCEPT !.method = IF Word(start, end) \in Method THEN Word(start, end) ELSE Unknown]
             /\ NextWord("BEFORE_URL")

(* Mutant of SetUrl: start stays where it is.                              *)
SetUrlOnly == /\ \/ At("IN_URL", "?") /\ Goto("BEFORE_URL_PARAM_KEY")
                 \/ At("IN_URL", " ") /\ Goto("BEFORE_PROTOCOL")
              /\ request' = [request EXCEPT !.url = Word(start, end)]
              /\ UNCHANGED <<start, colon>>

SetUrl == /\ \/ At("IN_URL", "?") /\ NextWord("BEFORE_URL_PARAM_KEY")
             \/ At("IN_URL", " ") /\ NextWord("BEFORE_PROTOCOL")
          /\ request' = [request EXCEPT !.url = Word(start, end)]

SetRequestParams == /\ \/ At("URL_PARAM_VALUE", "&") /\ NextWord("BEFORE_URL_PARAM_KEY")
                       \/ At("URL_PARAM_VALUE", " ") /\ NextWord("BEFORE_PROTOCOL")
                    /\ request' = [request EXCEPT !.params = Put(@, Word(start, colon), Word(colon + 1, end))]

SetProtocol == /\ At("PROTOCOL", "/")
               /\ request' = [request EXCEPT !.protocol = Word(start, end)]
               /\ NextWord("BEFORE_VERSION")

SetVersion == /\ At("VERSION", "CR")
              /\ request' = [request EXCEPT !.version = IF Word(start, end) \in Version THEN Word(start, end) ELSE Unknown]
              /\ NextWord("WHEN_CR")

(* The value is taken to begin after one character, a blank. There is none *)
(* if the line ends at the colon, and the constructor of std::string, with *)
(* its end before its begin, throws: nothing catches it.                   *)
AddHeader ==
    /\ At("HEADER_VALUE", "CR")
    /\ \/ /\ end > colon + 1
          /\ request' = [request EXCEPT !.headers = Put(@, Word(start, colon), Word(colon + 2, end))]
          /\ NextWord("WHEN_CR")
       \/ /\ end = colon + 1
          /\ pc' = "thrown"
          /\ UNCHANGED <<state, request, msg, received, pointers>>

EndLine == At("WHEN_CR", "LF") /\ NextWord("CR_LF") /\ UNCHANGED request

(* atoi(value) > 0, for values of these characters: blanks and line feeds, *)
(* then zeros, and then a one.                                             *)
Positive(value) ==
    \E i \in DOMAIN value : /\ value[i] = "1"
                            /\ \E n \in 0 .. i - 1 : \A j \in 1 .. i - 1 :
                                   value[j] \in IF j <= n THEN {" ", "LF"} ELSE {"0"}

(* Mutant of EndHeaders: a line that begins with CR ends the headers.      *)
EndAnyhow == /\ Parsing /\ state = "CR_LF_CR"
             /\ NextWord("BODY")
             /\ UNCHANGED request

EndHeaders ==
    /\ At("CR_LF_CR", "LF")
    /\ LET HasBody == IF ContentLength \in DOMAIN request.headers
                      THEN Positive(request.headers[ContentLength])
                      ELSE end - 1 < Len(msg)
       IN  NextWord(IF HasBody THEN "BODY" ELSE "COMPLETE")
    /\ UNCHANGED request

(* Mutant of SetBody: the length of the body is one too many.              *)
SetBodyAndNul == /\ Parsing /\ state = "BODY"
                 /\ request' = [request EXCEPT !.body = Word(start, start + Len(msg) - end + 2)]
                 /\ Goto("COMPLETE")
                 /\ UNCHANGED <<start, colon>>

(* The body is all that is left, whatever its length should be.            *)
SetBody == /\ Parsing /\ state = "BODY"
           /\ request' = [request EXCEPT !.body = Word(start, start + Len(msg) - (end - 1))]
           /\ Goto("COMPLETE")
           /\ UNCHANGED <<start, colon>>

ParaseRequest == \/ Refuse \/ Move \/ MarkColon
                 \/ SetMethod \/ SetUrl \/ SetRequestParams \/ SetProtocol \/ SetVersion
                 \/ AddHeader \/ EndLine \/ EndHeaders \/ SetBody

-----------------------------------------------------------------------------
(* HttpServer::onMessage: a message is parsed, ...                         *)
Receive(m) == /\ pc = "idle" /\ received < MaxMessages
              /\ msg' = m /\ received' = received + 1
              /\ start' = 1 /\ colon' = 1 /\ end' = 1
              /\ pc' = "parse"
              /\ UNCHANGED <<state, request>>

(* ... and answered with 400, after which the connection is closed, ...    *)
BadRequest == /\ pc = "parse" /\ ~Parsing /\ state # "COMPLETE"
              /\ pc' = "closed"
              /\ UNCHANGED <<state, request, msg, received, pointers>>

(* ... or by onRequest, which may close, and then ResetContextStatus.      *)
Respond == /\ pc = "parse" /\ state = "COMPLETE"
           /\ state' = "START"
           /\ pc' \in {"idle", "closed"}
           /\ UNCHANGED <<request, msg, received, pointers>>

Next == \/ \E m \in Message : Receive(m)
        \/ ParaseRequest \/ BadRequest \/ Respond

Spec == Init /\ [][Next]_vars

-----------------------------------------------------------------------------
State == {"START", "METHOD", "BEFORE_URL", "IN_URL", "BEFORE_URL_PARAM_KEY", "URL_PARAM_KEY",
          "BEFORE_URL_PARAM_VALUE", "URL_PARAM_VALUE", "BEFORE_PROTOCOL", "PROTOCOL",
          "BEFORE_VERSION", "VERSION", "HEADER_KEY", "HEADER_VALUE", "WHEN_CR", "CR_LF",
          "CR_LF_CR", "BODY", "COMPLETE", "kINVALID"}

IsMap(map) == DOMAIN map \subseteq Seq(Char) /\ map \in [DOMAIN map -> Seq(Char)]

(* No word reaches beyond the message, not even into the NUL after it, and *)
(* none but a header's value, for which AddHeader throws, ends before it   *)
(* begins.                                                                 *)
TypeOK == /\ state \in State
          /\ msg \in Seq(Char) /\ received \in 0 .. MaxMessages
          /\ pc \in {"idle", "parse", "closed", "thrown"}
          /\ end \in 1 .. Len(msg) + 2
          /\ start \in 1 .. end /\ colon \in 1 .. end
          /\ \A f \in {"method", "url", "protocol", "version", "body"} : request[f] \in Seq(Char)
          /\ IsMap(request.params) /\ IsMap(request.headers)
          /\ state \in {"BEFORE_URL_PARAM_VALUE", "URL_PARAM_VALUE", "HEADER_VALUE"} => start <= colon /\ colon < end

(* A message is complete only with an empty line after its headers: a      *)
(* request that a read has cut before that is refused.                     *)
CompleteHasEmptyLine ==
    state = "COMPLETE" => \E i \in 1 .. Len(msg) - 3 : SubSeq(msg, i, i + 3) = <<"CR", "LF", "CR", "LF">>

(* A request as a client means it: the method and the version are known,   *)
(* and no word has a character that would end it.                          *)
Without(word, chars) == \A i \in DOMAIN word : word[i] \notin chars
IsWord(word, chars) == word \in Seq(Char) \ {<<>>} /\ Without(word, chars)

WellFormed(r) ==
    /\ r.method \in Method /\ r.version \in Version
    /\ IsWord(r.url, {"?", " "}) /\ r.url[1] = "/"
    /\ IsWord(r.protocol, {"/", " "})
    /\ r.params \in Seq(Seq(Char) \X Seq(Char)) /\ r.headers \in Seq(Seq(Char) \X Seq(Char))
    /\ \A i \in DOMAIN r.params : /\ IsWord(r.params[i][1], White \cup {"="})
                                  /\ IsWord(r.params[i][2], White \cup {"&"})
    /\ \A i \in DOMAIN r.headers : /\ IsWord(r.headers[i][1], White \cup {":"})
                                   /\ Without(r.headers[i][2], {"CR"})
    /\ r.body \in Seq(Char)

ASSUME RequestAssumption == \A r \in Request : WellFormed(r)

(* The request as the client sends it.                                     *)
PairTexts(open, more, equal, close, pairs) ==
    [i \in 1 .. Len(pairs) |-> (IF i = 1 THEN open ELSE more) \o pairs[i][1] \o equal \o pairs[i][2] \o close]

ParamTexts(r) == PairTexts(<<"?">>, <<"&">>, <<"=">>, <<>>, r.params)
HeaderTexts(r) == PairTexts(<<>>, <<>>, <<":", " ">>, <<"CR", "LF">>, r.headers)

Text(r) == r.method \o <<" ">> \o r.url \o FlattenSeq(ParamTexts(r))
           \o <<" ">> \o r.protocol \o <<"/">> \o r.version \o <<"CR", "LF">>
           \o FlattenSeq(HeaderTexts(r)) \o <<"CR", "LF">> \o r.body

Sent == [r \in Request |-> Text(r)]

(* A name that comes several times keeps its last value.                   *)
IsLast(pairs, i) == \A j \in DOMAIN pairs : j > i => pairs[j][1] # pairs[i][1]

Agrees(map, pairs) ==
    \A i \in DOMAIN pairs : IsLast(pairs, i) => pairs[i][1] \in DOMAIN map /\ map[pairs[i][1]] = pairs[i][2]

(* What the request's own headers say of its body.                         *)
Lengths(r) == {i \in DOMAIN r.headers : r.headers[i][1] = ContentLength /\ IsLast(r.headers, i)}
AnnouncesBody(r) == \E i \in Lengths(r) : Positive(r.headers[i][2])
LengthIsRight(r) == Lengths(r) # {} => (AnnouncesBody(r) <=> r.body # <<>>)

(* ResetContextStatus leaves the HttpRequest as it is, so that the headers *)
(* and the body of an earlier request get in the way of a body that the    *)
(* request itself does not announce: it is understood for sure only in the *)
(* first request of a connection.                                          *)
Understood(r) == /\ request.method = r.method /\ request.url = r.url
                 /\ request.protocol = r.protocol /\ request.version = r.version
                 /\ Agrees(request.params, r.params) /\ Agrees(request.headers, r.headers)
                 /\ AnnouncesBody(r) \/ (received = 1 /\ LengthIsRight(r)) => request.body = r.body

(* What a client sends is what the parser understands: a request that      *)
(* comes in one piece is neither refused nor a reason to throw, and its    *)
(* words are neither lost nor mixed up, whatever the connection has parsed *)
(* before; and so is its body when a header of the request announces it,   *)
(* or when no request came before (others may still show in the headers).  *)
UnderstoodAsSent ==
    \A r \in Request : msg = Sent[r] =>
        /\ pc # "thrown"
        /\ pc = "parse" => state # "kINVALID" /\ (~Parsing => state = "COMPLETE" /\ Understood(r))

(* After the empty line the body is parsed, says the comment at EndHeaders *)
(* (HttpContext.cpp:237): a request that has a body, and announces it or   *)
(* says nothing of it, is not complete without it. It does not hold: the   *)
(* Content-Lenght looked at may be that of an earlier request.             *)
BodyIsParsed ==
    \A r \in Request : msg = Sent[r] /\ pc = "parse" /\ state = "COMPLETE" /\ r.body # <<>> /\ LengthIsRight(r)
                          => request.body = r.body
=============================================================================
