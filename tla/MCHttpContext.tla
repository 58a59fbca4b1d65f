---------------------------- MODULE MCHttpContext ----------------------------
(***************************************************************************)
(* HttpContext with requests of every form, and with what becomes of two   *)
(* of them when they are cut off or a character is added or changed.       *)
(***************************************************************************)
EXTENDS HttpContext

MCRequest ==
    [method : {<<"G">>}, url : {<<"/">>, <<"/", "a">>},
     params : {<<>>, <<<< <<"a">>, <<"0">> >>, << <<"a">>, <<"1">> >>>>},
     protocol : {<<"A">>}, version : {<<"1", ".", "1">>},
     headers : {<<>>, <<<< <<"a">>, <<"a">> >>, << <<"c">>, <<"1">> >>>>, <<<< <<"c">>, <<"0">> >>>>},
     body : {<<>>, <<"a">>}]

WithHeader == Text([method |-> <<"G">>, url |-> <<"/">>, params |-> <<>>, protocol |-> <<"A">>,
                    version |-> <<"1", ".", "0">>, headers |-> <<<< <<"c">>, <<"0">> >>>>, body |-> <<>>])
WithParam == Text([method |-> <<"A">>, url |-> <<"/">>, params |-> <<<< <<"a">>, <<"0">> >>>>, protocol |-> <<"A">>,
                   version |-> <<"1">>, headers |-> <<>>, body |-> <<"a">>])

Edit == {" ", "CR", "/", ":", "a"}
Cut(text) == {SubSeq(text, 1, n) : n \in 1 .. Len(text) - 1}
Changed(text) == {[text EXCEPT ![i] = c] : i \in DOMAIN text, c \in Edit}
Added(text) == {InsertAt(text, i, c) : i \in DOMAIN text, c \in Edit}

MCSent == {Text(r) : r \in MCRequest}

MCMessage == MCSent
             \cup UNION {{text} \cup Cut(text) \cup Changed(text) \cup Added(text) : text \in {WithHeader, WithParam}}
=============================================================================
