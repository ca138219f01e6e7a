------------------------------ MODULE MCParsers ------------------------------
(***************************************************************************)
(* The parsers on small sets of inputs, made of what their protocols       *)
(* allow.                                                                  *)
(***************************************************************************)
EXTENDS Parsers

\* Sequences of up to n elements of S.
UpTo(n, S) == UNION {[1 .. k -> S] : k \in 0 .. n}

MCTokens ==
    {Methods[i] : i \in DOMAIN Methods}
    \cup {EndOfLine, " HTTP/1.1", "http:", "//", "Host: ", "HOST: ", "host: ", "Host:", "Via: ", "Accept: ",
          "X-Forwarded-", "/", "a", "b", "x", "name", "other", ":8080"}

MCRequests ==
    [method : {Methods[i] : i \in DOMAIN Methods},
     target : {<<"/", "a">>, <<"http:", "//", "name", "/">>},
     headers : UpTo(2, {<<"Host: ", "name">>, <<"HOST: ", "name", ":8080">>, <<"host: ", "name">>,
                        <<"Via: ", "POST ">>, <<"Accept: ", "x">>, <<"X-Forwarded-", "Host: ", "other">>}),
     body : {<<>>, <<"PUT ", "b">>, <<"GET ", "Host: ", "b">>}]

ExtensionLists ==
    UpTo(2, [type : {5, 16}, len : {0, 3}]
            \cup [type : {0}, names : UpTo(2, [type : {0, 1}, name : {<<97>>, <<98, 99>>}])])

\* more: bytes of the record after it, or missing ones.
MCHellos ==
    [minor : {0, 1}, id : {0, 2}, ciphers : {2, 260}, methods : {1}, bare : BOOLEAN,
     extensions : ExtensionLists, more : {-1, 0, 3}]

MCTexts == [pseudo : [1 .. 2 -> Bytes], header : [1 .. 2 -> Bytes], data : UpTo(3, Bytes)]

MCOptionLists ==
    UpTo(3, [kind : {"end", "padding"}]
            \cup [kind : {"other"}, code : {4}, bytes : {<<>>}]
            \cup [kind : {"other"}, code : {8}, bytes : {<<2, 4, 3, 3, 0, 1, 2, 4>>}]
            \cup [kind : {"mss"}, value : {536, 9960}] \cup [kind : {"scale"}, value : {0, 7}])

Lengths == {20, 28, 40, 48, 60, 68, 76, 88}

\* frag: none, do not fragment, the first and the last of two fragments.
MCIpPackets ==
    [version : {4}, ihl : {5, 6}, length : Lengths \ {20}, total : Lengths, frag : {0, 16384, 8192, 185},
     chain : [1 .. 1 -> Upper \cup {"IGMP"}]]
    \cup [version : {6}, length : Lengths \ {20, 28},
          chain : {c \in UpTo(3, Upper \cup {"HOPOPTS", "FRAGMENT", "NONE"}) :
                      c # <<>> /\ \A i \in 1 .. Len(c) - 1 : c[i] \in {"HOPOPTS", "FRAGMENT"}}]

NamesAsked == {<<<<97>>>>, <<<<97, 98>>, <<99>>>>}

\* Queries, and responses to them.
MCDnsMessages ==
    [answer : {FALSE}, name : NamesAsked, answers : {<<>>}]
    \cup [answer : {TRUE}, name : NamesAsked,
          answers : UpTo(2, [points : BOOLEAN, name : {<<<<100>>>>, <<<<100>>, <<101, 102>>>>},
                             type : {1, 5, 28}, len : {0, 4}])]

MCRanges == {r \in Addresses \X Addresses : r[1] <= r[2]}
=============================================================================
