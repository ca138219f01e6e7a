----------------------------- MODULE HttpRequest -----------------------------
(***************************************************************************)
(* patch_http_url (http.c): a request to port 80 is turned into one for a  *)
(* proxy by putting the scheme and the host before its target.             *)
(*                                                                         *)
(* A text is a sequence of tokens, cut so that whatever patch_http_url     *)
(* looks for is a token of its own: a method, a header's name, the end of  *)
(* a line, the scheme.                                                     *)
(***************************************************************************)
EXTENDS Naturals, Sequences, SequencesExt

CONSTANT Tokens     \* of which texts are made

\* In the order in which they are looked for.
Methods == <<"GET ", "POST ", "PUT ", "DELETE ", "HEAD ", "OPTIONS ", "PATCH ">>

Scheme == <<"http:", "//">>

EndOfLine == "\r\n"

ASSUME TokensAssumption ==
    {Methods[i] : i \in DOMAIN Methods} \cup {Scheme[i] : i \in DOMAIN Scheme}
        \cup {EndOfLine, "Host: ", "HOST: ", "host: ", "Host:", " HTTP/1.1"} \subseteq Tokens

\* Mutant: the case of a header's name counts.
Alike_Exact(word, value) == word = value

\* strncasecmp, behind a first letter that is compared as it is.
Alike(word, value) == word = value \/ (word = "HOST: " /\ value = "Host: ")

\* The first place of a word, 0 if there is none.
find_data(data, value) ==
    LET places == {i \in DOMAIN data : Alike(data[i], value)}
    IN  IF places = {} THEN 0 ELSE Min(places)

\* What stands between the first "Host: " and the end of its line (its first 511
\* bytes, in the code: no host is as long).
hostname(data) ==
    LET host == find_data(data, "Host: ")
        ends == {i \in host + 1 .. Len(data) : data[i] = EndOfLine}
    IN  SubSeq(data, host + 1, Min(ends \cup {Len(data) + 1}) - 1)

patch_http_url(data) ==
    LET found == {i \in DOMAIN Methods : find_data(data, Methods[i]) # 0}
    IN  IF find_data(data, "Host: ") = 0 \/ found = {} THEN data
        ELSE LET pos == find_data(data, Methods[Min(found)])
             IN  IF pos < Len(data) /\ data[pos + 1] = "http:" THEN data
                 ELSE SubSeq(data, 1, pos) \o Scheme \o hostname(data)
                      \o SubSeq(data, pos + 1, Len(data))

-----------------------------------------------------------------------------
\* Requests, as HTTP defines them: a method, a target (a text), headers (each a
\* name followed by a text) and a body.
Has(text, words) == \E i \in DOMAIN text : text[i] \in words

Lines(headers) == FlattenSeq([i \in DOMAIN headers |-> headers[i] \o <<EndOfLine>>])

Text(r) == <<r.method>> \o r.target \o <<" HTTP/1.1", EndOfLine>>
           \o Lines(r.headers) \o <<EndOfLine>> \o r.body

\* The name of the host's header in any case, with a blank behind it or none;
\* and those that find_data knows, with its first letter and the blank.
HostNames == {"Host: ", "HOST: ", "host: ", "Host:"}

HostWords == {"Host: ", "HOST: "}

Hosts(r) == {i \in DOMAIN r.headers : r.headers[i][1] \in HostNames}

\* The request as a proxy wants it.
Absolute(r) ==
    IF Hosts(r) = {} \/ r.target[1] = "http:" THEN r
    ELSE [r EXCEPT !.target = Scheme \o Tail(r.headers[Min(Hosts(r))]) \o @]

\* What HTTP allows: a target is not empty and has no blank, so no name of a
\* header is in it; a header has a name and is one line.
Message(r) ==
    /\ r \in [method : {Methods[i] : i \in DOMAIN Methods}, target : Seq(Tokens),
              headers : Seq(Seq(Tokens)), body : Seq(Tokens)]
    /\ r.target # <<>> /\ ~Has(r.target, HostWords)
    /\ \A i \in DOMAIN r.headers :
        r.headers[i] # <<>> /\ ~Has(r.headers[i], {EndOfLine})

Before(method) == {Methods[j] : j \in 1 .. (CHOOSE i \in DOMAIN Methods : Methods[i] = method) - 1}

\* No method that is looked for before the request's own stands anywhere else,
\* and no other header has a name that ends like that of the host before it.
Unambiguous(r) ==
    /\ ~Has(Text(r), Before(r.method))
    /\ \A i \in DOMAIN r.headers :
        Has(Tail(r.headers[i]), HostWords) => \E k \in 1 .. i - 1 : r.headers[k][1] \in HostWords
    /\ Hosts(r) = {} => ~Has(r.body, HostWords)

\* The header of the host is written as patch_http_url looks for it.
Spelled(r) == \A i \in Hosts(r) : r.headers[i][1] \in HostWords
=============================================================================
