------------------------------ MODULE TlsHello ------------------------------
(***************************************************************************)
(* parse_tls_header (tls.c): the name of the server in the hello of a TLS  *)
(* client, which becomes the host of the CONNECT.  Data is a sequence of   *)
(* bytes; positions count from 0, as in the code.  A position outside the  *)
(* data has no value: a model checker that reads one stops.                *)
(***************************************************************************)
EXTENDS Integers, Sequences, SequencesExt

TLS_HEADER_LEN == 5
HANDSHAKE == 22         \* TLS_HANDSHAKE_CONTENT_TYPE
CLIENT_HELLO == 1       \* TLS_HANDSHAKE_TYPE_CLIENT_HELLO

\* Type, length, version and random of a hello.
FIXED_LEN == 38

FQDN_MAX == 255

NoName == <<>>

Byte(data, pos) == data[pos + 1]

Short(data, pos) == 256 * Byte(data, pos) + Byte(data, pos + 1)

\* MIN(len, FQDN_MAX): so many octets of a name are copied.
Copied(len) == IF len < FQDN_MAX THEN len ELSE FQDN_MAX

\* The first host name of a list: entries are a type, a length and a name.
parse_server_name_extension(data) ==
    LET from[pos \in Nat] ==
            IF pos + 3 >= Len(data) THEN NoName
            ELSE LET len == Short(data, pos + 1)
                 IN  IF pos + 3 + len > Len(data) THEN NoName
                     ELSE IF Byte(data, pos) = 0 THEN SubSeq(data, pos + 4, pos + 3 + Copied(len))
                     ELSE from[pos + 3 + len]
    IN  from[2]

\* Mutant: the header of an extension is not skipped with it.
parse_extensions_NoHeader(data) ==
    LET from[pos \in Nat] ==
            IF pos + 4 > Len(data) THEN NoName
            ELSE LET len == Short(data, pos + 2)
                 IN  IF Short(data, pos) # 0 THEN from[pos + len + 1]
                     ELSE IF pos + 4 + len > Len(data) THEN NoName
                     ELSE parse_server_name_extension(SubSeq(data, pos + 5, pos + 4 + len))
    IN  from[0]

\* Extensions are a type, a length and so many bytes; 0 is server_name.
parse_extensions(data) ==
    LET from[pos \in Nat] ==
            IF pos + 4 > Len(data) THEN NoName
            ELSE LET len == Short(data, pos + 2)
                 IN  IF Short(data, pos) # 0 THEN from[pos + 4 + len]
                     ELSE IF pos + 4 + len > Len(data) THEN NoName
                     ELSE parse_server_name_extension(SubSeq(data, pos + 5, pos + 4 + len))
    IN  from[0]

\* What follows the lists of a hello at pos.  A hello of SSL 3 may end there.
Extensions(data, pos) ==
    IF \/ pos = Len(data) /\ Byte(data, 1) = 3 /\ Byte(data, 2) = 0
       \/ pos + 2 > Len(data)
    THEN NoName
    ELSE LET len == Short(data, pos)
         IN  IF pos + 2 + len > Len(data) THEN NoName
             ELSE parse_extensions(SubSeq(data, pos + 3, pos + 2 + len))

\* A hello holds a session id, cipher suites and compression methods, each
\* behind its length, and then extensions.
Hello(data) ==
    LET id == TLS_HEADER_LEN + FIXED_LEN
        ciphers == id + 1 + Byte(data, id)
        methods == ciphers + 2 + Short(data, ciphers)
    IN  IF id + 1 > Len(data) THEN NoName
        ELSE IF ciphers + 2 > Len(data) THEN NoName
        ELSE IF methods + 1 > Len(data) THEN NoName
        ELSE Extensions(data, methods + 1 + Byte(data, methods))

parse_tls_header(data) ==
    IF \/ Len(data) < TLS_HEADER_LEN
       \/ Byte(data, 0) >= 128 /\ Byte(data, 2) = 1
       \/ Byte(data, 0) # HANDSHAKE \/ Byte(data, 1) < 3
    THEN NoName
    ELSE LET len == Short(data, 3) + TLS_HEADER_LEN
         IN  IF \/ Len(data) < len \/ TLS_HEADER_LEN + 1 > len
                \/ Byte(data, TLS_HEADER_LEN) # CLIENT_HELLO
             THEN NoName
             ELSE Hello(SubSeq(data, 1, len))

-----------------------------------------------------------------------------
\* Hellos, as RFC 5246 and RFC 6066 lay them out.  hello gives the version, the
\* lengths of the three lists and, unless it has none, the extensions: each a
\* type and its bytes, or the list of names of server_name.

Octets == 0 .. 255

Longest == 65535    \* that a length of two octets can say

Filler(n) == [i \in 1 .. n |-> 7]

Sized(bytes) == <<Len(bytes) \div 256, Len(bytes) % 256>> \o bytes

Names(names) ==
    Sized(FlattenSeq([i \in DOMAIN names |-> <<names[i].type>> \o Sized(names[i].name)]))

Sizable(bytes) == bytes \in Seq(Octets) /\ Len(bytes) <= Longest

\* The name of a host is one of DNS: it is not longer than such a name can be, and
\* has no zero, at which strncpy would stop.
Listing(names) ==
    /\ Sizable(Names(names)) /\ \A i \in DOMAIN names : Sizable(names[i].name)
    /\ \A i \in DOMAIN names :
        names[i].type = 0 =>
            names[i].name \in Seq(Octets \ {0}) /\ Len(names[i].name) <= FQDN_MAX

Extension(e) ==
    IF e.type = 0 THEN <<0, 0>> \o Sized(Names(e.names)) ELSE <<0, e.type>> \o Sized(Filler(e.len))

Body(hello) ==
    Filler(FIXED_LEN - 1) \o <<hello.id>> \o Filler(hello.id)
    \o Sized(Filler(hello.ciphers)) \o <<hello.methods>> \o Filler(hello.methods)
    \o IF hello.bare THEN <<>>
       ELSE Sized(FlattenSeq([i \in DOMAIN hello.extensions |-> Extension(hello.extensions[i])]))

Record(hello) ==
    <<HANDSHAKE, 3, hello.minor>> \o Sized(<<CLIENT_HELLO>> \o Body(hello))

\* What TLS allows, in one record: what has a length fits in its field.
ClientHello(hello) ==
    /\ hello.minor \in Octets /\ hello.id \in Octets /\ hello.methods \in Octets
    /\ hello.ciphers \in 0 .. Longest /\ hello.bare \in BOOLEAN /\ hello.more \in Int
    /\ hello.extensions \in Seq([type : Octets \ {0}, len : 0 .. Longest]
                                \cup [type : {0}, names : Seq([type : Octets, name : Seq(Octets)])])
    /\ \A i \in DOMAIN hello.extensions :
        hello.extensions[i].type = 0 => Listing(hello.extensions[i].names)
    /\ Sizable(<<CLIENT_HELLO>> \o Body(hello))

HostName(names) ==
    LET hosts == {i \in DOMAIN names : names[i].type = 0}
    IN  IF hosts = {} THEN NoName ELSE names[Min(hosts)].name

\* The name a hello asks for.
ServerName(hello) ==
    LET lists == {i \in DOMAIN hello.extensions : hello.extensions[i].type = 0}
    IN  IF hello.bare \/ lists = {} THEN NoName ELSE HostName(hello.extensions[Min(lists)].names)
=============================================================================
