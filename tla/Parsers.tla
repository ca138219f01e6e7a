------------------------------- MODULE Parsers -------------------------------
(***************************************************************************)
(* The parsers of the engine: an input is chosen, then parsed.  The inputs *)
(* are what the apps, the resolvers and the kernel of a device send; each  *)
(* is laid out by the definitions at the end of its parser's module.       *)
(***************************************************************************)
EXTENDS Integers, Sequences, Checksum, Cidr, DnsMessage, HttpRequest, IpPacket, TcpOptions, TlsHello

CONSTANTS
    Requests,       \* of HTTP
    Hellos,         \* of TLS
    Texts,          \* the parts of a packet that has a checksum
    OptionLists,    \* of TCP
    IpPackets,      \* from tun
    DnsMessages,    \* queries, and responses to them
    Ranges          \* of addresses, first and last

\* A pseudo header and a header are whole words.
ASSUME TextsAssumption ==
    \A text \in Texts :
        /\ text.pseudo \in Seq(Bytes) /\ text.header \in Seq(Bytes) /\ text.data \in Seq(Bytes)
        /\ Len(text.pseudo) % 2 = 0 /\ Len(text.header) % 2 = 0

ASSUME IpPacketsAssumption == \A p \in IpPackets : Packet(p)

ASSUME RequestsAssumption == \A r \in Requests : Message(r)

ASSUME OptionListsAssumption == \A list \in OptionLists : Offers(list)

ASSUME HellosAssumption == \A hello \in Hellos : ClientHello(hello)

VARIABLES
    parser,     \* who is given the input
    input,
    parsed,     \* whether it has been parsed
    output

vars == <<parser, input, parsed, output>>

-----------------------------------------------------------------------------
Inputs ==
    [patch_http_url |-> Requests, parse_tls_header |-> Hellos, check |-> Texts,
     decode |-> OptionLists, handle_ip |-> IpPackets, dns |-> DnsMessages, toCIDR |-> Ranges]

Init ==
    /\ parser \in DOMAIN Inputs /\ input \in Inputs[parser]
    /\ parsed = FALSE /\ output = <<>>

-----------------------------------------------------------------------------
Parses(name) == parser = name /\ ~parsed /\ parsed' = TRUE /\ UNCHANGED <<parser, input>>

\* The bytes of a hello, with what follows or without what is missing.
Sent(hello) ==
    LET bytes == Record(hello)
    IN  IF hello.more < 0 THEN SubSeq(bytes, 1, Len(bytes) + hello.more)
        ELSE bytes \o Filler(hello.more)

Next ==
    \/ Parses("patch_http_url") /\ output' = patch_http_url(Text(input))
    \/ Parses("parse_tls_header") /\ output' = parse_tls_header(Sent(input))
    \/ Parses("check") /\ output' = Received(input.pseudo, input.header, input.data)
    \/ Parses("decode") /\ output' = decode(Options(input))
    \/ Parses("handle_ip") /\ output' = handle_ip(input)
    \/ Parses("dns") /\ output' = IF input.answer
                                  THEN parse_dns_response(Response(input.name, input.answers))
                                  ELSE get_dns_query(Query(input.name))
    \/ Parses("toCIDR") /\ output' = toCIDR(input[1], input[2])

Spec == Init /\ [][Next]_vars

Done(name) == parser = name /\ parsed

-----------------------------------------------------------------------------
\* Properties

\* The proxy is sent the request with its target in absolute form and nothing
\* else changed, whatever the order of the headers, and as it is if it names no
\* host or is absolute already.  Excepted is a host whose header begins with a
\* small letter, or has no blank, as HTTP allows: find_data does not see it
\* (http.c:99), and the request stays as it is.
RequestRewritten ==
    Done("patch_http_url") /\ Unambiguous(input) /\ Spelled(input) =>
        output = Text(Absolute(input))

\* The name for the CONNECT is the first host name of a hello that came whole,
\* wherever among the extensions it stands and whatever comes after the hello.
ServerNameFound ==
    Done("parse_tls_header") => output = IF input.more < 0 THEN NoName ELSE ServerName(input)

\* The checksum that is computed in parts is right for the whole, with data of
\* an odd length, too.
ChecksumVerifies == Done("check") => Verifies(output)

\* The session gets the last size and scale that the options give, padded,
\* ended and mixed with others as they may be.
OptionsUnderstood ==
    Done("decode") =>
        output = [mss |-> Said(input, "mss", DefaultMss), ws |-> Said(input, "scale", 0)]

\* A handler gets the packets of its protocol, and the place where its header
\* is; a packet without extension headers does not get lost, except a message of
\* ICMP of less than 28 bytes (ip.c:182).
HandlerFitsPacket == Done("handle_ip") => Fits(input, output)

\* Every answer of a response is seen, under its name, and so is the question of
\* a query: no name is taken to end earlier or later than it does.
NamesRead ==
    Done("dns") =>
        IF input.answer
        THEN output = [i \in DOMAIN input.answers |->
                          LET a == input.answers[i]
                          IN  [name |-> Dotted(IF a.points THEN input.name ELSE a.name),
                               type |-> a.type, len |-> a.len]]
        ELSE output = [off |-> Len(Query(input.name)) - 4, name |-> Dotted(input.name)]

\* The blocks of a range are the range, and as few as can be.
RangeCovered == Done("toCIDR") => Covers(output, input[1], input[2])
=============================================================================
