----------------------------- MODULE TcpOptions -----------------------------
(***************************************************************************)
(* The options of the SYN of an app, as handle_tcp (tcp.c) decodes them:   *)
(* the size of the segments it takes and the scale of its windows.         *)
(***************************************************************************)
EXTENDS Naturals, Sequences, SequencesExt

CONSTANT DefaultMss     \* get_default_mss: what the tun device can carry

ASSUME OptionsAssumption == DefaultMss \in Nat

Defaults == [mss |-> DefaultMss, ws |-> 0]

\* An option is a kind, and unless it is padding, its length and a value.
Step(options, pos) == IF options[pos] = 1 THEN 1 ELSE options[pos + 1]

\* Mutant: the size is not converted from the order of the network.
Option_HostOrder(options, pos, found) ==
    IF options[pos] = 2 /\ options[pos + 1] = 4
    THEN [found EXCEPT !.mss = options[pos + 2] + 256 * options[pos + 3]]
    ELSE IF options[pos] = 3 /\ options[pos + 1] = 3
    THEN [found EXCEPT !.ws = options[pos + 2]]
    ELSE found

\* What an option adds to what was found.
Option(options, pos, found) ==
    IF options[pos] = 2 /\ options[pos + 1] = 4
    THEN [found EXCEPT !.mss = 256 * options[pos + 2] + options[pos + 3]]
    ELSE IF options[pos] = 3 /\ options[pos + 1] = 3
    THEN [found EXCEPT !.ws = options[pos + 2]]
    ELSE found

\* A round of the loop.  Nothing happens any more at the end of the options or at
\* an option "end".
Round(options, at) ==
    IF at.pos > Len(options) THEN at
    ELSE IF options[at.pos] = 0 THEN at
    ELSE [pos |-> at.pos + Step(options, at.pos), found |-> Option(options, at.pos, at.found)]

\* The loop over the options: each has an octet at least, so it is over after as
\* many rounds as there are octets.
decode(options) ==
    LET after[k \in 0 .. Len(options)] ==
            IF k = 0 THEN [pos |-> 1, found |-> Defaults] ELSE Round(options, after[k - 1])
    IN  after[Len(options)].found

-----------------------------------------------------------------------------
LargestSize == 65535    \* that two octets can say

\* Options, as RFC 793 and RFC 7323 lay them out.  The others have a kind of
\* their own, their length and bytes that may look like options.
Offer ==
    [kind : {"end", "padding"}]
    \cup [kind : {"mss"}, value : 0 .. LargestSize] \cup [kind : {"scale"}, value : 0 .. 255]
    \cup [kind : {"other"}, code : 4 .. 255, bytes : Seq(0 .. 255)]

\* A length is an octet.
Offers(list) ==
    /\ list \in Seq(Offer)
    /\ \A i \in DOMAIN list : list[i].kind = "other" => Len(list[i].bytes) <= 253

Encoded(o) ==
    CASE o.kind = "end" -> <<0>>
      [] o.kind = "padding" -> <<1>>
      [] o.kind = "mss" -> <<2, 4, o.value \div 256, o.value % 256>>
      [] o.kind = "scale" -> <<3, 3, o.value>>
      [] o.kind = "other" -> <<o.code, 2 + Len(o.bytes)>> \o o.bytes

\* The options fill whole words of four bytes.
Options(list) ==
    LET bytes == FlattenSeq([i \in DOMAIN list |-> Encoded(list[i])])
    IN  bytes \o [i \in 1 .. (4 - (Len(bytes) % 4)) % 4 |-> 0]

\* What a list of options says, whatever it is encoded as.
Said(list, kind, default) ==
    LET ends == {i \in DOMAIN list : list[i].kind = "end"}
        last == {i \in DOMAIN list : list[i].kind = kind /\ \A e \in ends : i < e}
    IN  IF last = {} THEN default ELSE list[Max(last)].value
=============================================================================
