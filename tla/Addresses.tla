------------------------------- MODULE Addresses -------------------------------
(***************************************************************************)
(* Which URLs the engine may dial (ssrf.ts): the spellings of an address,  *)
(* the reserved ranges, and the check of a URL. A byte here has Bits bits, *)
(* so that all addresses can be enumerated; a group of IPv6 has two bytes. *)
(***************************************************************************)
EXTENDS Integers, Sequences, SequencesExt

CONSTANTS Bits,
          Blocked4,   \* ranges of IPv4: [base |-> address, bits |-> length of the prefix]
          Blocked6,   \* of IPv6, base a sequence of eight groups
          Embedding,  \* the six-group prefixes that wrap an IPv4 address
          Nothing     \* null

Base == 2 ^ Bits
Group == Base * Base

-----------------------------------------------------------------------------
(* Spellings *)

\* A number as inet_aton reads it: "0x" starts hexadecimal, a leading zero octal. A
\* part is its prefix ("0x", "0" or "") and the digits after it.
numeral(digits, radix) ==
    IF digits = <<>> \/ \E i \in 1..Len(digits) : digits[i] >= radix THEN Nothing
    ELSE FoldLeft(LAMBDA value, d : value * radix + d, 0, digits)
\* Mutant of parseIpv4Part: a leading zero means nothing.
parseIpv4PartDecimal(part) ==
    IF Len(part.prefix) + Len(part.digits) > 12 THEN Nothing
    ELSE IF part.prefix = "0x" THEN numeral(part.digits, 16)
    ELSE IF part = [prefix |-> "0", digits |-> <<>>] THEN 0
    ELSE numeral(part.digits, 10)
parseIpv4Part(part) ==
    IF Len(part.prefix) + Len(part.digits) > 12 THEN Nothing
    ELSE IF part.prefix = "0x" THEN numeral(part.digits, 16)
    ELSE IF part = [prefix |-> "0", digits |-> <<>>] THEN 0
    ELSE numeral(part.digits, IF part.prefix = "0" THEN 8 ELSE 10)

\* An IPv4 literal of one to four numbers; the last takes the bytes the others left.
parseIpv4(parts) ==
    LET n == Len(parts)
        values == [i \in 1..n |-> parseIpv4Part(parts[i])] IN
    IF n = 0 \/ n > 4 \/ \E i \in 1..n : values[i] = Nothing THEN Nothing
    ELSE IF (\E i \in 1..(n - 1) : values[i] >= Base) \/ values[n] >= Base ^ (5 - n) THEN Nothing
    ELSE values[n] + FoldLeftDomain(LAMBDA sum, i : IF i = n THEN sum
                                                    ELSE sum + values[i] * Base ^ (4 - i), 0, values)

\* The dotted tail of an IPv6 literal, in decimal only, as its two groups.
parseDottedQuad(parts) ==
    IF Len(parts) # 4 \/ \E i \in 1..Len(parts) : parts[i] = Nothing \/ parts[i] >= Base
    THEN Nothing
    ELSE <<parts[1] * Base + parts[2], parts[3] * Base + parts[4]>>

\* An IPv6 literal: groups before and after "::" (or all before, without it), and
\* perhaps a dotted tail. The address is its eight groups.
parseIpv6(text) ==
    LET tail == IF text.tail = <<>> THEN <<>> ELSE parseDottedQuad(text.tail)
        given == Len(text.head) + Len(text.rest) + (IF tail \in {<<>>, Nothing} THEN 0 ELSE 2)
        zeros == [i \in 1..(8 - given) |-> 0]
        groups == text.head \o (IF text.compressed THEN zeros ELSE <<>>) \o text.rest \o tail
    IN  IF tail = Nothing \/ (IF text.compressed THEN given > 7 ELSE given # 8) THEN Nothing
        ELSE IF \E i \in 1..8 : groups[i] = Nothing \/ groups[i] >= Group THEN Nothing
        ELSE groups

-----------------------------------------------------------------------------
(* Ranges *)

\* value & mask = base, the low `free` bits masked away.
masked(value, free) == value - (value % (2 ^ free))

blockedIpv4Range(value) ==
    \E r \in Blocked4 : masked(value, 4 * Bits - r.bits) = r.base

samePrefix(groups, r) ==
    \A i \in 1..8 :
        LET free == i * 2 * Bits - r.bits   \* the bits of this group outside the prefix
        IN  masked(groups[i], IF free <= 0 THEN 0 ELSE IF free > 2 * Bits THEN 2 * Bits ELSE free)
               = r.base[i]

low32(groups) == groups[7] * Group + groups[8]

blockedIpv6Range(groups) ==
    IF SubSeq(groups, 1, 6) \in Embedding THEN blockedIpv4Range(low32(groups))
    ELSE \E r \in Blocked6 : samePrefix(groups, r)

\* A literal: [parts], or [text].
isIpLiteral(l) ==
    CASE l.kind = "v4" -> parseIpv4(l.parts) # Nothing
      [] l.kind = "v6" -> parseIpv6(l.text) # Nothing
      [] l.kind = "name" -> FALSE
blockedRangeFor(l) ==
    /\ isIpLiteral(l)
    /\ CASE l.kind = "v4" -> blockedIpv4Range(parseIpv4(l.parts))
         [] l.kind = "v6" -> blockedIpv6Range(parseIpv6(l.text))

-----------------------------------------------------------------------------
(* The URL *)

checkHostnameLiteral(host, allowPrivateNetwork) ==
    IF host.kind = "empty" THEN "blocked_hostname"
    ELSE IF allowPrivateNetwork THEN Nothing
    ELSE IF host.kind = "name" /\ host.internal THEN "blocked_hostname"
    ELSE IF host.kind # "name" /\ blockedRangeFor(host) THEN "blocked_ip"
    ELSE Nothing

\* Every address a name resolves to is looked at; one that cannot be read counts
\* as one that may not be dialled.
checkRecords(records) ==
    IF records = <<>> THEN "dns_resolution_failed"
    ELSE IF \E i \in 1..Len(records) : ~isIpLiteral(records[i]) \/ blockedRangeFor(records[i])
    THEN "blocked_ip" ELSE "allowed"

\* url: [protocol, credentials, port, host]; records: what its name resolves to, <<>>
\* when it does not.
assertUrlAllowed(url, records, allowPrivateNetwork) ==
    LET literal == checkHostnameLiteral(url.host, allowPrivateNetwork) IN
    IF url.protocol \notin {"https:", "http:"} THEN "protocol_not_allowed"
    ELSE IF url.credentials THEN "credentials_in_url"
    ELSE IF ~(url.port \in {80, 443} \/ url.port >= 1024) THEN "port_not_allowed"
    ELSE IF literal # Nothing THEN literal
    ELSE IF isIpLiteral(url.host) \/ allowPrivateNetwork THEN "allowed"
    ELSE checkRecords(records)

=============================================================================
