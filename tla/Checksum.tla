------------------------------ MODULE Checksum ------------------------------
(***************************************************************************)
(* The checksums of kernel/net/ipv4.c on one UDP datagram: udp_send fills  *)
(* in the sum udp_checksum computes, and a receiver tests it.  Bytes and   *)
(* 16-bit words are those of the code; a word in memory is little-endian.  *)
(***************************************************************************)
EXTENDS Integers, Sequences, SequencesExt

CONSTANTS
  Addresses,           \* IPv4 addresses, four bytes in network order
  Payloads             \* payloads, sequences of bytes

VARIABLES
  net_ip, dst,         \* the two ends
  segment,             \* UDP header and payload
  phase                \* "idle", "sent", "accepted", "refused"

sumVars == <<net_ip, dst, segment, phase>>

Ports == <<0, 68, 0, 67>>     \* source and destination port, in network order

\* The words of a byte sequence, read as the processor does; an odd byte
\* counts as a word.
WordsLE(b) == [i \in 1 .. (Len(b) + 1) \div 2 |->
                 b[2*i - 1] + (IF 2*i <= Len(b) THEN 256 * b[2*i] ELSE 0)]
WordsBE(b) == [i \in 1 .. Len(b) \div 2 |-> 256 * b[2*i - 1] + b[2*i]]

Total(words) == FoldLeft(LAMBDA s, w : s + w, 0, words)

RECURSIVE Folded(_)
Folded(sum) == IF sum < 65536 THEN sum ELSE Folded((sum % 65536) + (sum \div 65536))

ip_checksum(b) == 65535 - Folded(Total(WordsLE(b)))

Length(b) == <<Len(b) \div 256, Len(b) % 256>>     \* htons

UDPPseudo(s, d, b) == s \o d \o <<0, 17>> \o Length(b)

\* The pseudo-header is summed in big-endian words, the data in
\* little-endian ones.
udp_checksum(s, d, b) ==
  65535 - Folded(Total(WordsBE(UDPPseudo(s, d, b))) + Total(WordsLE(b)))

Header(len, sum) == Ports \o <<(8 + len) \div 256, (8 + len) % 256, sum % 256, sum \div 256>>

-----------------------------------------------------------------------------
SumInit ==
  /\ net_ip \in Addresses /\ dst \in Addresses \ {net_ip}
  /\ segment = << >> /\ phase = "idle"

udp_send(data) ==
  LET sum == udp_checksum(net_ip, dst, Header(Len(data), 0) \o data)
  IN  /\ phase = "idle" /\ phase' = "sent"
      /\ segment' = Header(Len(data), sum) \o data
      /\ UNCHANGED <<net_ip, dst>>

\* A receiver that follows RFC 768: the ones' complement sum of pseudo-header
\* and segment, all in words of one byte order, is all ones; a checksum of
\* zero is not tested.
Receive ==
  /\ phase = "sent"
  /\ phase' = IF \/ segment[7] = 0 /\ segment[8] = 0
                 \/ ip_checksum(UDPPseudo(net_ip, dst, segment) \o segment) = 0
              THEN "accepted" ELSE "refused"
  /\ UNCHANGED <<net_ip, dst, segment>>

SumNext == (\E data \in Payloads : udp_send(data)) \/ Receive

SumSpec == SumInit /\ [][SumNext]_sumVars

\* The checksum udp_send fills in is the one a receiver computes: no datagram
\* is refused on a network that does not alter it.
UdpChecksumCorrect == phase # "refused"
=============================================================================
