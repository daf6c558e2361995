------------------------------ MODULE NetStack ------------------------------
(***************************************************************************)
(* The network stack, kernel/net/ethernet.c, arp.c, ipv4.c, icmp.c and     *)
(* udp.c, as operators on the kernel's network state k.                    *)
(*                                                                         *)
(* ipv4_send may wait in arp_resolve for an answer, and arp_resolve        *)
(* receives and handles whatever arrives while it waits.  A handler that   *)
(* answers a packet is therefore interrupted by other handlers: k.stack is *)
(* the stack of the calls in progress, the innermost last.  A function     *)
(* that waits pushes a record; Return carries its result to its caller.    *)
(*                                                                         *)
(* A host's hardware and protocol address are both its name, in different  *)
(* fields.  Header checks (lengths, versions, checksums) discard a frame,  *)
(* which on this wire is the same as losing it, and are left out.          *)
(***************************************************************************)
EXTENDS Integers, Sequences, SequencesExt

CONSTANTS
  TxCap,        \* frames the card's transmit ring holds
  QueueSize,    \* NET_RX_QUEUE_SIZE
  ArpSize,      \* ARP_CACHE_SIZE
  Sockets,      \* UDP_MAX_SOCKETS
  Me,           \* this machine's hardware address
  OnLink        \* the hosts of the local network

Zero == "0"           \* the unset address, 0.0.0.0
All == "broadcast"

NoEntry == [ip |-> Zero, mac |-> Zero, valid |-> FALSE]
NoSocket == [active |-> FALSE, port |-> 0, data |-> << >>]

\* The state after net_init and before dhcp_discover.
net_init ==
  [net   |-> [ip |-> Zero, gateway |-> Zero, subnet |-> Zero, dns |-> Zero,
              configured |-> FALSE],
   cache |-> [i \in 1 .. ArpSize |-> NoEntry],
   queue |-> << >>,  tx |-> << >>,  stack |-> << >>,
   udp   |-> [i \in 1 .. Sockets |-> NoSocket],
   ping  |-> [received |-> FALSE, seq |-> 0],
   txid  |-> 0]

-----------------------------------------------------------------------------
(* Ethernet. *)

net_rx_enqueue(k, f) ==
  IF Len(k.queue) = QueueSize - 1 THEN k ELSE [k EXCEPT !.queue = Append(@, f)]

\* eth_send, and e1000_send under it, fail when the ring is full.
CanSend(k) == Len(k.tx) < TxCap

eth_send(k, mac, f) ==
  IF CanSend(k) THEN [k EXCEPT !.tx = Append(@, [to |-> mac, frame |-> f])] ELSE k

-----------------------------------------------------------------------------
(* ARP. *)

Holding(c, ip) == {i \in DOMAIN c : c[i].valid /\ c[i].ip = ip}

First(S) == CHOOSE i \in S : \A j \in S : i <= j

\* Mutant: eviction forgets to copy the hardware address.
arp_cache_update_evict(c, ip, mac) ==
  LET free == {i \in DOMAIN c : ~c[i].valid}
      i == IF Holding(c, ip) # {} THEN First(Holding(c, ip))
           ELSE IF free # {} THEN First(free) ELSE 1
  IN  [c EXCEPT ![i] = [ip |-> ip, valid |-> TRUE,
                        mac |-> IF @.valid /\ @.ip # ip THEN @.mac ELSE mac]]

arp_cache_update(c, ip, mac) ==
  LET free == {i \in DOMAIN c : ~c[i].valid}
      i == IF Holding(c, ip) # {} THEN First(Holding(c, ip))
           ELSE IF free # {} THEN First(free) ELSE 1
  IN  [c EXCEPT ![i] = [ip |-> ip, mac |-> mac, valid |-> TRUE]]

ArpPacket(oper, spa, sha, tpa) ==
  [kind |-> "arp", oper |-> oper, spa |-> spa, sha |-> sha, tpa |-> tpa]

arp_send_request(k, ip) == eth_send(k, All, ArpPacket("request", k.net.ip, Me, ip))

arp_send_reply(k, ip, mac) == eth_send(k, mac, ArpPacket("reply", k.net.ip, Me, ip))

arp_rx_handler(k, f) ==
  LET k1 == [k EXCEPT !.cache = arp_cache_update(@, f.spa, f.sha)]
  IN  IF f.oper = "request" /\ f.tpa = k.net.ip /\ k.net.ip # Zero
      THEN arp_send_reply(k1, f.spa, f.sha) ELSE k1

-----------------------------------------------------------------------------
(* IPv4. *)

\* Mutant: a failure is not passed on.
Return_ignored(k, ok) ==
  IF k.stack # << >> /\ Last(k.stack).pc = "send" /\ ok
  THEN [k EXCEPT !.stack[Len(k.stack)].pc = "test"] ELSE k

\* What ipv4_send returned, to a caller that looks: icmp_ping and
\* dns_resolve go on to wait or fail at once.  A handler does not look.
Return(k, ok) ==
  IF k.stack # << >> /\ Last(k.stack).pc = "send"
  THEN IF ok THEN [k EXCEPT !.stack[Len(k.stack)].pc = "test"]
             ELSE [k EXCEPT !.stack[Len(k.stack)].pc = "failed"]
  ELSE k

\* The rest of ipv4_send once the next hop's hardware address is known.
Sent(k, dst, p) ==
  LET hop == Last(k.stack).ip
      mac == k.cache[First(Holding(k.cache, hop))].mac
      k1 == [k EXCEPT !.stack = Front(@)]
  IN  Return(eth_send(k1, mac, [kind |-> p.kind, src |-> k.net.ip, dst |-> dst, pay |-> p]),
             CanSend(k1))

\* A subnet mask of zero makes every address local.
NextHop(k, dst) ==
  IF k.net.subnet = Zero \/ dst \in OnLink THEN dst ELSE k.net.gateway

\* ipv4_send up to the wait in arp_resolve, which an address in the cache
\* saves; dst and p stay in the waiting call's record.
ipv4_send(k, dst, p) ==
  LET hop == NextHop(k, dst)
      k1 == [k EXCEPT !.stack = Append(@, [fn |-> "resolve", pc |-> "loop",
                                           ip |-> hop, dst |-> dst, p |-> p])]
  IN  IF Holding(k.cache, hop) # {} THEN Sent(k1, dst, p)
      ELSE arp_send_request(k1, hop)

-----------------------------------------------------------------------------
(* ICMP and UDP. *)

icmp_rx_handler(k, src, p) ==
  IF p.type = "request" THEN ipv4_send(k, src, [p EXCEPT !.type = "reply"])
  ELSE [k EXCEPT !.ping = [received |-> TRUE, seq |-> p.seq]]

Listening(k, port) ==
  {i \in DOMAIN k.udp : k.udp[i].active /\ k.udp[i].port = port}

\* A socket holds one datagram; the next one replaces it.
udp_rx_handler(k, p) ==
  IF Listening(k, p.port) = {} THEN k
  ELSE [k EXCEPT !.udp[First(Listening(k, p.port))].data = <<p>>]

FreeSockets(k) == {i \in DOMAIN k.udp : ~k.udp[i].active}

\* udp_open, where FreeSockets(k) # {}; the result is the slot it takes.
udp_open(k, port) ==
  [k EXCEPT !.udp[First(FreeSockets(k))] = [active |-> TRUE, port |-> port, data |-> << >>]]

udp_close(k, fd) == [k EXCEPT !.udp[fd] = NoSocket]

\* eth_rx_handler and ipv4_rx_handler.
eth_rx_handler(k, f) ==
  CASE f.kind = "arp" -> arp_rx_handler(k, f)
    [] f.kind = "icmp" -> icmp_rx_handler(k, f.src, f.pay)
    [] f.kind = "udp" -> udp_rx_handler(k, f.pay)
    [] OTHER -> k
=============================================================================
