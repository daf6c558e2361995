-------------------------------- MODULE Net ---------------------------------
(***************************************************************************)
(* The network stack at work: dhcp_discover at boot, then the calls of the *)
(* shell's ping and dns commands, icmp_ping and dns_resolve, one at a      *)
(* time.  The rings of the card are the queues of NicLink.  The network    *)
(* loses, delays, reorders and repeats frames; its hosts tell the truth.   *)
(*                                                                         *)
(* The deadline of a loop is tested between two rounds of polling, and may *)
(* have passed at any such test: Timeout.                                  *)
(***************************************************************************)
EXTENDS Dhcp, FiniteSets

CONSTANTS
  RxCap,                \* frames the card's receive ring holds
  Far,                  \* the hosts beyond the gateway
  Targets, Pingers, Askers,     \* the hosts pinged, pinging, asking by ARP
  Names, Addr,          \* Addr[n]: the address of name n, Zero if it has none
  DnsPort,              \* 53001
  Seqs,                 \* Seqs[c]: sequence numbers for a ping after c calls
  MaxCalls,             \* bound on calls
  MaxExtra              \* bound on frames of the hosts' own and repeated ones

ASSUME NetAssumption ==
  /\ TxCap \in Nat \ {0} /\ RxCap \in Nat \ {0} /\ QueueSize \in Nat \ {0, 1}
  /\ ArpSize \in Nat \ {0} /\ Sockets \in Nat \ {0}
  /\ MaxCalls \in Nat /\ MaxExtra \in Nat /\ Seqs \in [0 .. MaxCalls -> SUBSET Nat]
  /\ Askers \subseteq OnLink /\ Targets \cup Pingers \subseteq OnLink \cup Far
  /\ OnLink \cap Far = {} /\ {Zero, All, Me} \cap (OnLink \cup Far) = {}
  /\ DnsPort # DhcpPort

\* A server that gives a subnet mask gives a name server that exists; with no
\* mask every address counts as local, the missing name server's too.
ASSUME LeaseAssumption ==
  \A s \in Servers : Lease[s].subnet # Zero => Lease[s].dns \in OnLink \cup Far

VARIABLES
  k,            \* the kernel's network state
  rx,           \* frames in the card's receive ring
  air,          \* frames on their way to this machine
  acked,        \* the servers that granted this machine an address
  calls, extra, \* what has been used of the bounds
  heard,        \* the echo replies handled since the last call began
  result        \* what the last call returned

netVars == <<k, rx, air, acked, calls, extra, heard, result>>
netBounds == <<calls, extra>>

NoResult == [fn |-> "none", ok |-> FALSE]
Top == Last(k.stack)
Depth == Len(k.stack)
Busy == k.stack # << >>

NetInit ==
  /\ k = net_init /\ rx = << >>
  /\ \E s \in Servers : air = Overheard(s, "X")
  /\ acked = {} /\ heard = {} /\ result = NoResult
  /\ calls = 0 /\ extra = 0

-----------------------------------------------------------------------------
(* Calls. *)

\* svc_dhcp, once.
CallDhcp ==
  /\ calls = 0 /\ ~Busy
  /\ k' = dhcp_discover(k)
  /\ calls' = 1
  /\ UNCHANGED <<rx, air, acked, extra, heard, result>>

\* The call's stack record, with the packet it is about to send.
Ping(dst, seq) == [fn |-> "ping", pc |-> "send", dst |-> dst, seq |-> seq]

icmp_ping(dst, seq) ==
  /\ calls > 0 /\ calls < MaxCalls /\ ~Busy
  /\ calls' = calls + 1 /\ heard' = {} /\ result' = NoResult
  /\ k' = ipv4_send([k EXCEPT !.stack = <<Ping(dst, seq)>>, !.ping.received = FALSE],
                    dst, [kind |-> "icmp", type |-> "request", seq |-> seq])
  /\ UNCHANGED <<rx, air, acked, extra>>

\* dns_resolve: udp_open, a fresh transaction identifier, udp_send.
dns_resolve(name) ==
  /\ k.net.configured /\ FreeSockets(k) # {}
  /\ calls > 0 /\ calls < MaxCalls /\ ~Busy
  /\ calls' = calls + 1 /\ heard' = {} /\ result' = NoResult
  /\ k' = ipv4_send([udp_open(k, DnsPort) EXCEPT
                       !.txid = @ + 1,
                       !.stack = <<[fn |-> "dns", pc |-> "send", name |-> name,
                                    txid |-> k.txid, fd |-> First(FreeSockets(k))]>>],
                    k.net.dns,
                    [kind |-> "udp", port |-> DnsPort, txid |-> k.txid, name |-> name])
  /\ UNCHANGED <<rx, air, acked, extra>>

\* Mutant: dns_resolve returns early without udp_close.
Ended_leak(k1, r) == k' = [k1 EXCEPT !.stack = << >>] /\ result' = r

\* The call of the whole stack ends.
Ended(k1, r) ==
  /\ k' = [(IF k.stack[1].fn = "dns" THEN udp_close(k1, k.stack[1].fd) ELSE k1)
             EXCEPT !.stack = << >>]
  /\ result' = r

\* ipv4_send failed: no hardware address, or no room in the ring.
SendFailed ==
  /\ Busy /\ Top.pc = "failed"
  /\ Ended(k, [fn |-> Top.fn, ok |-> FALSE])
  /\ UNCHANGED <<rx, air, acked, netBounds, heard>>

-----------------------------------------------------------------------------
(* Waiting: the loops of arp_resolve, icmp_ping, udp_recv, dhcp_discover. *)

Waiting == Busy /\ Top.pc \in {"loop", "test", "offer", "ack"}

\* arp_resolve takes one frame and drains the queue; net_rx_process, under
\* icmp_ping and udp_recv, takes all there are and then drains the queue.
Poll ==
  /\ Busy /\ Top.pc \in {"loop", "test", "recv"} /\ rx # << >>
  /\ k' = [net_rx_enqueue(k, Head(rx)) EXCEPT
             !.stack[Depth].pc = IF Top.fn = "resolve" THEN "drain" ELSE "recv"]
  /\ rx' = Tail(rx)
  /\ UNCHANGED <<air, acked, netBounds, heard, result>>

RingEmpty ==
  /\ Busy /\ Top.pc = "recv" /\ rx = << >>
  /\ k' = [k EXCEPT !.stack[Depth].pc = "drain"]
  /\ UNCHANGED <<rx, air, acked, netBounds, heard, result>>

\* net_rx_dequeue and the handler, which may push a call of its own.
Handle ==
  /\ Busy /\ Top.pc = "drain" /\ k.queue # << >>
  /\ LET f == Head(k.queue)
     IN  /\ k' = eth_rx_handler([k EXCEPT !.queue = Tail(@)], f)
         /\ heard' = IF f.kind = "icmp" /\ f.pay.type = "reply"
                      THEN heard \cup {[src |-> f.src, seq |-> f.pay.seq]} ELSE heard
  /\ UNCHANGED <<rx, air, acked, netBounds, result>>

\* arp_resolve, queue drained: the cache has the address now, or not yet.
Resolved ==
  /\ Busy /\ Top.fn = "resolve" /\ Top.pc = "drain" /\ k.queue = << >>
  /\ k' = IF Holding(k.cache, Top.ip) # {} THEN Sent(k, Top.dst, Top.p)
          ELSE [k EXCEPT !.stack[Depth].pc = "loop"]
  /\ UNCHANGED <<rx, air, acked, netBounds, heard, result>>

\* Mutant: the sequence number of the reply is not compared.
PingAnswered_anyseq == k.ping.received

PingAnswered == k.ping.received /\ k.ping.seq = Top.seq

\* Mutant: the answer's transaction identifier is not compared.
DnsResult_anyid(d, call) == [fn |-> "dns", name |-> call.name, addr |-> Addr[d.name],
                             ok |-> d.ancount > 0 /\ Addr[d.name] # Zero]

\* What dns_resolve makes of a datagram on its port: the first A record, if
\* it answers the query.
DnsResult(d, call) == [fn |-> "dns", name |-> call.name, addr |-> Addr[d.name],
                       ok |-> d.txid = call.txid /\ d.ancount > 0 /\ Addr[d.name] # Zero]

\* icmp_ping and udp_recv after net_rx_process.
Checked ==
  /\ Busy /\ Top.fn \in {"ping", "dns"} /\ k.queue = << >>
  /\ Top.pc = "drain" \/ (Top.pc = "test" /\ rx = << >>)
  /\ \/ /\ Top.fn = "ping" /\ PingAnswered
        /\ Ended([k EXCEPT !.ping.received = FALSE],
                 [fn |-> "ping", ok |-> TRUE, seq |-> Top.seq, dst |-> Top.dst])
     \/ /\ Top.fn = "dns" /\ k.udp[Top.fd].data # << >>
        /\ Ended(k, DnsResult(k.udp[Top.fd].data[1], Top))
     \/ /\ Top.pc = "drain"
        /\ IF Top.fn = "ping" THEN ~PingAnswered ELSE k.udp[Top.fd].data = << >>
        /\ k' = [k EXCEPT !.stack[1].pc = "test"]
        /\ UNCHANGED result
  /\ UNCHANGED <<rx, air, acked, netBounds, heard>>

\* A bound: frames still on their way when dhcp_discover returns are lost.
\* No handler would act on a DHCP message any more.
Pending(k1) == IF Top.fn = "dhcp" /\ k1.stack = << >> THEN {} ELSE air

\* The two loops of dhcp_discover.
DhcpPoll ==
  /\ Busy /\ Top.fn = "dhcp" /\ rx # << >>
  /\ k' = IF Top.pc = "offer" THEN dhcp_offer(k, Head(rx)) ELSE dhcp_ack(k, Head(rx))
  /\ rx' = Tail(rx)
  /\ air' = Pending(k')
  /\ UNCHANGED <<acked, netBounds, heard, result>>

Timeout ==
  /\ Waiting
  /\ \/ Top.fn = "resolve" /\ k' = Return([k EXCEPT !.stack = Front(@)], FALSE) /\ UNCHANGED result
     \/ Top.fn \in {"ping", "dns"} /\ Ended(k, [fn |-> Top.fn, ok |-> FALSE])
     \/ Top.fn = "dhcp" /\ rx = << >> /\ k' = dhcp_timeout(k) /\ UNCHANGED result
  /\ air' = Pending(k')
  /\ UNCHANGED <<rx, acked, netBounds, heard>>

-----------------------------------------------------------------------------
(* The network. *)

Arrive(f) ==
  /\ Len(rx) < RxCap /\ rx' = Append(rx, f)
  /\ \/ air' = air \ {f} /\ UNCHANGED extra
     \/ extra < MaxExtra /\ extra' = extra + 1 /\ UNCHANGED air
  /\ UNCHANGED <<k, acked, calls, heard, result>>

\* A frame with hardware address mac gets to dst: the host itself, or the
\* gateway for a host beyond it.
Reaches(mac, dst, gateway) == mac = dst \/ (mac = gateway /\ dst \in Far)

\* What the hosts answer to a frame of this machine, if it is theirs.
Reactions(t) ==
  LET f == t.frame IN
  CASE f.kind = "arp" ->
         IF f.oper = "request" /\ f.tpa \in OnLink
         THEN {ArpPacket("reply", f.tpa, f.tpa, f.spa)} ELSE {}
    [] f.kind = "icmp" ->
         IF f.pay.type = "request" /\ Reaches(t.to, f.dst, k.net.gateway)
         THEN {[kind |-> "icmp", src |-> f.dst, dst |-> f.src,
                pay |-> [f.pay EXCEPT !.type = "reply"]]} ELSE {}
    [] f.kind = "udp" ->
         IF Reaches(t.to, f.dst, k.net.gateway)
         THEN {[kind |-> "udp", src |-> f.dst, dst |-> f.src,
                pay |-> [port |-> f.pay.port, txid |-> f.pay.txid, name |-> f.pay.name,
                         ancount |-> IF Addr[f.pay.name] = Zero THEN 0 ELSE 1]]} ELSE {}
    [] OTHER -> {}

\* The card sends a frame.  DHCP servers answer each in its own way or not
\* at all; a server that acknowledges keeps the address for this machine.
Depart ==
  /\ k.tx # << >>
  /\ k' = [k EXCEPT !.tx = Tail(@)]
  /\ LET t == Head(k.tx) IN
     IF t.frame.kind # "dhcp"
     THEN air' = air \cup Reactions(t) /\ UNCHANGED acked
     ELSE \/ /\ t.frame.type = "discover"
             /\ air' = air \cup UNION {Answers(s, t.frame) : s \in Servers}
             /\ UNCHANGED acked
          \/ \E s \in Servers : \E a \in Answers(s, t.frame) :
               /\ t.frame.type = "request"
               /\ air' = air \cup {a}
               /\ acked' = IF a.pay.type = "ack" THEN acked \cup {s} ELSE acked
          \/ air' = air /\ UNCHANGED acked
  /\ UNCHANGED <<rx, netBounds, heard, result>>

\* Hosts ask for this machine or for each other, and ping this machine.
PeerArp(h, tpa) ==
  /\ k.net.configured
  /\ extra < MaxExtra /\ extra' = extra + 1
  /\ air' = air \cup {ArpPacket("request", h, h, tpa)}
  /\ UNCHANGED <<k, rx, acked, calls, heard, result>>

PeerEcho(h) ==
  /\ k.net.configured
  /\ extra < MaxExtra /\ extra' = extra + 1
  /\ air' = air \cup {[kind |-> "icmp", src |-> h, dst |-> k.net.ip,
                       pay |-> [kind |-> "icmp", type |-> "request", seq |-> 0]]}
  /\ UNCHANGED <<k, rx, acked, calls, heard, result>>

Kernel ==
  \/ CallDhcp \/ SendFailed \/ Poll \/ RingEmpty \/ Handle \/ Resolved
  \/ Checked \/ DhcpPoll \/ Timeout
  \/ \E dst \in Targets : \E seq \in Seqs[calls] : icmp_ping(dst, seq)
  \/ \E name \in Names : dns_resolve(name)

Network ==
  \/ \E f \in air : Arrive(f)
  \/ Depart
  \/ \E h \in Askers : PeerArp(h, k.net.ip) \/ PeerArp(h, "X")
  \/ \E h \in Pingers : PeerEcho(h)

NetNext == Kernel \/ Network

\* The kernel runs, and a deadline passes.
NetSpec ==
  /\ NetInit /\ [][NetNext]_netVars
  /\ WF_netVars(SendFailed \/ Poll \/ RingEmpty \/ Handle \/ Resolved \/ Checked \/ DhcpPoll)
  /\ WF_netVars(Timeout)

-----------------------------------------------------------------------------
(* Properties. *)

\* However handlers nest and answers are lost, late or repeated, every IPv4
\* packet is addressed to its destination, or to the lease's gateway if the
\* destination is beyond it: what the cache says when arp_resolve returns is
\* what arrived for that address.
SentToOwner ==
  \A i \in DOMAIN k.tx :
    k.tx[i].frame.kind \in {"icmp", "udp"} =>
      Reaches(k.tx[i].to, k.tx[i].frame.dst, k.net.gateway)

Heard == {h.seq : h \in heard}

\* icmp_ping reports success only if an echo reply with its sequence number
\* was handled after it began: not one that an earlier call left behind, and
\* not the late reply to an earlier ping with another number.
PingHeard == result.fn = "ping" /\ result.ok => result.seq \in Heard

\* As icmp.c has it, icmp_ping waits "for matching reply": the one it reports
\* came from the host it pinged.  The code compares the sequence number only,
\* and cmd_ping numbers the pings of every command from 1.
PingMatched ==
  result.fn = "ping" /\ result.ok => [src |-> result.dst, seq |-> result.seq] \in heard

\* dns_resolve returns an address only of the name it was asked for, though
\* an answer to an earlier query may arrive on the same port.
DnsTruth == result.fn = "dns" /\ result.ok => result.addr = Addr[result.name]

\* After dhcp_discover this machine uses an address that a server granted
\* it, with the options of that server; or it is not configured at all.
LeaseHeld ==
  IF k.net.configured
  THEN \E s \in acked : k.net = [ip |-> Lease[s].ip, gateway |-> Lease[s].router,
                                 subnet |-> Lease[s].subnet, dns |-> Lease[s].dns,
                                 configured |-> TRUE]
  ELSE k.net = net_init.net

\* Sockets and stack are given back: no call in progress means no socket
\* open and no frame left in the receive queue.
NothingLeft == ~Busy => FreeSockets(k) = DOMAIN k.udp /\ k.queue = << >>

\* Every call returns, also when nothing is ever answered.
CallReturns == Busy ~> ~Busy
=============================================================================
