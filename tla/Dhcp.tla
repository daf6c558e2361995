-------------------------------- MODULE Dhcp --------------------------------
(***************************************************************************)
(* The DHCP client, kernel/net/dhcp.c, as operators on the kernel's        *)
(* network state, and the servers it talks to.  dhcp_discover reads frames *)
(* from the card itself, past the receive queue and the handlers, in two   *)
(* loops: one for an OFFER, one for an ACK.                                *)
(***************************************************************************)
EXTENDS NetStack

CONSTANTS
  Servers,     \* the DHCP servers of the local network
  Lease        \* Lease[s]: the address and the options server s gives out

Xid == "DEAD0001"          \* the transaction identifier, a constant
DhcpPort == 68

\* An option a message does not carry has the value Zero.
NoOptions == [subnet |-> Zero, router |-> Zero, dns |-> Zero, sid |-> Zero]

Dhcp(type, xid, ip, opt) ==
  [kind |-> "udp", src |-> opt.sid, dst |-> All,
   pay |-> [kind |-> "udp", port |-> DhcpPort, type |-> type, xid |-> xid,
            ip |-> ip, opt |-> opt]]

\* What build_dhcp writes: a REQUEST names the address and the server.
build_dhcp(type, ip, sid) ==
  [kind |-> "dhcp", type |-> type, ip |-> ip, sid |-> sid]

\* An option sets its variable, an absent one leaves it alone.
parse_options(opt, old) ==
  [x \in DOMAIN old |-> IF opt[x] = Zero THEN old[x] ELSE opt[x]]

\* The first half of dhcp_discover.  It opens a socket that it never reads.
dhcp_discover(k) ==
  LET k1 == [udp_open(k, DhcpPort) EXCEPT !.net.ip = Zero]
      k2 == [k1 EXCEPT !.stack = <<[fn |-> "dhcp", pc |-> "offer", ip |-> Zero,
                                    opt |-> NoOptions, fd |-> First(FreeSockets(k)),
                                    saved |-> k.net.ip]>>]
  IN  eth_send(k2, All, build_dhcp("discover", Zero, Zero))

\* Mutant: the transaction identifier is not looked at.
ForUs_any(f) == f.kind = "udp" /\ f.pay.port = DhcpPort

\* The tests at the head of both loops.
ForUs(f) == f.kind = "udp" /\ f.pay.port = DhcpPort /\ f.pay.xid = Xid

\* The body of the first loop: options are taken from any of our messages,
\* the address from an OFFER, which is answered with a REQUEST.
dhcp_offer(k, f) ==
  LET me == k.stack[1]
      opt == parse_options(f.pay.opt, me.opt)
      k1 == [k EXCEPT !.stack[1].opt = opt]
  IN  IF ~ForUs(f) THEN k
      ELSE IF f.pay.type # "offer" THEN k1
      ELSE eth_send([k1 EXCEPT !.stack[1].ip = f.pay.ip, !.stack[1].pc = "ack"],
                    All, build_dhcp("request", f.pay.ip, opt.sid))

\* The body of the second loop and the end of the call.
dhcp_ack(k, f) ==
  LET me == k.stack[1]
      opt == parse_options(f.pay.opt, me.opt)
  IN  IF ~ForUs(f) \/ f.pay.type # "ack" THEN k
      ELSE [udp_close(k, me.fd) EXCEPT
              !.stack = << >>,
              !.net = [ip |-> me.ip, gateway |-> opt.router, subnet |-> opt.subnet,
                       dns |-> opt.dns, configured |-> TRUE]]

\* Either loop runs out of time.
dhcp_timeout(k) ==
  [udp_close(k, k.stack[1].fd) EXCEPT !.stack = << >>, !.net.ip = k.stack[1].saved]

-----------------------------------------------------------------------------
(* The servers. *)

ServerOptions(s) == [subnet |-> Lease[s].subnet, router |-> Lease[s].router,
                     dns |-> Lease[s].dns, sid |-> s]

\* An ACK may repeat the options of the OFFER or leave them out.
Answers(s, d) ==
  IF d.type = "discover"
  THEN {Dhcp("offer", Xid, Lease[s].ip, ServerOptions(s))}
  ELSE IF d.sid = s
       THEN {Dhcp("ack", Xid, d.ip, ServerOptions(s)),
             Dhcp("ack", Xid, d.ip, [NoOptions EXCEPT !.sid = s]),
             Dhcp("nak", Xid, Zero, [NoOptions EXCEPT !.sid = s])}
       ELSE {}

\* What the same servers send to another client, which everybody hears.
Overheard(s, ip) ==
  {Dhcp(type, "other", ip, ServerOptions(s)) : type \in {"offer", "ack"}}
=============================================================================
