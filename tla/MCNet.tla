------------------------------- MODULE MCNet --------------------------------
EXTENDS Net
\* One server that gives out everything, one that gives out an address only.
MCLease == [G |-> [ip |-> "A", subnet |-> "24", router |-> "G", dns |-> "G"],
            S |-> [ip |-> "B", subnet |-> Zero, router |-> Zero, dns |-> Zero]]
MCAddr == [n |-> "P", m |-> Zero]
\* Pings are numbered in turn, 2, 1, 2: an answer to the first may come during
\* a ping with another number, or with its own.
MCSeqs == [c \in 0 .. MaxCalls |-> {1 + (c % 2)}]
=============================================================================
