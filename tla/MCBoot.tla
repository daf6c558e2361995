------------------------------- MODULE MCBoot ------------------------------
EXTENDS Boot

\* What kmain registers; a list with a critical service that can fail; and
\* one that is longer than the service table.
MCAny ==
  { KmainServices,
    <<Svc("hpet", FALSE), Svc("sti", TRUE), Svc("nic", FALSE), Svc("fallible", TRUE)>>,
    [k \in 1 .. 19 |-> Svc("plain", TRUE)] }
=============================================================================
