------------------------------- MODULE MCPs2 -------------------------------
EXTENDS Ps2

\* 'a' and Up (extended).
MCTwoKeys == { <<30>>, <<224, 72>> }
MCPrintable == {1, 16, 26, 28, 30, 71, 72}
MCLetters == {16, 30}

\* What firmware leaves: translation, the first port's interrupt and the
\* second port on.
MCOneConfig == {71}

\* A press while moving right, a release while moving down and left.
MCButton == { <<9, 2, 0>>, <<56, 255, 254>> }
=============================================================================
