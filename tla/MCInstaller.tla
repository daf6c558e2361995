---------------------------- MODULE MCInstaller -----------------------------
EXTENDS Installer
\* The second start installs a smaller kernel, the third a larger one.
MCKernel == <<2, 1, 3>>
=============================================================================
