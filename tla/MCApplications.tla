--------------------------- MODULE MCApplications ---------------------------
(***************************************************************************)
(* The programs of the kernel for TLC: the shell starts the installer or   *)
(* the desktop, or a script is run.  There is no scheduler: a program has  *)
(* the machine until it returns, and the three share no state.             *)
(***************************************************************************)
EXTENDS MCInstaller, MCDesktop, MCScript

VARIABLE running         \* the program that was started

appVars == <<running, instVars, deskVars, scriptVars>>

\* Without the installer the size of the drive is of no interest.
AppInit ==
  /\ running \in {"installer", "desktop", "script"}
  /\ InstallerInit /\ DesktopInit /\ ScriptInit
  /\ running = "installer" \/ total = 0

RunInstaller == running = "installer" /\ InstallerNext /\ UNCHANGED <<running, deskVars, scriptVars>>
RunDesktop == running = "desktop" /\ DesktopNext /\ UNCHANGED <<running, instVars, scriptVars>>
RunScript == running = "script" /\ ScriptNext /\ UNCHANGED <<running, instVars, deskVars>>

AppNext == RunInstaller \/ RunDesktop \/ RunScript

AppSpec == AppInit /\ [][AppNext]_appVars
=============================================================================
