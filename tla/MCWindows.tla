------------------------------ MODULE MCWindows ------------------------------
(***************************************************************************)
(* What the shell's windows show, and the session they show it over.  Each *)
(* is a component of its own, and a behaviour is one of them; tabs,        *)
(* windows, sessions and requests are interchangeable.                     *)
(***************************************************************************)
EXTENDS TabManager, ShellSession, TLC

CONSTANT Parts  (* the components the run looks at *)
VARIABLE part
windowsVars == <<part, tabVars, sessionVars>>

WindowsSymmetry ==
  Permutations(Tabs) \cup Permutations(Wins) \cup
  Permutations(Sessions) \cup Permutations(Requests)

WindowsInit == part \in Parts /\ TabInit /\ SessionInit

WindowsNext ==
  /\ part' = part
  /\ \/ part = "tabs" /\ TabNext /\ UNCHANGED sessionVars
     \/ part = "session" /\ SessionNext /\ UNCHANGED tabVars

WindowsSpec == WindowsInit /\ [][WindowsNext]_windowsVars
=============================================================================
