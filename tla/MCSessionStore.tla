--------------------------- MODULE MCSessionStore ---------------------------
EXTENDS SessionStore, TLC
CONSTANTS a, b, c
TwoProcesses == (a :> 1) @@ (b :> 1) @@ (c :> 2)
ThreeProcesses == (a :> 1) @@ (b :> 2) @@ (c :> 3)
==============================================================================
