------------------------------ MODULE MCRecovery ------------------------------
EXTENDS Recovery

\* Every tool, or only those that must wait for the commit.
AllKinds == {"plain", "safe"}
EffectsOnly == {"plain"}

\* The chain of up to four policies decides as its priorities say.
ASSUME ChainKeepsPriority == DenyAllowAsk(4) /\ DenialStands(3)
==============================================================================
