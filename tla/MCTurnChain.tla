---------------------------- MODULE MCTurnChain ----------------------------
EXTENDS TurnChain
=============================================================================
