-------------------------- MODULE MCSessionService --------------------------
EXTENDS SessionService
CONSTANTS m
=============================================================================
