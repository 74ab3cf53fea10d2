--------------------------- MODULE MCTaskDelivery ---------------------------
EXTENDS TaskDelivery
CONSTANTS shell, agent, other
=============================================================================
