-------------------------------- MODULE MCEdge --------------------------------
EXTENDS EdgeMachine, EdgeConfigs
=============================================================================
