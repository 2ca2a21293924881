---------------------------- MODULE MCTempSensor ----------------------------
EXTENDS TempSensor
=============================================================================
