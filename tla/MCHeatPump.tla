---------------------------- MODULE MCHeatPump ----------------------------
EXTENDS HeatPump

AllPoints == Points
HeatOnly == BOOLEAN \X {FALSE}
AllCalls == BOOLEAN \X BOOLEAN
=============================================================================
