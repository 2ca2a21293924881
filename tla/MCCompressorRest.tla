-------------------------- MODULE MCCompressorRest --------------------------
EXTENDS CompressorRest

AllPoints == Points
AllCalls == BOOLEAN \X BOOLEAN
=============================================================================
