---------------------------- MODULE MCApFallback ----------------------------
EXTENDS ApFallback
=============================================================================
