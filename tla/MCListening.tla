---------------------------- MODULE MCListening ----------------------------
EXTENDS Listening, TLC
=============================================================================
