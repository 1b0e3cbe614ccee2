-------------------------- MODULE MCWritePipeline --------------------------
EXTENDS WritePipeline, TLC

CONSTANTS alice, bob

MCUsers == {alice, bob}

=============================================================================
