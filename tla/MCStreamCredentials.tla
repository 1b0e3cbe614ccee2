------------------------ MODULE MCStreamCredentials ------------------------
EXTENDS StreamCredentials, TLC

CONSTANTS alice, bob, c1

MCUsers == {alice, bob}
MCCalls == {c1}

=============================================================================
