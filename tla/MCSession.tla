----------------------------- MODULE MCSession -----------------------------
EXTENDS Session, TLC

CONSTANTS alice, bob, r1, r2, r3

MCUsers == {alice, bob}
MCRequests == {r1, r2, r3}

=============================================================================
