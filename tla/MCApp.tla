------------------------------- MODULE MCApp -------------------------------
EXTENDS App, Integers, FiniteSets, TLC

CONSTANTS alice, bob, r1, r2

MCUsers == {alice, bob}
MCRequests == {r1, r2}

\* The accounts are interchangeable, so alice may be the first to register.
AliceFirst == bob \in registered => alice \in registered

\* Two login chains in flight until the post is submitted, one from then on.
ChainBound ==
    (\E p \in PostIds : flow[p].stage # "none") =>
        Cardinality({r \in Requests : request[r].stage # "idle"}) <= 1

\* The caption is typed before the picture is picked, and not deleted under it.
CaptionBound == selectedImage # Nil => captionText # Nil

Bounds == AliceFirst /\ ChainBound /\ CaptionBound

=============================================================================
