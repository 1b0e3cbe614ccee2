------------------------------- MODULE MCFeed -------------------------------
EXTENDS Feed, TLC
=============================================================================
