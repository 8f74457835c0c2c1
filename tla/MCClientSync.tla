---------------------------- MODULE MCClientSync ----------------------------
EXTENDS ClientSync
=============================================================================
