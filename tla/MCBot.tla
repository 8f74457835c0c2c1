-------------------------------- MODULE MCBot --------------------------------
EXTENDS Bot
=============================================================================
