--------------------------- MODULE MCPlayerInputs ---------------------------
EXTENDS PlayerInputs

MCMoves == {{"left"}, {"up", "right"}}
MCToggles == {{"joinable"}, {"ungroup", "intent"}}
=============================================================================
