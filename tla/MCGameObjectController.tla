----------------------- MODULE MCGameObjectController -----------------------
EXTENDS GameObjectController
=============================================================================
