---------------------------- MODULE MCTaskIntents ----------------------------
EXTENDS TaskIntents
=============================================================================
