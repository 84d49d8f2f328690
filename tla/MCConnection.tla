---------------------------- MODULE MCConnection ----------------------------
(* Small instance of Connection: two kinds of messages of the peer.         *)
EXTENDS Connection
=============================================================================
