-------------------------- MODULE MCServerConnection --------------------------
(* Small instance of ServerConnection: two callback threads, and one message *)
(* of each kind that the peer may send several times.                        *)
EXTENDS ServerConnection
=============================================================================
