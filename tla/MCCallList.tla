------------------------------ MODULE MCCallList ------------------------------
(* Small instance of CallList: as many calls as there are IDs, so that the    *)
(* generator wraps around and no ID is used twice.                            *)
EXTENDS CallList
=============================================================================
