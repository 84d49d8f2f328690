-------------------------------- MODULE MCData --------------------------------
(* The path of calls, the buffers of messages and the pool of objects share *)
(* no state: a behaviour is one of either, chosen at first.                 *)
EXTENDS MCCallPath, Buffers, SharedObjects

VARIABLE part

dataVars == <<pathVars, bufferVars, poolVars, part>>

MCInit ==
    PathInit /\ BuffersInit /\ PoolInit /\ part \in {"path", "buffers", "pool"}

MCNext ==
    /\ \/ part = "path" /\ PathNext /\ UNCHANGED <<bufferVars, poolVars>>
       \/ part = "buffers" /\ BuffersNext /\ UNCHANGED <<pathVars, poolVars>>
       \/ part = "pool" /\ PoolNext /\ UNCHANGED <<pathVars, bufferVars>>
    /\ UNCHANGED part

MCSpec == MCInit /\ [][MCNext]_dataVars

=============================================================================
