---------------------------- MODULE MCTcpReader ----------------------------
(***************************************************************************)
(* Small instances, for TLC, of what brings bytes in: the Epoller under    *)
(* the loop, the read side of a connection, and the buffers.  What one of  *)
(* them counts never constrains another here, so a behaviour uses one.     *)
(***************************************************************************)
EXTENDS TcpReader, Buffer, Epoller

ReadInit == Init /\ BufferInit /\ EpollerInit

ReadNext ==
    \/ Next /\ BufferInit /\ EpollerInit /\ UNCHANGED <<bufferVars, epollerVars>>
    \/ BufferNext /\ Init /\ EpollerInit /\ UNCHANGED <<vars, epollerVars>>
    \/ EpollerNext /\ Init /\ BufferInit /\ UNCHANGED <<vars, bufferVars>>

ReadSpec ==
    /\ ReadInit /\ [][ReadNext]_<<vars, bufferVars, epollerVars>>
    /\ EpollerFairness

\* Every component's state is what its variables' comments say it may be.
ReadTypesOK == TypeOK /\ BufferTypeOK /\ EpollerTypeOK
=============================================================================
