----------------------------- MODULE MCServices -----------------------------
(***************************************************************************)
(* Small instances, for TLC, of what stands around the connections: the    *)
(* coroutines of servers and clients, the gRPC service, the registration   *)
(* in etcd and the channel of pools.  They share no state, so a behaviour  *)
(* uses one of them: while one is in use the others are as they were made. *)
(***************************************************************************)
EXTENDS CoServer, GrpcService, Etcd, ClientChannel

ServicesInit == CoServerInit /\ GrpcInit /\ EtcdInit /\ ChannelInit

servicesVars == <<coServerVars, grpcVars, etcdVars, channelVars>>

ServicesNext ==
    \/ /\ CoServerNext
       /\ GrpcInit /\ EtcdInit /\ ChannelInit
       /\ UNCHANGED <<grpcVars, etcdVars, channelVars>>
    \/ /\ GrpcNext
       /\ CoServerInit /\ EtcdInit /\ ChannelInit
       /\ UNCHANGED <<coServerVars, etcdVars, channelVars>>
    \/ /\ EtcdNext
       /\ CoServerInit /\ GrpcInit /\ ChannelInit
       /\ UNCHANGED <<coServerVars, grpcVars, channelVars>>
    \/ /\ ChannelNext
       /\ CoServerInit /\ GrpcInit /\ EtcdInit
       /\ UNCHANGED <<coServerVars, grpcVars, etcdVars>>

ServicesSpec ==
    /\ ServicesInit /\ [][ServicesNext]_servicesVars
    /\ CoServerFairness /\ GrpcFairness /\ EtcdFairness

\* Every component's state is what its variables' comments say it may be.
ServicesTypesOK ==
    CoServerTypeOK /\ GrpcTypeOK /\ EtcdTypeOK /\ ChannelTypeOK
=============================================================================
