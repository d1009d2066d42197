--------------------------- MODULE ClientChannel ---------------------------
(***************************************************************************)
(* A ClientChannel: a resolver tells it the nodes of a service, it keeps a *)
(* client pool for each, and every request picks a node at random and      *)
(* takes its pool.  The resolver tells it on a thread of its own (the loop *)
(* for a watcher, the block queue's looper for DNS) and requests run on    *)
(* others; the policy and the map of pools have no lock.  A read that      *)
(* meets a change is modelled as old or new, and as a fault where an index *)
(* no longer fits; what a torn map does beyond that is not.                *)
(***************************************************************************)
EXTENDS Integers, FiniteSets

CONSTANTS
    Nodes,     \* addresses with their ports
    Requests   \* threads that call GetClientPool

ASSUME ClientChannelAssumption == IsFiniteSet(Nodes) /\ IsFiniteSet(Requests)

VARIABLES
    keys,        \* keys_ of the policy
    size,        \* its size_
    pools,       \* the nodes clientPools_ has a pool for
    update,      \* how far the resolver's thread is
    needAdd,     \* what Update has still to add
    needRemove,  \* and to remove
    unmade,      \* nodes the last Update could not make a pool for
    get,         \* how far a request is in GetClientPool
    index,       \* the index it drew
    node,        \* the node it picked
    disturbed    \* history: requests that an update ran beside, or came after

updateVars == <<keys, size, pools, update, needAdd, needRemove, unmade>>
getVars == <<get, index, node>>
channelVars == <<updateVars, getVars, disturbed>>

GetStages == {"idle", "sized", "indexed", "picked", "pool", "refused", "fault"}

ChannelTypeOK ==
    /\ keys \subseteq Nodes /\ pools \subseteq Nodes /\ unmade \subseteq Nodes
    /\ needAdd \subseteq Nodes /\ needRemove \subseteq Nodes
    /\ size \in 0..Cardinality(Nodes)
    /\ update \in {"idle", "swapped", "pools"}
    /\ get \in [Requests -> GetStages]
    /\ index \in [Requests -> Nat]
    /\ \A r \in Requests : get[r] = "indexed" => index[r] < Cardinality(Nodes)
    /\ \A r \in Requests : get[r] = "picked" => node[r] \in Nodes
    /\ disturbed \subseteq Requests

ChannelInit ==
    /\ keys = {} /\ size = 0 /\ pools = {} /\ update = "idle"
    /\ needAdd = {} /\ needRemove = {} /\ unmade = {}
    /\ get = [r \in Requests |-> "idle"]
    /\ index = [r \in Requests |-> 0]
    /\ node = [r \in Requests |-> "none"]
    /\ disturbed = {}

-----------------------------------------------------------------------------
(* The handler the Balancer gives to the resolver.                         *)

Disturb == disturbed' = {r \in Requests : get[r] # "idle"} /\ UNCHANGED getVars

\* UpdateAllWithoutWeight swaps the keys, and then sets size_.
UpdateKeys(nodes) ==
    /\ update = "idle"
    /\ keys' = nodes /\ update' = "swapped"
    /\ Disturb /\ UNCHANGED <<size, pools, needAdd, needRemove, unmade>>

\* ClientManager::Update begins by comparing the nodes with the map.
UpdateSize ==
    /\ update = "swapped"
    /\ size' = Cardinality(keys)
    /\ needAdd' = keys \ pools /\ needRemove' = pools \ keys
    /\ unmade' = {} /\ update' = "pools"
    /\ Disturb /\ UNCHANGED <<keys, pools>>

addAddr_Once(n) ==
    /\ update = "pools" /\ n \in needAdd
    /\ needAdd' = {}
    /\ pools' = pools \cup {n}
    /\ Disturb /\ UNCHANGED <<keys, size, update, needRemove, unmade>>

addAddr(n) ==
    /\ update = "pools" /\ n \in needAdd
    /\ needAdd' = needAdd \ {n}
    /\ \/ pools' = pools \cup {n} /\ UNCHANGED unmade
       \/ unmade' = unmade \cup {n} /\ UNCHANGED pools
    /\ Disturb /\ UNCHANGED <<keys, size, update, needRemove>>

removeAddr(n) ==
    /\ update = "pools" /\ needAdd = {} /\ n \in needRemove
    /\ needRemove' = needRemove \ {n} /\ pools' = pools \ {n}
    /\ Disturb /\ UNCHANGED <<keys, size, update, needAdd, unmade>>

UpdateDone ==
    /\ update = "pools" /\ needAdd = {} /\ needRemove = {}
    /\ update' = "idle"
    /\ Disturb /\ UNCHANGED <<keys, size, pools, needAdd, needRemove, unmade>>

-----------------------------------------------------------------------------
(* GetClientPool on a request's thread.                                    *)

to(r, stage) == get' = [get EXCEPT ![r] = stage] /\ UNCHANGED updateVars

CheckSize(r) ==
    /\ get[r] = "idle" /\ to(r, IF size = 0 THEN "refused" ELSE "sized")
    /\ disturbed' = IF update = "idle" THEN disturbed ELSE disturbed \cup {r}
    /\ UNCHANGED <<index, node>>

\* randomEngine_() % keys_.size(), which may be 0 by now.
DrawIndex(r) ==
    /\ get[r] = "sized"
    /\ IF keys = {} THEN to(r, "fault") /\ UNCHANGED index
       ELSE to(r, "indexed")
            /\ \E i \in 0..(Cardinality(keys) - 1) : index' = [index EXCEPT ![r] = i]
    /\ UNCHANGED <<node, disturbed>>

\* keys_[index]: the order of the keys does not matter.
PickKey(r) ==
    /\ get[r] = "indexed"
    /\ IF index[r] >= Cardinality(keys) THEN to(r, "fault") /\ UNCHANGED node
       ELSE to(r, "picked") /\ \E n \in keys : node' = [node EXCEPT ![r] = n]
    /\ UNCHANGED <<index, disturbed>>

FindPool(r) ==
    /\ get[r] = "picked"
    /\ to(r, IF node[r] \in pools THEN "pool" ELSE "refused")
    /\ UNCHANGED <<index, node, disturbed>>

\* The request is over and the thread makes another one.
NextRequest(r) ==
    /\ get[r] \in {"pool", "refused"} /\ to(r, "idle")
    /\ index' = [index EXCEPT ![r] = 0] /\ node' = [node EXCEPT ![r] = "none"]
    /\ disturbed' = disturbed \ {r}

-----------------------------------------------------------------------------
ChannelNext ==
    \/ \E nodes \in SUBSET Nodes : UpdateKeys(nodes)
    \/ UpdateSize \/ UpdateDone
    \/ \E n \in Nodes : addAddr(n) \/ removeAddr(n)
    \/ \E r \in Requests : CheckSize(r) \/ DrawIndex(r) \/ PickKey(r) \/ FindPool(r)
                              \/ NextRequest(r)

ChannelSpec == ChannelInit /\ [][ChannelNext]_channelVars

-----------------------------------------------------------------------------
(***************************************************************************)
(* Between two updates the policy and the map agree: a node that can be    *)
(* picked has its pool unless that could not be made, and no pool is left  *)
(* of a node that is gone (balancer.h and client_manager.h, Update).       *)
(***************************************************************************)
PoolsMatchKeys ==
    update = "idle" =>
        /\ size = Cardinality(keys) /\ pools \subseteq keys
        /\ keys \ pools \subseteq unmade

(***************************************************************************)
(* A request that no update ran beside is refused only if there is no node *)
(* or its node's pool could not be made, and never faults: the two         *)
(* containers without a lock are safe while the nodes do not change        *)
(* (client_channel.h, GetClientPool; random_lb_policy.h, Get).             *)
(***************************************************************************)
RefusedOnlyBesideUpdate ==
    \A r \in Requests \ disturbed :
        /\ get[r] # "fault"
        /\ get[r] = "refused" => keys = {} \/ node[r] \in unmade
=============================================================================
