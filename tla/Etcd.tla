-------------------------------- MODULE Etcd --------------------------------
(***************************************************************************)
(* A service's registration in etcd, and a reader's watch of the directory *)
(* it is registered in.  The registration is a key with a lease, kept by a *)
(* chain of requests and timers, of which one is pending at a time; so is  *)
(* the watch.  Time counts ticks (half seconds in the small instance).     *)
(* What the code sends or keeps and never reads again is left out: the     *)
(* value of the key, and the clients and timers held in sets.  The object  *)
(* lives as long as the program, so its timers are never cancelled.        *)
(***************************************************************************)
EXTENDS Integers

CONSTANTS
    TTL,           \* the lease a PUT asks for
    RefreshAfter,  \* the timer of nextRefresh
    RetryAfter,    \* the timer of nextCreateEphemral
    Latency        \* bound: a PUT is answered, or fails, within this time

\* What the lease must outlast: the wait for a refresh, the wait after it
\* failed, and the three requests around them.
ASSUME EtcdAssumption ==
    /\ TTL \in Nat /\ RefreshAfter \in Nat /\ RetryAfter \in Nat /\ Latency \in Nat
    /\ RetryAfter <= RefreshAfter
    /\ TTL > RefreshAfter + RefreshAfter + Latency + Latency + Latency

VARIABLES
    put,      \* the registration's pending request or timer
    putLeft,  \* ticks until the timer fires, or until the request is over at the latest
    applied,  \* what etcd made of the pending PUT
    ttl,      \* ticks until the key expires; 0: there is no key
    failed,   \* how many PUTs failed since one was answered well, at most 2; at first 2
    look,     \* the watch's pending request or timer
    atStore,  \* etcd has read the directory for the list, or holds the watch
    fired,    \* etcd has an event for the watch it holds
    unseen,   \* the directory changed after what the listener was last told
    fresh,    \* it did not change since it was read for the list
    missed    \* history: a change nobody will be told of, see Changed

putVars == <<put, putLeft, applied, ttl, failed>>
lookVars == <<look, atStore, fired, unseen, fresh, missed>>
etcdVars == <<putVars, lookVars>>

PutStages == {"off", "creating", "refreshing", "sleepCreate", "sleepRefresh"}

PutTypeOK ==
    /\ put \in PutStages /\ putLeft \in 0..(RefreshAfter + Latency)
    /\ applied \in {"no", "done", "missing"}
    /\ ttl \in 0..TTL /\ failed \in 0..2

LookTypeOK ==
    /\ look \in {"off", "listing", "watching", "sleeping"}
    /\ atStore \in BOOLEAN /\ fired \in BOOLEAN /\ unseen \in BOOLEAN
    /\ fresh \in BOOLEAN /\ missed \in BOOLEAN

EtcdTypeOK == PutTypeOK /\ LookTypeOK

EtcdInit ==
    /\ put = "off" /\ putLeft = 0 /\ applied = "no" /\ ttl = 0 /\ failed = 2
    /\ look = "off" /\ atStore = FALSE /\ fired = FALSE
    /\ unseen = TRUE /\ fresh = FALSE /\ missed = FALSE

-----------------------------------------------------------------------------
(***************************************************************************)
(* The directory changes.  A watch that etcd holds gets the event; when it *)
(* holds none, the event is lost: WatchOnce does not send the index        *)
(* (waitIndex) from which List would have it go on.                        *)
(***************************************************************************)
Held == look = "watching" /\ atStore

Changed ==
    /\ unseen' = TRUE /\ fresh' = FALSE
    /\ fired' = (fired \/ Held)
    /\ missed' = (missed \/ ~(Held \/ (look = "listing" /\ ~atStore)))
    /\ UNCHANGED <<look, atStore>>

-----------------------------------------------------------------------------
(* Registration: createEphemeral, refresh and the timers between them.     *)

send(stage) ==
    put' = stage /\ putLeft' = Latency /\ applied' = "no" /\ UNCHANGED <<ttl, failed, lookVars>>

CreateEphemeral == put = "off" /\ send("creating")
createEphemeral == put = "sleepCreate" /\ putLeft = 0 /\ send("creating")
refresh == put = "sleepRefresh" /\ putLeft = 0 /\ send("refreshing")

Pending == put \in {"creating", "refreshing"}

\* etcd handles the PUT.  A refresh is no event, and needs the key.
PutApplied ==
    /\ Pending /\ applied = "no"
    /\ IF put = "creating"
       THEN applied' = "done" /\ ttl' = TTL /\ Changed
       ELSE /\ applied' = IF ttl = 0 THEN "missing" ELSE "done"
            /\ ttl' = IF ttl = 0 THEN 0 ELSE TTL
            /\ UNCHANGED lookVars
    /\ UNCHANGED <<put, putLeft, failed>>

nextRefresh == put' = "sleepRefresh" /\ putLeft' = RefreshAfter
nextCreateEphemral == put' = "sleepCreate" /\ putLeft' = RetryAfter

Failed == failed' = IF failed < 2 THEN failed + 1 ELSE 2

PutOk_NoErrorCode ==
    /\ Pending /\ applied # "no"
    /\ nextRefresh /\ failed' = 0
    /\ UNCHANGED <<applied, ttl, lookVars>>

PutOk ==
    /\ Pending /\ applied = "done"
    /\ nextRefresh /\ failed' = 0
    /\ UNCHANGED <<applied, ttl, lookVars>>

\* errorCode: the key to refresh is gone, or etcd refused the request.
PutErrorCode ==
    /\ Pending /\ applied # "done"
    /\ nextCreateEphemral /\ Failed
    /\ UNCHANGED <<applied, ttl, lookVars>>

\* The request failed, whether etcd had got it or not.
PutError ==
    /\ Pending
    /\ nextCreateEphemral /\ Failed
    /\ UNCHANGED <<applied, ttl, lookVars>>

\* An answer that is not JSON: "ignore err to refresh".
PutParseError ==
    /\ Pending
    /\ nextRefresh /\ Failed
    /\ UNCHANGED <<applied, ttl, lookVars>>

\* A tick of the clock; timers are on time, requests over within Latency.
Tick ==
    /\ putLeft > 0
    /\ putLeft' = putLeft - 1
    /\ ttl' = IF ttl = 0 THEN 0 ELSE ttl - 1
    /\ IF ttl = 1 THEN Changed ELSE UNCHANGED lookVars
    /\ UNCHANGED <<put, applied, failed>>

-----------------------------------------------------------------------------
(* ListWatch: list, tell the listener, watch once, list again.             *)

List == look' = "listing" /\ atStore' = FALSE /\ fresh' = FALSE /\ fired' = FALSE
WatchOnce == look' = "watching" /\ atStore' = FALSE /\ fresh' = FALSE /\ fired' = FALSE

ListWatch == look = "off" /\ List /\ UNCHANGED <<putVars, unseen, missed>>

\* Somebody else registers or vanishes.
OthersChange == Changed /\ UNCHANGED putVars

ListRead ==
    /\ look = "listing" /\ ~atStore
    /\ atStore' = TRUE /\ fresh' = TRUE
    /\ UNCHANGED <<putVars, look, fired, unseen, missed>>

\* The listener is told what was read.
ListOk ==
    /\ look = "listing" /\ atStore
    /\ unseen' = ~fresh /\ missed' = ~fresh
    /\ WatchOnce /\ UNCHANGED putVars

\* The listener is not told; the watch follows all the same.
ListError ==
    /\ look = "listing"
    /\ missed' = (missed \/ unseen)
    /\ WatchOnce /\ UNCHANGED <<putVars, unseen>>

WatchArrives ==
    /\ look = "watching" /\ ~atStore
    /\ atStore' = TRUE
    /\ UNCHANGED <<putVars, look, fired, unseen, fresh, missed>>

WatchOk_WatchAgain == Held /\ fired /\ WatchOnce /\ UNCHANGED <<putVars, unseen, missed>>

WatchOk == Held /\ fired /\ List /\ UNCHANGED <<putVars, unseen, missed>>

\* With the request the event may be lost; the timer comes before the next.
WatchError ==
    /\ look = "watching"
    /\ look' = "sleeping" /\ atStore' = FALSE /\ fired' = FALSE
    /\ missed' = (missed \/ unseen)
    /\ UNCHANGED <<putVars, unseen, fresh>>

watch == look = "sleeping" /\ WatchOnce /\ UNCHANGED <<putVars, unseen, missed>>

-----------------------------------------------------------------------------
EtcdNext ==
    \/ CreateEphemeral \/ createEphemeral \/ refresh \/ PutApplied
    \/ PutOk \/ PutErrorCode \/ PutError \/ PutParseError \/ Tick
    \/ ListWatch \/ OthersChange \/ ListRead \/ ListOk \/ ListError
    \/ WatchArrives \/ WatchOk \/ WatchError \/ watch

EtcdSpec == EtcdInit /\ [][EtcdNext]_etcdVars

\* A request of the watch gets to etcd, what etcd has to say gets back, or
\* the request fails; its timer fires.
EtcdFairness ==
    /\ WF_etcdVars(ListRead) /\ WF_etcdVars(ListOk \/ ListError)
    /\ WF_etcdVars(WatchArrives) /\ WF_etcdVars(WatchOk) /\ WF_etcdVars(watch)

-----------------------------------------------------------------------------
(***************************************************************************)
(* The key of a service that runs outlives any one failed request: a PUT   *)
(* that was refused, lost before or after etcd handled it, or answered by  *)
(* something that is not JSON (etcd.cpp, createEphemeral and refresh).     *)
(***************************************************************************)
KeySurvives == failed < 2 => ttl > 0

(***************************************************************************)
(* A change made while etcd holds the watch, or before it reads the        *)
(* directory for a list, is told to the listener, unless the request that  *)
(* was to bring it fails (etcd.cpp, watch and listWatch).                  *)
(***************************************************************************)
ChangesListed == (look # "off" /\ unseen) ~> (~unseen \/ missed)
=============================================================================
