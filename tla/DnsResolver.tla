---------------------------- MODULE DnsResolver ----------------------------
(***************************************************************************)
(* A DnsResolver and its BlockQueue.  The resolver tells its handler the   *)
(* addresses once, on the thread that sets the handler, and pushes a       *)
(* callback for the queue's looper, which is to resolve again, push        *)
(* itself again and sleep.  The looper holds mtx_ except while it waits.   *)
(* A set of addresses is its version, which grows with every change.       *)
(***************************************************************************)
EXTENDS Integers

CONSTANT MaxChanges  \* bound: how often the addresses change

VARIABLES
    dns,    \* the version of the addresses
    told,   \* the version the handler was told last; -1: none
    cbs,    \* the length of cbs_; nothing is ever taken out
    at,     \* where the looper is; "start": before the wait
    done,   \* the callbacks it has called in this round
    stop    \* stop_

dnsVars == <<dns, told, cbs, at, done, stop>>

DnsInit ==
    /\ dns = 0 /\ told = -1 /\ cbs = 0
    /\ at = "start" /\ done = 0 /\ stop = FALSE

DnsChanges ==
    /\ dns < MaxChanges /\ dns' = dns + 1
    /\ UNCHANGED <<told, cbs, at, done, stop>>

\* The handler is not called when nothing could be resolved.
resolveOnce(resolved) ==
    /\ told' = IF resolved THEN dns ELSE told
    /\ cbs' = cbs + 1

\* resolveOnce(true), once.  Push takes mtx_, which a calling looper holds.
SetNotifyWatcherChange(resolved) ==
    /\ cbs = 0 /\ at # "calling" /\ resolveOnce(resolved)
    /\ UNCHANGED <<dns, at, done, stop>>

\* The wait goes on as long as its predicate, cbs_.empty(), is false.
AfterPredicate == IF cbs = 0 THEN "calling" ELSE "asleep"

looper ==
    /\ at = "start"
    /\ at' = IF stop THEN "ended" ELSE AfterPredicate
    /\ done' = 0
    /\ UNCHANGED <<dns, told, cbs, stop>>

\* Notified by a Push, or spuriously, the wait looks at its predicate again.
wakeUp ==
    /\ at = "asleep" /\ at' = AfterPredicate
    /\ UNCHANGED <<dns, told, cbs, done, stop>>

\* for (auto &cb: cbs_): what a callback pushes is called in the same round.
callBack(resolved) ==
    /\ at = "calling" /\ done < cbs /\ done' = done + 1
    /\ resolveOnce(resolved)
    /\ UNCHANGED <<dns, at, stop>>

RoundDone ==
    /\ at = "calling" /\ done = cbs /\ at' = "start"
    /\ UNCHANGED <<dns, told, cbs, done, stop>>

\* ~BlockQueue, which then joins the looper.
Stop ==
    /\ ~stop /\ stop' = TRUE
    /\ UNCHANGED <<dns, told, cbs, at, done>>

DnsNext ==
    \/ DnsChanges \/ looper \/ wakeUp \/ RoundDone \/ Stop
    \/ \E resolved \in BOOLEAN : SetNotifyWatcherChange(resolved) \/ callBack(resolved)

\* The looper's thread runs, and not every attempt to resolve fails.
DnsSpec ==
    /\ DnsInit /\ [][DnsNext]_dnsVars
    /\ WF_dnsVars(looper \/ wakeUp \/ RoundDone)
    /\ SF_dnsVars(callBack(TRUE))

(***************************************************************************)
(* What the README says of the dns resolver (README.md:128): after the     *)
(* addresses changed the handler is told the new ones.                     *)
(***************************************************************************)
DnsChangeSeen == (told # -1 /\ told # dns) ~> (told = dns \/ stop)
=============================================================================
