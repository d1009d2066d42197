------------------------------ MODULE Epoller ------------------------------
(***************************************************************************)
(* One turn after the other of the event loop over its Epoller: epoll_wait *)
(* writes what is ready to the front of pollEvents_, Poll looks the events *)
(* up by their descriptors, and the loop calls their callbacks.  Handlers  *)
(* on the loop's thread open connections and change what they are notified *)
(* of; a connection and its event may be destroyed on any thread.  The     *)
(* kernel's side is the registration and the readiness of a descriptor.    *)
(***************************************************************************)
EXTENDS Integers, FiniteSets, Sequences, SequencesExt

CONSTANTS
    PollEvents,  \* bound: Event objects
    Fds          \* descriptors

NoEvent == "no event"
Kinds == {"in", "out"}

ASSUME EpollerAssumption ==
    IsFiniteSet(PollEvents) /\ IsFiniteSet(Fds) /\ Fds # {} /\ NoEvent \notin PollEvents

VARIABLES
    life,         \* whether an event exists; "closed": its descriptor does not any more
    fd,           \* fd_ of an event
    wants,        \* readNotify_ and writeNotify_
    able,         \* readAble_ and writeAble_
    events,       \* events_ of the Epoller
    interest,     \* what the kernel has registered for a descriptor; {}: it is not
    ready,        \* what a descriptor is ready for
    pollEvents,   \* pollEvents_ as far as it was ever written; the rest finds no event
    num,          \* what epoll_wait returned
    pos,          \* the entries Poll has looked at, and in i those it has counted
    i,
    batch,        \* the events Poll found
    lastCall,     \* the last callback in this turn, and whether epoll_wait reported it
    reported,     \* history: what epoll_wait reported for an event in this turn
    strayed,      \* history: the events Poll ever took from an entry of an earlier call
    early         \* history: descriptors in use again before the last event was destroyed

eventVars == <<life, fd, wants, able, events, interest>>
pollVars == <<pollEvents, num, pos, i, batch, lastCall, reported, strayed>>
epollerVars == <<eventVars, ready, pollVars, early>>

NoCall == [of |-> NoEvent, kind |-> "in", due |-> TRUE]

EpollerTypeOK ==
    /\ life \in [PollEvents -> {"new", "alive", "closed", "dead"}]
    /\ fd \in [PollEvents -> Fds]
    /\ {wants, able, reported} \subseteq [PollEvents -> SUBSET Kinds]
    /\ events \in [Fds -> PollEvents \cup {NoEvent}]
    /\ {interest, ready} \subseteq [Fds -> SUBSET Kinds]
    /\ pollEvents \in Seq([fd : Fds, kinds : SUBSET Kinds])
    /\ {num, pos, i} \subseteq 0..Cardinality(Fds) /\ i <= pos
    /\ batch \in Seq(PollEvents) /\ strayed \subseteq PollEvents
    /\ lastCall \in [of : PollEvents \cup {NoEvent}, kind : Kinds, due : BOOLEAN]

EpollerInit ==
    /\ life = [e \in PollEvents |-> "new"]
    /\ fd = [e \in PollEvents |-> CHOOSE f \in Fds : TRUE]
    /\ wants = [e \in PollEvents |-> {}] /\ able = wants /\ reported = wants
    /\ events = [f \in Fds |-> NoEvent]
    /\ interest = [f \in Fds |-> {}] /\ ready = interest
    /\ pollEvents = <<>> /\ num = 0 /\ pos = 0 /\ i = 0 /\ batch = <<>>
    /\ lastCall = NoCall /\ strayed = {} /\ early = {}

Exists(e) == life[e] \in {"alive", "closed"}
Found(f) == events[f] # NoEvent /\ Exists(events[f])

-----------------------------------------------------------------------------
(* Event::update, UpdateEvent and RemoveEvent.                             *)

updateEvent_NoAdd(e, kinds) ==
    LET f == fd[e] IN
    /\ wants' = [wants EXCEPT ![e] = kinds]
    /\ events' = [events EXCEPT ![f] = IF kinds = {} THEN NoEvent ELSE IF Found(f) THEN @ ELSE e]
    /\ interest' = [interest EXCEPT ![f] = IF @ = {} THEN {} ELSE kinds]

\* epoll_ctl: ADD and MOD do nothing when the descriptor is, or is not,
\* registered; nobody looks at their result.
updateEvent(e, kinds) ==
    LET f == fd[e] IN
    /\ wants' = [wants EXCEPT ![e] = kinds]
    /\ IF kinds = {}
       THEN events' = [events EXCEPT ![f] = NoEvent] /\ interest' = [interest EXCEPT ![f] = {}]
       ELSE IF ~Found(f)
       THEN /\ events' = [events EXCEPT ![f] = e]
            /\ interest' = [interest EXCEPT ![f] = IF @ = {} THEN kinds ELSE @]
       ELSE /\ interest' = [interest EXCEPT ![f] = IF @ = {} THEN {} ELSE kinds]
            /\ UNCHANGED events

\* A handler on the loop's thread: between two callbacks, or of another poller.
Handling == i = num

\* A socket gets a free descriptor; a Connector's is written to first.
Open(e, f) ==
    /\ Handling /\ life[e] = "new"
    /\ \A d \in PollEvents : fd[d] = f => life[d] # "alive"
    /\ early' = IF \E d \in PollEvents : fd[d] = f /\ life[d] = "closed" THEN early \cup {f} ELSE early
    /\ life' = [life EXCEPT ![e] = "alive"] /\ fd' = [fd EXCEPT ![e] = f]
    /\ ready' = [ready EXCEPT ![f] = {}]
    /\ UNCHANGED <<wants, able, events, interest, pollVars>>

\* EnableReadNotify, EnableWriteNotify and DisableWriteNotify.
Notify(e, kinds) ==
    /\ Handling /\ life[e] = "alive" /\ kinds # wants[e] /\ wants[e] \ kinds \subseteq {"out"}
    /\ updateEvent(e, kinds)
    /\ UNCHANGED <<life, fd, able, ready, pollVars, early>>

\* ~Event takes the registration away if there is one.
Destroy(e) ==
    /\ Exists(e) /\ life' = [life EXCEPT ![e] = "dead"]
    /\ IF wants[e] # {} THEN updateEvent(e, {}) ELSE UNCHANGED <<wants, events, interest>>
    /\ UNCHANGED <<fd, able, ready, pollVars, early>>

\* The members of a Connector are destroyed socket first, and close takes the
\* descriptor out of epoll.
CloseFirst(e) ==
    /\ life[e] = "alive" /\ wants[e] = {"out"}
    /\ life' = [life EXCEPT ![e] = "closed"]
    /\ interest' = [interest EXCEPT ![fd[e]] = {}]
    /\ UNCHANGED <<fd, wants, able, events, ready, pollVars, early>>

BecomeReady(f, kind) ==
    /\ ready' = [ready EXCEPT ![f] = @ \cup {kind}] /\ ready' # ready
    /\ UNCHANGED <<eventVars, pollVars, early>>

-----------------------------------------------------------------------------
(* Epoller::Poll and EventLoop::doPoller.                                  *)

\* epoll_wait overwrites as many entries as it returns, in any order.
EpollWait ==
    /\ Handling /\ batch = <<>>
    /\ \E found \in SetToSeqs({f \in Fds : interest[f] \cap ready[f] # {}}) :
          /\ num' = Len(found)
          /\ pollEvents' = [k \in 1..Len(found) |->
                               [fd |-> found[k], kinds |-> interest[found[k]] \cap ready[found[k]]]]
                           \o SubSeq(pollEvents, Len(found) + 1, Len(pollEvents))
          /\ reported' = [e \in PollEvents |->
                 IF \E k \in DOMAIN found : events[found[k]] = e
                 THEN interest[fd[e]] \cap ready[fd[e]] ELSE {}]
    /\ pos' = 0 /\ i' = 0 /\ lastCall' = NoCall
    /\ UNCHANGED <<eventVars, ready, batch, strayed, early>>

Chosen_OutFirst(kinds) == IF "out" \in kinds THEN "out" ELSE "in"

Chosen(kinds) == IF "in" \in kinds THEN "in" ELSE "out"

(***************************************************************************)
(* The next entry.  One without an event is not counted in i, so that the  *)
(* loop goes on behind what epoll_wait wrote, to entries of earlier turns; *)
(* behind what was ever written no entry has an event.                     *)
(***************************************************************************)
LookUp ==
    /\ i < num /\ pos < Len(pollEvents)
    /\ LET entry == pollEvents[pos + 1]
           e == events[entry.fd]
       IN  IF Found(entry.fd)
           THEN /\ able' = [able EXCEPT ![e] = @ \cup {Chosen(entry.kinds)}]
                /\ batch' = Append(batch, e) /\ i' = i + 1
                /\ strayed' = IF pos < num THEN strayed ELSE strayed \cup {e}
           ELSE UNCHANGED <<able, batch, i, strayed>>
    /\ pos' = pos + 1
    /\ UNCHANGED <<life, fd, wants, events, interest, ready, pollEvents, num, lastCall,
                   reported, early>>

LookUpEnds ==
    /\ i < num /\ pos = Len(pollEvents)
    /\ num' = i
    /\ UNCHANGED <<eventVars, ready, pollEvents, pos, i, batch, lastCall, reported, strayed, early>>

Due(e) == able[e] \cap wants[e]

Do_KeepsAble ==
    /\ i = num /\ batch # <<>> /\ batch' = Tail(batch)
    /\ LET e == Head(batch)
           kind == Chosen(Due(e))
       IN  IF Exists(e) /\ Due(e) # {}
           THEN /\ lastCall' = [of |-> e, kind |-> kind, due |-> kind \in reported[e]]
                /\ \/ ready' = [ready EXCEPT ![fd[e]] = @ \ {kind}]
                   \/ UNCHANGED ready
           ELSE lastCall' = NoCall /\ UNCHANGED ready
    /\ UNCHANGED <<life, fd, wants, able, events, interest, pollEvents, num, pos, i, reported,
                   strayed, early>>

\* Event::Do for the next event that still exists.  The callback takes what
\* is ready, or some of it.
Do ==
    /\ i = num /\ batch # <<>> /\ batch' = Tail(batch)
    /\ LET e == Head(batch)
           kind == Chosen(Due(e))
       IN  IF Exists(e) /\ Due(e) # {}
           THEN /\ able' = [able EXCEPT ![e] = @ \ {kind}]
                /\ lastCall' = [of |-> e, kind |-> kind, due |-> kind \in reported[e]]
                /\ \/ ready' = [ready EXCEPT ![fd[e]] = @ \ {kind}]
                   \/ UNCHANGED ready
           ELSE lastCall' = NoCall /\ UNCHANGED <<able, ready>>
    /\ UNCHANGED <<life, fd, wants, events, interest, pollEvents, num, pos, i, reported,
                   strayed, early>>

-----------------------------------------------------------------------------
EpollerNext ==
    \/ \E e \in PollEvents :
        \/ Destroy(e) \/ CloseFirst(e)
        \/ \E f \in Fds : Open(e, f)
        \/ \E kinds \in SUBSET Kinds : Notify(e, kinds)
    \/ \E f \in Fds, kind \in Kinds : BecomeReady(f, kind)
    \/ EpollWait \/ LookUp \/ LookUpEnds \/ Do

EpollerSpec == EpollerInit /\ [][EpollerNext]_epollerVars

\* The loop's thread goes on.
EpollerFairness == WF_epollerVars(EpollWait \/ LookUp \/ LookUpEnds \/ Do)

-----------------------------------------------------------------------------
(***************************************************************************)
(* The table, the flags of the events and the kernel agree: a descriptor   *)
(* is registered for what the event in its place wants, and each event     *)
(* that wants something is in its place; unless a Connector closed the     *)
(* descriptor under its event (epoller.cpp, UpdateEvent, RemoveEvent).     *)
(***************************************************************************)
KernelMatches ==
    /\ \A f \in Fds \ early :
        IF Found(f) /\ life[events[f]] = "alive" THEN interest[f] = wants[events[f]]
                                                 ELSE interest[f] = {}
    /\ \A e \in PollEvents :
        life[e] = "alive" /\ wants[e] # {} /\ fd[e] \notin early => events[fd[e]] = e

(***************************************************************************)
(* A callback is called for what epoll_wait reported of its descriptor in  *)
(* this turn, unless Poll once took the event from an entry of an earlier  *)
(* turn, which sets a flag that may wait for its notification for long     *)
(* (epoller.cpp, Poll; event.cpp, Do).                                     *)
(***************************************************************************)
CalledWhenReported == lastCall.due \/ lastCall.of \in strayed

(***************************************************************************)
(* What can be read is read in the end: no other descriptor, no event that *)
(* dies and no readiness to be written to keeps an event from its read     *)
(* callback (epoller.cpp, Poll; event_loop.cpp, doPoller).                 *)
(***************************************************************************)
ReadsServed ==
    \A e \in PollEvents :
        (life[e] = "alive" /\ "in" \in wants[e] \cap ready[fd[e]]) ~>
            (life[e] # "alive" \/ fd[e] \in early
             \/ (lastCall.of = e /\ lastCall.kind = "in"))
=============================================================================
