---------------------------- MODULE GrpcService ----------------------------
(***************************************************************************)
(* A gRPC service whose calls run through a flow of ploys.  The looper's   *)
(* thread takes completions from its queue and enters the call's event     *)
(* (GrpcServerEvent, GrpcServiceEvent); an asynchronous ploy sends a       *)
(* request with a client and suspends the flow, and the client's callback, *)
(* on the looper's thread (GrpcClient) or on the network loop's (HTTP,     *)
(* Redis), goes on with it.  Whoever is in an event holds its recursive    *)
(* lock.  A frame is one activation of FlowService::Run: a request that    *)
(* cannot be sent calls its callback at once, inside the ploy, so frames   *)
(* nest.                                                                   *)
(***************************************************************************)
EXTENDS Sequences, FiniteSets, Integers

CONSTANTS
    GrpcCalls,    \* bound: events 1..GrpcCalls, of which one is listening until all are used
    Ploys,        \* the flow has ploys 1..Ploys
    AsyncPloys,   \* the asynchronous ones
    MayFail       \* the synchronous ploys that may set ctx.errMsg

Events == 1..GrpcCalls
Loops == {"grpc", "net"}
Free == "free"

ASSUME GrpcServiceAssumption ==
    /\ GrpcCalls \in Nat \ {0} /\ Ploys \in Nat
    /\ AsyncPloys \subseteq 1..Ploys /\ MayFail \subseteq (1..Ploys) \ AsyncPloys

VARIABLES
    status,     \* how far a call is; "open": status_ is FINISH
    lock,       \* the thread that holds the event's lock_
    frames,     \* the frames on a thread's stack, the innermost last
    nextIndex,  \* ctx.nextIndex
    suspend,    \* the calls whose ctx.suspend is set
    flowFailed, \* those whose ctx.errMsg is not empty
    asked,      \* the thread on which the client that was asked will call back
    finishes,   \* how often Finish was called
    inner       \* history: calls that failed inside a callback inside a ploy

flowVars == <<nextIndex, suspend, flowFailed, asked, finishes, inner>>
grpcVars == <<status, lock, frames, flowVars>>

Frame == [of : Events, i : 0..Ploys, at : {"next", "suspend", "check"}]

GrpcTypeOK ==
    /\ status \in [Events -> {"none", "listening", "arrived", "open", "gone"}]
    /\ lock \in [Events -> Loops \cup {Free}]
    /\ frames \in [Loops -> Seq(Frame)]
    /\ nextIndex \in [Events -> 0..Ploys] /\ asked \in [Events -> Loops \cup {Free}]
    /\ finishes \in [Events -> 0..2]
    /\ suspend \subseteq Events /\ flowFailed \subseteq Events /\ inner \subseteq Events

GrpcInit ==
    /\ status = [c \in Events |-> IF c = 1 THEN "listening" ELSE "none"]
    /\ lock = [c \in Events |-> Free] /\ asked = lock
    /\ frames = [l \in Loops |-> <<>>]
    /\ nextIndex = [c \in Events |-> 0] /\ finishes = nextIndex
    /\ suspend = {} /\ flowFailed = {} /\ inner = {}

-----------------------------------------------------------------------------
(* FlowService::Run on the thread l.                                       *)

Top(l) == frames[l][Len(frames[l])]
At(l, place) == frames[l] # <<>> /\ Top(l).at = place
below(l) == SubSeq(frames[l], 1, Len(frames[l]) - 1)
goOn(l, at) == frames' = [frames EXCEPT ![l] = Append(below(l), [Top(l) EXCEPT !.at = at])]

\* Finish: what is called on a call that was finished already is undefined;
\* the model counts it.
FinishCall(c) == finishes' = [finishes EXCEPT ![c] = IF @ < 2 THEN @ + 1 ELSE 2]

\* The frame is left; with the outermost one the lock is.
leave(l) ==
    /\ frames' = [frames EXCEPT ![l] = below(l)]
    /\ lock' = IF below(l) = <<>> THEN [lock EXCEPT ![Top(l).of] = Free] ELSE lock

enter_KeepsSuspend(l, c, under, fails) ==
    /\ flowFailed' = IF fails THEN flowFailed \cup {c} ELSE flowFailed
    /\ inner' = IF fails /\ under # <<>> THEN inner \cup {c} ELSE inner
    /\ IF c \in flowFailed'
       THEN /\ FinishCall(c) /\ frames' = [frames EXCEPT ![l] = under]
            /\ lock' = [lock EXCEPT ![c] = IF under = <<>> THEN Free ELSE l]
       ELSE /\ frames' = [frames EXCEPT ![l] =
                             Append(under, [of |-> c, i |-> nextIndex'[c], at |-> "next"])]
            /\ lock' = [lock EXCEPT ![c] = l]
            /\ UNCHANGED finishes
    /\ UNCHANGED suspend

\* Run is entered from a callback that did or did not set ctx.errMsg, with
\* the frames of under on the stack: a flow that failed is finished at once.
enter(l, c, under, fails) ==
    /\ suspend' = suspend \ {c}
    /\ flowFailed' = IF fails THEN flowFailed \cup {c} ELSE flowFailed
    /\ inner' = IF fails /\ under # <<>> THEN inner \cup {c} ELSE inner
    /\ IF c \in flowFailed'
       THEN /\ FinishCall(c) /\ frames' = [frames EXCEPT ![l] = under]
            /\ lock' = [lock EXCEPT ![c] = IF under = <<>> THEN Free ELSE l]
       ELSE /\ frames' = [frames EXCEPT ![l] =
                             Append(under, [of |-> c, i |-> nextIndex'[c], at |-> "next"])]
            /\ lock' = [lock EXCEPT ![c] = l]
            /\ UNCHANGED finishes

\* The next ploy runs.  A request is sent, to be answered on some thread, or
\* its callback is called here and runs the flow from the next index on.
RunPloy(l) ==
    /\ At(l, "next") /\ Top(l).i < Ploys
    /\ LET c == Top(l).of
           p == Top(l).i + 1
           here(at) == Append(below(l), [of |-> c, i |-> p, at |-> at])
       IN  /\ nextIndex' = [nextIndex EXCEPT ![c] = p]
           /\ \/ /\ p \notin AsyncPloys
                 /\ \E fails \in {FALSE, (p \in MayFail)} :
                       /\ flowFailed' = IF fails THEN flowFailed \cup {c} ELSE flowFailed
                       /\ inner' = IF fails /\ below(l) # <<>> THEN inner \cup {c} ELSE inner
                 /\ frames' = [frames EXCEPT ![l] = here("check")]
                 /\ UNCHANGED <<lock, suspend, asked, finishes>>
              \/ /\ p \in AsyncPloys
                 /\ \E answerer \in Loops : asked' = [asked EXCEPT ![c] = answerer]
                 /\ frames' = [frames EXCEPT ![l] = here("suspend")]
                 /\ UNCHANGED <<lock, suspend, flowFailed, finishes, inner>>
              \/ /\ p \in AsyncPloys
                 /\ \E fails \in BOOLEAN : enter(l, c, here("suspend"), fails)
                 /\ UNCHANGED asked
    /\ UNCHANGED status

\* After DoReq the ploy sets ctx.suspend.
Suspend(l) ==
    /\ At(l, "suspend") /\ suspend' = suspend \cup {Top(l).of}
    /\ goOn(l, "check")
    /\ UNCHANGED <<status, lock, nextIndex, flowFailed, asked, finishes, inner>>

Check(l) ==
    /\ At(l, "check")
    /\ IF Top(l).of \in flowFailed THEN FinishCall(Top(l).of) /\ leave(l)
       ELSE /\ UNCHANGED finishes
            /\ IF Top(l).of \in suspend THEN leave(l) ELSE goOn(l, "next") /\ UNCHANGED lock
    /\ UNCHANGED <<status, nextIndex, suspend, flowFailed, asked, inner>>

FlowEnd(l) ==
    /\ At(l, "next") /\ Top(l).i = Ploys
    /\ FinishCall(Top(l).of) /\ leave(l)
    /\ UNCHANGED <<status, nextIndex, suspend, flowFailed, asked, inner>>

-----------------------------------------------------------------------------
(* The threads take completions and answers.                               *)

CallArrives(c) ==
    /\ status[c] = "listening" /\ status' = [status EXCEPT ![c] = "arrived"]
    /\ UNCHANGED <<lock, frames, flowVars>>

\* PROCESS: an event for the next call is made first, then OnMessage runs
\* the flow.
Process(c) ==
    /\ status[c] = "arrived" /\ frames["grpc"] = <<>> /\ lock[c] = Free
    /\ status' = [d \in Events |-> IF d = c THEN "open"
                                   ELSE IF d = c + 1 THEN "listening" ELSE status[d]]
    /\ UNCHANGED <<nextIndex, asked>>
    /\ enter("grpc", c, <<>>, FALSE)

Finished_NoLock(c) ==
    /\ status[c] = "open" /\ finishes[c] > 0 /\ frames["grpc"] = <<>>
    /\ status' = [status EXCEPT ![c] = "gone"]
    /\ UNCHANGED <<lock, frames, flowVars>>

\* FINISH: the looper's event and this one are destroyed.
Finished(c) ==
    /\ status[c] = "open" /\ finishes[c] > 0 /\ frames["grpc"] = <<>> /\ lock[c] = Free
    /\ status' = [status EXCEPT ![c] = "gone"]
    /\ UNCHANGED <<lock, frames, flowVars>>

Callback_NoLock(l, c) ==
    /\ asked[c] = l /\ frames[l] = <<>> /\ status[c] = "open"
    /\ asked' = [asked EXCEPT ![c] = Free]
    /\ UNCHANGED <<status, nextIndex>>
    /\ \E fails \in BOOLEAN : enter(l, c, <<>>, fails)

\* realOnDone: the event is there still, and its lock is taken.
Callback(l, c) ==
    /\ asked[c] = l /\ frames[l] = <<>> /\ status[c] = "open" /\ lock[c] = Free
    /\ asked' = [asked EXCEPT ![c] = Free]
    /\ UNCHANGED <<status, nextIndex>>
    /\ \E fails \in BOOLEAN : enter(l, c, <<>>, fails)

-----------------------------------------------------------------------------
GrpcNext ==
    \/ \E c \in Events : CallArrives(c) \/ Process(c) \/ Finished(c)
    \/ \E l \in Loops :
        \/ RunPloy(l) \/ Suspend(l) \/ Check(l) \/ FlowEnd(l)
        \/ \E c \in Events : Callback(l, c)

GrpcSpec == GrpcInit /\ [][GrpcNext]_grpcVars

\* The two threads run and come to every completion in their queue, and a
\* client that was asked calls back in the end.  With finitely many calls
\* nothing can be overtaken for ever, so that weak fairness is enough.
GrpcFairness ==
    /\ \A l \in Loops : WF_grpcVars(RunPloy(l) \/ Suspend(l) \/ Check(l) \/ FlowEnd(l))
    /\ \A c \in Events :
        /\ WF_grpcVars(Process(c)) /\ WF_grpcVars(Finished(c))
        /\ \A l \in Loops : WF_grpcVars(Callback(l, c))

-----------------------------------------------------------------------------
(***************************************************************************)
(* A call is finished once, whatever ploy or callback fails, on whichever  *)
(* thread; except that when a request could not be sent and what its       *)
(* callback ran failed, the ploy's own Run finishes the call again         *)
(* (small_flow.h, Run; grpc_client.h, doReq).                              *)
(***************************************************************************)
FinishedOnce == \A c \in Events \ inner : finishes[c] <= 1

(***************************************************************************)
(* No thread is in an event, and no client has yet to answer it, when the  *)
(* completion of its answer destroys it: what a ploy or a callback touches *)
(* after Finish is still there (grpc_service.h, Proceed).                  *)
(***************************************************************************)
NobodyInsideGone ==
    \A c \in Events : status[c] = "gone" =>
        /\ \A l \in Loops : \A k \in DOMAIN frames[l] : frames[l][k].of # c
        /\ c \notin inner => asked[c] = Free

(***************************************************************************)
(* A call that succeeds has run all its ploys.  Every call that arrives is *)
(* finished and its event destroyed (small_flow.h, Run).                   *)
(***************************************************************************)
CallAnswered ==
    \A c \in Events :
        status[c] = "arrived" ~> (status[c] = "gone" /\ (c \in flowFailed \/ nextIndex[c] = Ploys))
=============================================================================
