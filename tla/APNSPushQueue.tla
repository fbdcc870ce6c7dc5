---------------------------- MODULE APNSPushQueue ----------------------------
(***************************************************************************)
(* extensions/apns/apns_push_queue.go: a bounded channel of notifications, *)
(* apns.concurrentWorkers goroutines that push them to APNs, and a bounded *)
(* channel of responses.                                                   *)
(*                                                                         *)
(* A notification is named by its message.  Its SendAttempts and the       *)
(* Reason of its last response, which travel in the channels with it, are  *)
(* functions of the message.  Taking a client from the pool and putting it *)
(* back is one step of the code and leaves the pool as it was.             *)
(***************************************************************************)
EXTENDS Pusher

CONSTANTS
    Workers,              \* apns.concurrentWorkers goroutines
    PushQueueSize,        \* apns.pushQueueSize
    ResponseChannelSize,  \* apns.responseChannelSize
    Reasons               \* what APNs may answer

Success == "Success"            \* the empty Reason
TooManyRequests == "TooManyRequests"

ASSUME WorkersAssumption == IsFiniteSet(Workers)
ASSUME QueueSizesAssumption ==
    PushQueueSize \in Nat \ {0} /\ ResponseChannelSize \in Nat \ {0}
ASSUME ReasonsAssumption ==
    {Success, TooManyRequests} \subseteq Reasons /\ None \notin Reasons

VARIABLES
    pushChannel,
    responseChannel,
    worker,    \* the pushWorker goroutines
    attempts,  \* SendAttempts of the message's notification
    reason     \* Reason of the last response to it

queueVars == <<pushChannel, responseChannel, worker, attempts, reason>>

QueueTypeOK ==
    /\ pushChannel \in Seq(Messages)
    /\ Len(pushChannel) <= PushQueueSize
    /\ responseChannel \in Seq(Messages)
    /\ Len(responseChannel) <= ResponseChannelSize
    /\ worker \in [Workers -> Goroutine({"idle"}, {"push", "respond"})]
    /\ attempts \in [Messages -> Nat]
    /\ reason \in [Messages -> Reasons \cup {None}]

QueueInit ==
    /\ pushChannel = << >>
    /\ responseChannel = << >>
    /\ worker = [w \in Workers |-> [pc |-> "idle", msg |-> None]]
    /\ attempts = [m \in Messages |-> 0]
    /\ reason = [m \in Messages |-> None]

-----------------------------------------------------------------------------

WorkerTake(w) ==
    /\ worker[w].pc = "idle"
    /\ pushChannel # << >>
    /\ worker' = [worker EXCEPT ![w] = [pc |-> "push", msg |-> Head(pushChannel)]]
    /\ pushChannel' = Tail(pushChannel)
    /\ stage' = [stage EXCEPT ![Head(pushChannel)] = "worker"]
    /\ UNCHANGED <<responseChannel, attempts, reason>>

\* client.Push returns a response.
WorkerAnswer(w) ==
    /\ worker[w].pc = "push"
    /\ worker' = [worker EXCEPT ![w].pc = "respond"]
    /\ \E r \in Reasons : reason' = [reason EXCEPT ![worker[w].msg] = r]
    /\ UNCHANGED <<stage, pushChannel, responseChannel, attempts>>

\* Mutant of WorkerError: return instead of continue, so the worker ends.
WorkerErrorReturns(w) ==
    /\ worker[w].pc = "push"
    /\ worker' = [worker EXCEPT ![w] = [pc |-> "ended", msg |-> None]]
    /\ stage' = [stage EXCEPT ![worker[w].msg] = "lost"]
    /\ UNCHANGED <<pushChannel, responseChannel, attempts, reason>>

\* client.Push returns an error and no response: the worker goes on to the next
\* notification and the message is neither reported nor counted as done.
WorkerError(w) ==
    /\ worker[w].pc = "push"
    /\ worker' = [worker EXCEPT ![w] = [pc |-> "idle", msg |-> None]]
    /\ stage' = [stage EXCEPT ![worker[w].msg] = "lost"]
    /\ UNCHANGED <<pushChannel, responseChannel, attempts, reason>>

\* Mutant of WorkerRespond: the channel holds one response too many.
WorkerRespondOverfills(w) ==
    /\ worker[w].pc = "respond"
    /\ Len(responseChannel) <= ResponseChannelSize
    /\ responseChannel' = Append(responseChannel, worker[w].msg)
    /\ worker' = [worker EXCEPT ![w] = [pc |-> "idle", msg |-> None]]
    /\ stage' = [stage EXCEPT ![worker[w].msg] = "responseChannel"]
    /\ UNCHANGED <<pushChannel, attempts, reason>>

WorkerRespond(w) ==
    /\ worker[w].pc = "respond"
    /\ Len(responseChannel) < ResponseChannelSize
    /\ responseChannel' = Append(responseChannel, worker[w].msg)
    /\ worker' = [worker EXCEPT ![w] = [pc |-> "idle", msg |-> None]]
    /\ stage' = [stage EXCEPT ![worker[w].msg] = "responseChannel"]
    /\ UNCHANGED <<pushChannel, attempts, reason>>

pushWorker(w) ==
    \/ WorkerTake(w)
    \/ WorkerAnswer(w)
    \/ WorkerError(w)
    \/ WorkerRespond(w)

\* A goroutine that has message m puts it in pushChannel, or blocks while the
\* channel is full.
Push(m) ==
    /\ Len(pushChannel) < PushQueueSize
    /\ pushChannel' = Append(pushChannel, m)
    /\ stage' = [stage EXCEPT ![m] = "pushChannel"]
    /\ UNCHANGED <<responseChannel, worker, attempts, reason>>
=============================================================================
