----------------------------- MODULE APNSPusher -----------------------------
(***************************************************************************)
(* The pusher that cmd/apns.go starts: KafkaConsumer, Pusher and the APNs  *)
(* push queue, put together by the message handler of                      *)
(* extensions/apns/apns_message_handler.go.  HandleMessages runs in the    *)
(* router's goroutine; HandleResponses has one goroutine, which also sends *)
(* the retries.                                                            *)
(*                                                                         *)
(* What the payload, Redis and the clock make of a message is a choice of  *)
(* the step that looks at it.                                              *)
(***************************************************************************)
EXTENDS APNSPushQueue

CONSTANT MaxRetryAttempts  \* apns.maxRetryAttempts

ASSUME MaxRetryAssumption == MaxRetryAttempts \in Nat

VARIABLE responder  \* the HandleResponses goroutine

vars == <<waitGroupVars, stage, consumerVars, pusherVars, queueVars, responder>>

Stages == {"unread", "consumer", "msgChan", "router", "pushChannel", "worker",
           "responseChannel", "responder", "handled", "lost"}

TypeOK ==
    /\ WaitGroupTypeOK
    /\ stage \in [Messages -> Stages]
    /\ ConsumerTypeOK
    /\ PusherTypeOK
    /\ router \in Goroutine({"receive"}, {"handle", "pushing", "pushed"})
    /\ QueueTypeOK
    /\ responder \in Goroutine({"receive"}, {"handle", "resend", "report", "feedback"})

Init ==
    /\ WaitGroupInit
    /\ ConsumerInit
    /\ PusherInit
    /\ QueueInit
    /\ responder = [pc |-> "receive", msg |-> None]

-----------------------------------------------------------------------------
(* HandleMessages, in the router's goroutine                               *)

\* Mutant of Discard: an early return without waitGroupDone.
DiscardKeepsPending ==
    /\ router.pc = "handle"
    /\ stage' = [stage EXCEPT ![router.msg] = "handled"]
    /\ router' = [pc |-> "receive", msg |-> None]
    /\ UNCHANGED <<waitGroupVars, consumerVars, main, reports, queueVars, responder>>

\* The early returns: the value does not parse, the device is over its rate
\* limit, the notification is invalid or has expired.
Discard ==
    /\ router.pc = "handle"
    /\ waitGroupDone
    /\ stage' = [stage EXCEPT ![router.msg] = "handled"]
    /\ router' = [pc |-> "receive", msg |-> None]
    /\ UNCHANGED <<consumerVars, main, reports, queueVars, responder>>

\* sendNotification counts the attempt; then Push may block.
SendNotification ==
    /\ router.pc = "handle"
    /\ attempts' = [attempts EXCEPT ![router.msg] = @ + 1]
    /\ router' = [router EXCEPT !.pc = "pushing"]
    /\ UNCHANGED <<waitGroupVars, stage, consumerVars, main, reports,
                   pushChannel, responseChannel, worker, reason, responder>>

PushNotification ==
    /\ router.pc = "pushing"
    /\ Push(router.msg)
    /\ router' = [router EXCEPT !.pc = "pushed"]
    /\ UNCHANGED <<waitGroupVars, consumerVars, main, reports, responder>>

\* The sent counter is incremented after the push, when the answer may already
\* be there.
ReportSent ==
    /\ router.pc = "pushed"
    /\ Report(router.msg, {"sent"})
    /\ router' = [pc |-> "receive", msg |-> None]
    /\ UNCHANGED <<waitGroupVars, stage, consumerVars, main, queueVars, responder>>

HandleMessages == Discard \/ SendNotification \/ PushNotification \/ ReportSent

-----------------------------------------------------------------------------
(* HandleResponses and handleAPNSResponse                                  *)

ReceiveResponse ==
    /\ responder.pc = "receive"
    /\ responseChannel # << >>
    /\ responder' = [pc |-> "handle", msg |-> Head(responseChannel)]
    /\ responseChannel' = Tail(responseChannel)
    /\ stage' = [stage EXCEPT ![Head(responseChannel)] = "responder"]
    /\ UNCHANGED <<waitGroupVars, consumerVars, pusherVars,
                   pushChannel, worker, attempts, reason>>

\* Mutant of MayRetry: one retry too many.
MayRetryOnceMore(m) == reason[m] = TooManyRequests /\ attempts[m] <= MaxRetryAttempts

MayRetry(m) == reason[m] = TooManyRequests /\ attempts[m] < MaxRetryAttempts

\* Mutant of Retry: the wait group lets go of the message at every answer.
RetryCountsDone ==
    /\ responder.pc = "handle"
    /\ MayRetry(responder.msg)
    /\ waitGroupDone
    /\ attempts' = [attempts EXCEPT ![responder.msg] = @ + 1]
    /\ responder' = [responder EXCEPT !.pc = "resend"]
    /\ UNCHANGED <<stage, consumerVars, pusherVars,
                   pushChannel, responseChannel, worker, reason>>

\* The goroutine sleeps for apns.retry.interval, then sendNotification.
Retry ==
    /\ responder.pc = "handle"
    /\ MayRetry(responder.msg)
    /\ attempts' = [attempts EXCEPT ![responder.msg] = @ + 1]
    /\ responder' = [responder EXCEPT !.pc = "resend"]
    /\ UNCHANGED <<waitGroupVars, stage, consumerVars, pusherVars,
                   pushChannel, responseChannel, worker, reason>>

\* Mutant of Resend: no return after the retry, so the old answer is handled too.
ResendFallsThrough ==
    /\ responder.pc = "resend"
    /\ Push(responder.msg)
    /\ responder' = [responder EXCEPT !.pc = "handle"]
    /\ UNCHANGED <<waitGroupVars, consumerVars, pusherVars>>

Resend ==
    /\ responder.pc = "resend"
    /\ Push(responder.msg)
    /\ responder' = [pc |-> "receive", msg |-> None]
    /\ UNCHANGED <<waitGroupVars, consumerVars, pusherVars>>

\* The wait group lets go of the message before it is reported.
FinishResponse ==
    /\ responder.pc = "handle"
    /\ ~MayRetry(responder.msg)
    /\ waitGroupDone
    /\ stage' = [stage EXCEPT ![responder.msg] = "handled"]
    /\ responder' = [responder EXCEPT !.pc = "report"]
    /\ UNCHANGED <<consumerVars, pusherVars, queueVars>>

\* Mutant of ReportSuccess: no return after the success, so a failure follows.
ReportSuccessFallsThrough ==
    /\ responder.pc = "report"
    /\ reason[responder.msg] = Success
    /\ Report(responder.msg, {"acked", "failed"})
    /\ responder' = [responder EXCEPT !.pc = "feedback"]
    /\ UNCHANGED <<waitGroupVars, stage, consumerVars, router, main, queueVars>>

ReportSuccess ==
    /\ responder.pc = "report"
    /\ reason[responder.msg] = Success
    /\ Report(responder.msg, {"acked"})
    /\ responder' = [pc |-> "receive", msg |-> None]
    /\ UNCHANGED <<waitGroupVars, stage, consumerVars, router, main, queueVars>>

ReportFailure ==
    /\ responder.pc = "report"
    /\ reason[responder.msg] # Success
    /\ Report(responder.msg, {"failed"})
    /\ responder' = [responder EXCEPT !.pc = "feedback"]
    /\ UNCHANGED <<waitGroupVars, stage, consumerVars, router, main, queueVars>>

SendFeedback ==
    /\ responder.pc = "feedback"
    /\ Report(responder.msg, {"feedback"})
    /\ responder' = [pc |-> "receive", msg |-> None]
    /\ UNCHANGED <<waitGroupVars, stage, consumerVars, router, main, queueVars>>

HandleResponses ==
    \/ ReceiveResponse
    \/ Retry
    \/ Resend
    \/ FinishResponse
    \/ ReportSuccess
    \/ ReportFailure
    \/ SendFeedback

-----------------------------------------------------------------------------

PushWorkers ==
    /\ \E w \in Workers : pushWorker(w)
    /\ UNCHANGED <<waitGroupVars, consumerVars, pusherVars, responder>>

Step ==
    \/ Start /\ UNCHANGED <<queueVars, responder>>
    \/ HandleMessages
    \/ PushWorkers
    \/ HandleResponses

Terminated == ~Alive /\ UNCHANGED vars

Next ==
    \/ Alive /\ Step
    \/ Terminated

Spec == Init /\ [][Next]_vars

\* Every goroutine that can run does, a client.Push returns, and a goroutine
\* blocked on a full channel gets its turn if the channel keeps being received
\* from (Go queues blocked senders).  Nothing makes the broker deliver a message,
\* a signal come, or the shutdown timer fire before the wait group is done.
Fairness ==
    LET Starts(A) == Alive /\ A /\ UNCHANGED <<queueVars, responder>>
        Works(A) ==
          Alive /\ A /\ UNCHANGED <<waitGroupVars, consumerVars, pusherVars, responder>>
    IN  /\ WF_vars(Starts(ConsumeLoop /\ UNCHANGED pusherVars))
        /\ WF_vars(Starts(routeMessages) \/ (Alive /\ HandleMessages))
        /\ SF_vars(Alive /\ PushNotification)
        /\ \A w \in Workers : WF_vars(Works(pushWorker(w))) /\ SF_vars(Works(WorkerRespond(w)))
        /\ WF_vars(Alive /\ HandleResponses)
        /\ SF_vars(Alive /\ Resend)
        /\ WF_vars(Starts(GracefulShutdown \/ AwaitPending \/ ExitGraceful \/ Panic))

FairSpec == Spec /\ Fairness

-----------------------------------------------------------------------------
(* Safety                                                                  *)

Carries(c, s) == IsInjective(c) /\ ToSet(c) = At(s)

ConsumerCustody ==
    At("consumer") = {m \in Messages : consumer.pc \in {"add", "send"} /\ consumer.msg = m}

RouterCustody ==
    At("router") = {m \in Messages : router.pc \in {"handle", "pushing"} /\ router.msg = m}

WorkerCustody ==
    /\ At("worker") =
         {m \in Messages : \E w \in Workers : worker[w].pc # "idle" /\ worker[w].msg = m}
    /\ \A v, w \in Workers :
         worker[v].pc # "idle" /\ worker[w].pc # "idle" /\ worker[v].msg = worker[w].msg
           => v = w

ResponderCustody ==
    At("responder") =
      {m \in Messages : responder.pc \in {"handle", "resend"} /\ responder.msg = m}

\* Every message read from the broker is in exactly one place: it is never in
\* two channels, twice in one, or in the hands of two goroutines, and none that
\* is in flight has been forgotten, although the router and the responder both
\* put notifications in pushChannel and all workers share both channels.
SingleCustody ==
    /\ ConsumerCustody
    /\ Carries(msgChan, "msgChan")
    /\ RouterCustody
    /\ Carries(pushChannel, "pushChannel")
    /\ WorkerCustody
    /\ Carries(responseChannel, "responseChannel")
    /\ ResponderCustody

\* A notification is sent at most MaxRetryAttempts times (once if that is 0),
\* and one that failed with 429 was sent exactly that often: retries neither run
\* over the limit nor give up early.
RetriesBounded ==
    \A m \in Messages :
      /\ attempts[m] <= IF MaxRetryAttempts = 0 THEN 1 ELSE MaxRetryAttempts
      /\ reports[m]["failed"] > 0 /\ reason[m] = TooManyRequests
           => attempts[m] >= MaxRetryAttempts

\* However often it is retried, a message is counted once as sent and once as
\* acked or failed, never both, and every failure but no success has its
\* feedback; a message that was discarded or lost counts as neither.
ReportsExact ==
    \A m \in Messages :
      LET answered == stage[m] = "handled" /\ attempts[m] > 0
          reporting == responder.pc \in {"report", "feedback"} /\ responder.msg = m
          answers == reports[m]["acked"] + reports[m]["failed"]
      IN  /\ reports[m]["sent"] <= IF attempts[m] = 0 THEN 0 ELSE 1
          /\ answers = IF answered /\ ~(reporting /\ responder.pc = "report") THEN 1 ELSE 0
          /\ reports[m]["feedback"] =
               reports[m]["failed"] - IF reporting /\ responder.pc = "feedback" THEN 1 ELSE 0

-----------------------------------------------------------------------------
(* Liveness                                                                *)

Reported(m) ==
    /\ reports[m]["sent"] = 1
    /\ reports[m]["acked"] + reports[m]["failed"] = 1
    /\ reports[m]["feedback"] = reports[m]["failed"]

\* In the end every message that was read from the broker is discarded, lost, or
\* answered and reported in full, unless the process exits: no goroutine stays
\* blocked on a channel for ever.
EveryMessageAccounted ==
    <>[](Alive => /\ InFlight = {}
                  /\ \A m \in At("handled") : attempts[m] = 0 \/ Reported(m))

\* If no message is lost, the wait group reaches zero and the process exits
\* without the help of the shutdown timer.
ShutdownDrains ==
    main = "stopping" ~> ~Alive \/ At("lost") # {}
=============================================================================
