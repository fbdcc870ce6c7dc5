------------------------------ MODULE FCMPusher ------------------------------
(***************************************************************************)
(* The pusher that cmd/gcm.go starts: KafkaConsumer and Pusher with the    *)
(* message handler of extensions/firebase/message_handler.go.              *)
(* HandleMessages runs in the router's goroutine; each push has a          *)
(* goroutine of its own, limited by a semaphore; as many goroutines handle *)
(* the responses.  Nothing is retried.                                     *)
(***************************************************************************)
EXTENDS Pusher

CONSTANT Handlers  \* the response handlers, gcm.concurrentWorkers of them

ASSUME HandlersAssumption == IsFiniteSet(Handlers) /\ Handlers # {}

ConcurrentWorkers == Cardinality(Handlers)

VARIABLES
    tokens,            \* tokens left in sendPushConcurrencyControl
    sender,            \* the goroutine that sendPush starts for a message
    outcome,           \* what SendPush returned for it
    responsesChannel,
    handler            \* the HandleResponses goroutines

handlerVars == <<tokens, sender, outcome, responsesChannel, handler>>

vars == <<waitGroupVars, stage, consumerVars, pusherVars, handlerVars>>

Stages == {"unread", "consumer", "msgChan", "router", "sender",
           "responsesChannel", "handler", "handled", "lost"}

TypeOK ==
    /\ WaitGroupTypeOK
    /\ stage \in [Messages -> Stages]
    /\ ConsumerTypeOK
    /\ PusherTypeOK
    /\ router \in Goroutine({"receive"}, {"handle", "acquire"})
    /\ tokens \in 0..ConcurrentWorkers
    /\ sender \in [Messages -> {"none", "push", "respond", "release"}]
    /\ outcome \in [Messages -> {"none", "ok", "error"}]
    /\ responsesChannel \in Seq(Messages)
    /\ Len(responsesChannel) <= ConcurrentWorkers
    /\ handler \in [Handlers -> Goroutine({"receive"}, {"report", "done"})]

Init ==
    /\ WaitGroupInit
    /\ ConsumerInit
    /\ PusherInit
    /\ tokens = ConcurrentWorkers
    /\ sender = [m \in Messages |-> "none"]
    /\ outcome = [m \in Messages |-> "none"]
    /\ responsesChannel = << >>
    /\ handler = [h \in Handlers |-> [pc |-> "receive", msg |-> None]]

-----------------------------------------------------------------------------
(* HandleMessages and sendPush, in the router's goroutine                  *)

\* Mutant of Discard: an early return without waitGroupDone.
DiscardKeepsPending ==
    /\ router.pc = "handle"
    /\ stage' = [stage EXCEPT ![router.msg] = "handled"]
    /\ router' = [pc |-> "receive", msg |-> None]
    /\ UNCHANGED <<waitGroupVars, consumerVars, main, reports, handlerVars>>

\* Mutant of Discard: no return after waitGroupDone, so the message is pushed.
DiscardFallsThrough ==
    /\ router.pc = "handle"
    /\ waitGroupDone
    /\ stage' = [stage EXCEPT ![router.msg] = "handled"]
    /\ router' = [router EXCEPT !.pc = "acquire"]
    /\ UNCHANGED <<consumerVars, main, reports, handlerVars>>

\* The early returns: the value does not parse, the message has expired, the
\* device is over its rate limit.
Discard ==
    /\ router.pc = "handle"
    /\ waitGroupDone
    /\ stage' = [stage EXCEPT ![router.msg] = "handled"]
    /\ router' = [pc |-> "receive", msg |-> None]
    /\ UNCHANGED <<consumerVars, main, reports, handlerVars>>

Admit ==
    /\ router.pc = "handle"
    /\ router' = [router EXCEPT !.pc = "acquire"]
    /\ UNCHANGED <<waitGroupVars, stage, consumerVars, main, reports, handlerVars>>

\* The router waits for a token and hands it to a new goroutine.
AcquireToken ==
    /\ router.pc = "acquire"
    /\ tokens > 0
    /\ tokens' = tokens - 1
    /\ sender' = [sender EXCEPT ![router.msg] = "push"]
    /\ stage' = [stage EXCEPT ![router.msg] = "sender"]
    /\ router' = [pc |-> "receive", msg |-> None]
    /\ UNCHANGED <<waitGroupVars, consumerVars, main, reports,
                   outcome, responsesChannel, handler>>

HandleMessages == Discard \/ Admit \/ AcquireToken

-----------------------------------------------------------------------------
(* The goroutine of sendPush                                               *)

\* Mutant of SendPush: only a push without an error counts as sent.
SendPushCountsOk(m) ==
    /\ sender[m] = "push"
    /\ \E o \in {"ok", "error"} :
         /\ outcome' = [outcome EXCEPT ![m] = o]
         /\ Report(m, IF o = "ok" THEN {"sent"} ELSE {})
    /\ sender' = [sender EXCEPT ![m] = "respond"]
    /\ UNCHANGED <<stage, tokens, responsesChannel, handler>>

\* SendPush returns, with or without an error, and the message counts as sent.
SendPush(m) ==
    /\ sender[m] = "push"
    /\ \E o \in {"ok", "error"} : outcome' = [outcome EXCEPT ![m] = o]
    /\ Report(m, {"sent"})
    /\ sender' = [sender EXCEPT ![m] = "respond"]
    /\ UNCHANGED <<stage, tokens, responsesChannel, handler>>

\* Mutant of Respond: the channel holds one response too many.
RespondOverfills(m) ==
    /\ sender[m] = "respond"
    /\ Len(responsesChannel) <= ConcurrentWorkers
    /\ responsesChannel' = Append(responsesChannel, m)
    /\ stage' = [stage EXCEPT ![m] = "responsesChannel"]
    /\ sender' = [sender EXCEPT ![m] = "release"]
    /\ UNCHANGED <<reports, tokens, outcome, handler>>

Respond(m) ==
    /\ sender[m] = "respond"
    /\ Len(responsesChannel) < ConcurrentWorkers
    /\ responsesChannel' = Append(responsesChannel, m)
    /\ stage' = [stage EXCEPT ![m] = "responsesChannel"]
    /\ sender' = [sender EXCEPT ![m] = "release"]
    /\ UNCHANGED <<reports, tokens, outcome, handler>>

\* Mutant of ReleaseToken: the token is not put back.
ReleaseTokenLeaks(m) ==
    /\ sender[m] = "release"
    /\ sender' = [sender EXCEPT ![m] = "none"]
    /\ UNCHANGED <<reports, stage, tokens, outcome, responsesChannel, handler>>

ReleaseToken(m) ==
    /\ sender[m] = "release"
    /\ tokens' = tokens + 1
    /\ sender' = [sender EXCEPT ![m] = "none"]
    /\ UNCHANGED <<reports, stage, outcome, responsesChannel, handler>>

sendPush(m) == SendPush(m) \/ Respond(m) \/ ReleaseToken(m)

-----------------------------------------------------------------------------
(* HandleResponses                                                         *)

ReceiveResponse(h) ==
    /\ handler[h].pc = "receive"
    /\ responsesChannel # << >>
    /\ handler' =
         [handler EXCEPT ![h] = [pc |-> "report", msg |-> Head(responsesChannel)]]
    /\ responsesChannel' = Tail(responsesChannel)
    /\ stage' = [stage EXCEPT ![Head(responsesChannel)] = "handler"]
    /\ UNCHANGED <<waitGroupVars, reports, tokens, sender, outcome>>

\* handleNotificationFailure, or handleNotificationAck.
ReportResponse(h) ==
    /\ handler[h].pc = "report"
    /\ Report(handler[h].msg,
              IF outcome[handler[h].msg] = "error" THEN {"failed", "feedback"} ELSE {"acked"})
    /\ handler' = [handler EXCEPT ![h].pc = "done"]
    /\ UNCHANGED <<waitGroupVars, stage, tokens, sender, outcome, responsesChannel>>

FinishResponse(h) ==
    /\ handler[h].pc = "done"
    /\ waitGroupDone
    /\ stage' = [stage EXCEPT ![handler[h].msg] = "handled"]
    /\ handler' = [handler EXCEPT ![h] = [pc |-> "receive", msg |-> None]]
    /\ UNCHANGED <<reports, tokens, sender, outcome, responsesChannel>>

HandleResponses(h) == ReceiveResponse(h) \/ ReportResponse(h) \/ FinishResponse(h)

-----------------------------------------------------------------------------

Sends(m) == sendPush(m) /\ UNCHANGED <<waitGroupVars, consumerVars, router, main>>

Handles(h) == HandleResponses(h) /\ UNCHANGED <<consumerVars, router, main>>

Step ==
    \/ Start /\ UNCHANGED handlerVars
    \/ HandleMessages
    \/ \E m \in Messages : Sends(m)
    \/ \E h \in Handlers : Handles(h)

Terminated == ~Alive /\ UNCHANGED vars

Next ==
    \/ Alive /\ Step
    \/ Terminated

Spec == Init /\ [][Next]_vars

\* As in APNSPusher: every goroutine that can run does, SendPush returns, and
\* the senders blocked on a full channel get their turn.
Fairness ==
    LET Starts(A) == Alive /\ A /\ UNCHANGED handlerVars
    IN  /\ WF_vars(Starts(ConsumeLoop /\ UNCHANGED pusherVars))
        /\ WF_vars(Starts(routeMessages) \/ (Alive /\ HandleMessages))
        /\ \A m \in Messages :
             /\ WF_vars(Alive /\ Sends(m))
             /\ SF_vars(/\ Alive
                        /\ Respond(m)
                        /\ UNCHANGED <<waitGroupVars, consumerVars, router, main>>)
        /\ \A h \in Handlers : WF_vars(Alive /\ Handles(h))
        /\ WF_vars(Starts(GracefulShutdown \/ AwaitPending \/ ExitGraceful \/ Panic))

FairSpec == Spec /\ Fairness

-----------------------------------------------------------------------------
(* Safety                                                                  *)

\* Every message read from the broker is in exactly one place, although pushes
\* run in goroutines of their own and any handler may take any response.
SingleCustody ==
    /\ At("consumer") = {m \in Messages : consumer.pc \in {"add", "send"} /\ consumer.msg = m}
    /\ IsInjective(msgChan) /\ ToSet(msgChan) = At("msgChan")
    /\ At("router") = {m \in Messages : router.pc # "receive" /\ router.msg = m}
    /\ At("sender") = {m \in Messages : sender[m] \in {"push", "respond"}}
    /\ IsInjective(responsesChannel) /\ ToSet(responsesChannel) = At("responsesChannel")
    /\ At("handler") =
         {m \in Messages : \E h \in Handlers : handler[h].pc # "receive" /\ handler[h].msg = m}
    /\ \A g, h \in Handlers :
         handler[g].pc # "receive" /\ handler[h].pc # "receive" /\ handler[g].msg = handler[h].msg
           => g = h

\* Every token is in the channel or with one sender: at most ConcurrentWorkers
\* pushes run at a time, and no path of sendPush leaks a token.
TokensConserved ==
    tokens + Cardinality({m \in Messages : sender[m] # "none"}) = ConcurrentWorkers

\* The wait group lets go of a message that was pushed only after it was counted
\* as sent and as either acked or failed, with its feedback: unlike the APNs
\* handler, a graceful exit leaves no report behind.
ReportedWhenDone ==
    \A m \in Messages :
      stage[m] = "handled" =>
        LET r == reports[m]
        IN  /\ r["sent"] = IF outcome[m] = "none" THEN 0 ELSE 1
            /\ r["acked"] = IF outcome[m] = "ok" THEN 1 ELSE 0
            /\ r["failed"] = IF outcome[m] = "error" THEN 1 ELSE 0
            /\ r["feedback"] = r["failed"]

-----------------------------------------------------------------------------
(* Liveness                                                                *)

\* In the end every message that was read from the broker is handled or lost, unless
\* the process exits: the router waiting for a token, the senders waiting for room
\* in responsesChannel and the handlers never wait on one another in a circle.
EveryMessageAccounted ==
    <>[](Alive => InFlight = {})

\* If no message is lost, the wait group reaches zero and the process exits
\* without the help of the shutdown timer.
ShutdownDrains ==
    main = "stopping" ~> ~Alive \/ At("lost") # {}
=============================================================================
