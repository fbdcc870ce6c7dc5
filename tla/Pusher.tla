------------------------------- MODULE Pusher -------------------------------
(***************************************************************************)
(* pusher/pusher.go and pusher/common.go: the goroutine that runs          *)
(* routeMessages, and the main goroutine in Start, StopConsuming,          *)
(* GracefulShutdown and WaitTimeout.  The message handler of the game is   *)
(* the router's next step and belongs to the module that extends this one, *)
(* since routeMessages calls it synchronously.                             *)
(*                                                                         *)
(* One game has a handler; a message of any other game is unknown.         *)
(***************************************************************************)
EXTENDS KafkaConsumer

VARIABLES
    router,  \* the routeMessages goroutine
    main,    \* the goroutine that called Start
    reports  \* what the stats and feedback reporters got for each message

pusherVars == <<router, main, reports>>

ExitStates == {"graceful", "timeout", "unwaited", "panicked"}

Alive == main \notin ExitStates

ReportKinds == {"sent", "acked", "failed", "feedback"}

PusherTypeOK ==
    /\ main \in {"running", "stopping", "waiting"} \cup ExitStates
    /\ reports \in [Messages -> [ReportKinds -> Nat]]

PusherInit ==
    /\ router = [pc |-> "receive", msg |-> None]
    /\ main = "running"
    /\ reports = [m \in Messages |-> [k \in ReportKinds |-> 0]]

Report(m, kinds) ==
    reports' = [reports EXCEPT ![m] =
                  [k \in ReportKinds |-> @[k] + IF k \in kinds THEN 1 ELSE 0]]

-----------------------------------------------------------------------------

RouteReceive ==
    /\ router.pc = "receive"
    /\ msgChan # << >>
    /\ router' = [pc |-> "handle", msg |-> Head(msgChan)]
    /\ msgChan' = Tail(msgChan)
    /\ stage' = [stage EXCEPT ![Head(msgChan)] = "router"]
    /\ UNCHANGED <<consumer, stopChannel, ctxDone, waitGroupVars, main, reports>>

\* "Game not found" is logged and the message dropped; the wait group still
\* counts it.
RouteUnknownGame ==
    /\ router.pc = "handle"
    /\ router' = [pc |-> "receive", msg |-> None]
    /\ stage' = [stage EXCEPT ![router.msg] = "lost"]
    /\ UNCHANGED <<consumerVars, waitGroupVars, main, reports>>

routeMessages == RouteReceive \/ RouteUnknownGame

CancelContext ==
    /\ ~ctxDone
    /\ ctxDone' = TRUE
    /\ UNCHANGED <<stage, consumer, msgChan, stopChannel, waitGroupVars, pusherVars>>

\* A signal, which may come at any time, or the cancelled context; then
\* StopConsuming closes the channel.
StopConsuming ==
    /\ main = "running"
    /\ main' = "stopping"
    /\ stopChannel' = TRUE
    /\ UNCHANGED <<stage, consumer, msgChan, ctxDone, waitGroupVars, router, reports>>

GracefulShutdown ==
    /\ main = "stopping"
    /\ IF HandleAllMessagesBeforeExiting
         THEN main' = "waiting" /\ waiter' = "spawned"
         ELSE main' = "unwaited" /\ UNCHANGED waiter
    /\ UNCHANGED <<wg, stage, consumerVars, router, reports>>

\* The goroutine of WaitTimeout.
AwaitPending ==
    /\ Wait \/ WakeUp
    /\ UNCHANGED <<stage, consumerVars, pusherVars>>

\* Mutant of ExitGraceful: the result of WaitTimeout is not looked at.
ExitGracefulUnchecked ==
    /\ main = "waiting"
    /\ main' = "graceful"
    /\ UNCHANGED <<stage, consumerVars, waitGroupVars, router, reports>>

ExitGraceful ==
    /\ main = "waiting"
    /\ waiter = "returned"
    /\ main' = "graceful"
    /\ UNCHANGED <<stage, consumerVars, waitGroupVars, router, reports>>

ExitTimeout ==
    /\ main = "waiting"
    /\ main' = "timeout"
    /\ UNCHANGED <<stage, consumerVars, waitGroupVars, router, reports>>

\* A panic in any goroutine ends the process.
Panic ==
    /\ Misused
    /\ main' = "panicked"
    /\ UNCHANGED <<stage, consumerVars, waitGroupVars, router, reports>>

Start ==
    \/ routeMessages
    \/ ConsumeLoop /\ UNCHANGED pusherVars
    \/ CancelContext
    \/ StopConsuming
    \/ GracefulShutdown
    \/ AwaitPending
    \/ ExitGraceful
    \/ ExitTimeout
    \/ Panic

-----------------------------------------------------------------------------

\* Messages that were counted in the wait group and not taken out of it.
Pending ==
    {m \in Messages : /\ stage[m] \notin {"unread", "handled"}
                      /\ ~(consumer.pc = "add" /\ consumer.msg = m)}

\* Messages that were read from the broker and whose handling is not over.
Unhandled == {m \in Messages : stage[m] \notin {"unread", "handled"}}

\* Messages some goroutine or channel still has.
InFlight == {m \in Messages : stage[m] \notin {"unread", "handled", "lost"}}

\* The wait group counts exactly the messages for which Add was called and Done
\* was not: no early return, retry or report path calls Done twice, calls it for
\* a message of another goroutine, or forgets it, but for the messages that are
\* lost, which stay counted.
PendingExact ==
    wg = IF HandleAllMessagesBeforeExiting THEN Cardinality(Pending) ELSE 0

\* At most one message is left, and none while ReadMessage is still under way.
LateReadOnly ==
    /\ \A m, n \in Unhandled : m = n
    /\ consumer.pc = "read" => Unhandled = {}

\* The order of the shutdown: stopChannel is closed first; the wait group is
\* waited on after that; it is found to be zero only when at most one message, read
\* after the stop, is left; and while ReadMessage is still under way, none is.
ShutdownOrder ==
    /\ stopChannel = (main # "running")
    /\ waiter # "absent" => stopChannel /\ HandleAllMessagesBeforeExiting
    /\ main = "waiting" => HandleAllMessagesBeforeExiting
    /\ waiter \in {"released", "returned"} => LateReadOnly
    /\ main = "graceful" => waiter = "returned"

\* The exit that is logged as graceful leaves at most one message behind: the
\* one the consumer was reading when stopChannel was closed.
GracefulExitLosesAtMostOne ==
    main = "graceful" => Cardinality(Unhandled) <= 1

\* The shutdown never crashes the process.  (It may: the consumer's late Add can
\* come between the last Done and the return of Wait.)
NeverPanics ==
    main # "panicked"

-----------------------------------------------------------------------------
(* What PushDelivery sees of a pusher                                      *)

deliveryOf ==
    [m \in Messages |->
       CASE stage[m] = "unread" -> "unread"
         [] stage[m] = "handled" -> "settled"
         [] stage[m] = "lost" -> "lost"
         [] OTHER -> "pending"]

processOf == IF main = "waiting" THEN "stopping" ELSE main

readingOf == main = "running" \/ consumer.pc = "read"

Delivery ==
    INSTANCE PushDelivery
      WITH delivery <- deliveryOf, process <- processOf, reading <- readingOf

\* The pusher does to messages, and on its exit, only what PushDelivery allows:
\* nothing is read twice, settled twice or found again once lost, StopConsuming
\* lets at most one more ReadMessage through, and the end of GracefulShutdown
\* without a timeout means what it says.
ImplementsDelivery == Delivery!Spec
=============================================================================
