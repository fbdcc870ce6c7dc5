---------------------------- MODULE PusherProofs ----------------------------
(***************************************************************************)
(* What holds of both pushers, whatever the message handler is.  A step is *)
(* one of Start, which the handler leaves alone, or one of the handler,    *)
(* which passes a message on and calls Done only when it is through with   *)
(* it (HandlerStep).                                                       *)
(*                                                                         *)
(* From that alone follow the count of the wait group, the order of the    *)
(* shutdown, and that the step is one PushDelivery allows: the modules     *)
(* that extend this one have only to show that every step of their handler *)
(* is a HandlerStep, and that the goroutines have the messages they act on.*)
(***************************************************************************)
EXTENDS Pusher, KafkaConsumerProofs

-----------------------------------------------------------------------------
(* Types                                                                   *)

\* What the reporters got for a message is a count of each kind.
LEMMA ReportType ==
    ASSUME reports \in [Messages -> [ReportKinds -> Nat]],
           NEW m \in Messages, NEW kinds, Report(m, kinds)
    PROVE  reports' \in [Messages -> [ReportKinds -> Nat]]
  BY DEF Report

\* A report adds one to the counts it names, of one message.
LEMMA ReportEffect ==
    ASSUME PusherTypeOK, NEW n \in Messages, NEW kinds, Report(n, kinds)
    PROVE  /\ \A m \in Messages \ {n} : reports'[m] = reports[m]
           /\ \A k \in ReportKinds :
                reports'[n][k] = reports[n][k] + IF k \in kinds THEN 1 ELSE 0
  BY DEF Report, PusherTypeOK

LEMMA InitPusherType ==
    ASSUME WaitGroupInit, ConsumerInit, PusherInit, NEW S, "unread" \in S, NEW B
    PROVE  /\ WaitGroupTypeOK /\ ConsumerTypeOK /\ PusherTypeOK
           /\ stage \in [Messages -> S]
           /\ router \in Goroutine({"receive"}, B)
<1>1. WaitGroupTypeOK
  BY DEF WaitGroupInit, WaitGroupTypeOK, WaiterStates
<1>2. ConsumerTypeOK
  BY InitConsumerType
<1>3. PusherTypeOK
  BY DEF PusherInit, PusherTypeOK
<1>4. stage \in [Messages -> S]
  BY DEF ConsumerInit
<1>5. router \in Goroutine({"receive"}, B)
  BY DEF PusherInit, Goroutine
<1> QED
  BY <1>1, <1>2, <1>3, <1>4, <1>5

LEMMA StartType ==
    ASSUME WaitGroupTypeOK, ConsumerTypeOK, PusherTypeOK,
           NEW S, {"consumer", "msgChan", "router", "lost"} \subseteq S, stage \in [Messages -> S],
           NEW B, "handle" \in B, router \in Goroutine({"receive"}, B), Start
    PROVE  /\ WaitGroupTypeOK' /\ ConsumerTypeOK' /\ PusherTypeOK'
           /\ stage' \in [Messages -> S]
           /\ router' \in Goroutine({"receive"}, B)
<1> DEFINE Typed == /\ WaitGroupTypeOK' /\ ConsumerTypeOK' /\ PusherTypeOK'
                    /\ stage' \in [Messages -> S]
                    /\ router' \in Goroutine({"receive"}, B)
<1> SUFFICES Typed
  OBVIOUS
<1>1. CASE RouteReceive
  <2>1. /\ Head(msgChan) \in Messages
        /\ msgChan' \in Seq(Messages)
        /\ Len(msgChan') <= ChannelSize
    BY <1>1, ReceiveType, ChannelSizeAssumption DEF RouteReceive, ConsumerTypeOK
  <2>2. router' \in Goroutine({"receive"}, B)
    BY <1>1, <2>1 DEF RouteReceive, Goroutine
  <2>3. stage' \in [Messages -> S]
    BY <1>1 DEF RouteReceive
  <2> QED
    BY <1>1, <2>1, <2>2, <2>3
       DEF RouteReceive, WaitGroupTypeOK, waitGroupVars, ConsumerTypeOK, PusherTypeOK
<1>2. CASE RouteUnknownGame
  <2>1. router' \in Goroutine({"receive"}, B)
    BY <1>2 DEF RouteUnknownGame, Goroutine
  <2> QED
    BY <1>2, <2>1
       DEF RouteUnknownGame, WaitGroupTypeOK, waitGroupVars, ConsumerTypeOK, PusherTypeOK,
           consumerVars
<1>3. CASE ConsumeLoop /\ UNCHANGED pusherVars
  BY <1>3, ConsumeLoopType DEF PusherTypeOK, pusherVars
<1>4. CASE CancelContext
  BY <1>4 DEF CancelContext, WaitGroupTypeOK, waitGroupVars, pusherVars, PusherTypeOK,
              ConsumerTypeOK
<1>5. CASE StopConsuming
  BY <1>5 DEF StopConsuming, WaitGroupTypeOK, waitGroupVars, PusherTypeOK, ConsumerTypeOK
<1>6. CASE GracefulShutdown
  <2>1. main' \in {"waiting", "unwaited"} /\ waiter' \in {"spawned", waiter}
    BY <1>6 DEF GracefulShutdown
  <2> QED
    BY <1>6, <2>1 DEF GracefulShutdown, WaitGroupTypeOK, WaiterStates, PusherTypeOK,
                      ConsumerTypeOK, consumerVars, ExitStates
<1>7. CASE AwaitPending
  BY <1>7 DEF AwaitPending, Wait, WakeUp, WaitGroupTypeOK, WaiterStates, pusherVars,
              PusherTypeOK, ConsumerTypeOK, consumerVars
<1>8. CASE ExitGraceful \/ ExitTimeout \/ Panic
  BY <1>8 DEF ExitGraceful, ExitTimeout, Panic, WaitGroupTypeOK, waitGroupVars,
              PusherTypeOK, ConsumerTypeOK, consumerVars, ExitStates
<1> QED
  BY <1>1, <1>2, <1>3, <1>4, <1>5, <1>6, <1>7, <1>8 DEF Start, routeMessages

-----------------------------------------------------------------------------
(* Custody                                                                 *)

\* The router has the message in its hands at the control points in P.
RouterHas(P) == At("router") = {m \in Messages : router.pc \in P /\ router.msg = m}

LEMMA InitRouterHas ==
    ASSUME ConsumerInit, PusherInit, NEW P, "receive" \notin P
    PROVE  RouterHas(P)
  BY DEF ConsumerInit, PusherInit, RouterHas, At

\* Start moves messages along unread, consumer, msgChan, router and lost, and the
\* consumer, the channel and the router have those they should.
LEMMA StartCustody ==
    ASSUME ConsumerTypeOK, NEW S, stage \in [Messages -> S],
           NEW B, router \in Goroutine({"receive"}, B), NEW P, "handle" \in P, "receive" \notin P,
           ReadCustody, RouterHas(P), Start
    PROVE  /\ ReadCustody'
           /\ RouterHas(P)'
           /\ \A t : t \notin {"unread", "consumer", "msgChan", "router", "lost"}
                       => At(t)' = At(t)
<1>1. CASE RouteReceive
  <2>1. /\ msgChan \in Seq(Messages) /\ msgChan # << >>
        /\ IsInjective(msgChan) /\ ToSet(msgChan) = At("msgChan")
        /\ stage' = [stage EXCEPT ![Head(msgChan)] = "router"]
        /\ msgChan' = Tail(msgChan)
    BY <1>1 DEF RouteReceive, ReadCustody, ConsumerTypeOK
  <2>2. /\ Head(msgChan) \in Messages
        /\ IsInjective(msgChan') /\ ToSet(msgChan') = At("msgChan")'
        /\ At("router")' = At("router") \cup {Head(msgChan)}
        /\ \A t : t \notin {"msgChan", "router"} => At(t)' = At(t)
    <3> HIDE DEF At
    <3>1. /\ Head(msgChan) \in Messages
          /\ IsInjective(Tail(msgChan)) /\ ToSet(Tail(msgChan)) = At("msgChan")'
          /\ At("router")' = At("router") \cup {Head(msgChan)}
          /\ \A t : t \notin {"msgChan", "router"} => At(t)' = At(t)
      BY <2>1, ChannelLoses, "msgChan" # "router"
    <3> QED
      BY <2>1, <3>1
  <2>3. ReadCustody'
    BY <1>1, <2>2 DEF RouteReceive, ReadCustody
  <2>4. RouterHas(P)'
    BY <1>1, <2>2 DEF RouteReceive, RouterHas
  <2> QED
    BY <2>2, <2>3, <2>4
<1>2. CASE RouteUnknownGame
  <2>1. PICK m \in Messages : m = router.msg
    BY <1>2 DEF RouteUnknownGame, Goroutine
  <2>2. stage[m] = "router"
    BY <1>2, <2>1 DEF RouteUnknownGame, RouterHas, At
  <2>3. /\ At("router")' = At("router") \ {m}
        /\ \A t : t \notin {"router", "lost"} => At(t)' = At(t)
    BY <1>2, <2>1, <2>2, Move DEF RouteUnknownGame
  <2>4. ReadCustody'
    BY <1>2, <2>3, ReadCustodyStays DEF RouteUnknownGame, consumerVars
  <2>5. RouterHas(P)'
    BY <1>2, <2>1, <2>3 DEF RouteUnknownGame, RouterHas
  <2> QED
    BY <2>3, <2>4, <2>5
<1>3. CASE ConsumeLoop /\ UNCHANGED pusherVars
  BY <1>3, ConsumeLoopCustody DEF RouterHas, pusherVars
<1>4. CASE CancelContext \/ StopConsuming \/ GracefulShutdown \/ AwaitPending
             \/ ExitGraceful \/ ExitTimeout \/ Panic
  <2>1. UNCHANGED <<stage, msgChan, consumer, router>>
    BY <1>4 DEF CancelContext, StopConsuming, GracefulShutdown, AwaitPending, ExitGraceful,
                ExitTimeout, Panic, consumerVars, pusherVars
  <2>2. \A t : At(t)' = At(t)
    BY <2>1, Stay
  <2> QED
    BY <2>1, <2>2, ReadCustodyStays DEF RouterHas
<1> QED
  BY <1>1, <1>2, <1>3, <1>4 DEF Start, routeMessages

-----------------------------------------------------------------------------
(* Steps of the handler                                                    *)

\* The handler leaves every message where it is, passes one on that is in flight
\* and not the consumer's, or is through with one: then it calls Done.
HandlerStep ==
    /\ UNCHANGED <<consumer, stopChannel, main>>
    /\ \/ UNCHANGED <<stage, waitGroupVars>>
       \/ \E m \in Messages :
            /\ stage[m] \notin {"unread", "consumer", "handled", "lost"}
            /\ \/ /\ waitGroupDone
                  /\ stage' = [stage EXCEPT ![m] = "handled"]
               \/ /\ UNCHANGED waitGroupVars
                  /\ \E s : /\ s \notin {"unread", "consumer", "handled"}
                            /\ stage' = [stage EXCEPT ![m] = s]

\* What a step needs: the types, S being the stages and B the control points at
\* which the router is busy with a message, and that the goroutines of Start have
\* the messages they act on.
PusherOK(S, B, P) ==
    /\ WaitGroupTypeOK /\ ConsumerTypeOK /\ PusherTypeOK
    /\ stage \in [Messages -> S]
    /\ router \in Goroutine({"receive"}, B)
    /\ "handle" \in P /\ "receive" \notin P
    /\ ReadCustody
    /\ RouterHas(P)

PusherStep == Start \/ HandlerStep

\* A message changes stage when it is read, and after that only while it is in
\* flight.
InFlightMove ==
    \E m \in Messages : \E s :
      /\ s \notin {"unread", "consumer"}
      /\ stage[m] \notin {"unread", "handled", "lost"}
      /\ stage' = [stage EXCEPT ![m] = s]

\* What the goroutines of Start do to the message they have.
LEMMA StartMessages ==
    ASSUME NEW S, NEW B, NEW P, PusherOK(S, B, P)
    PROVE  /\ RouteReceive => Head(msgChan) \in Messages /\ stage[Head(msgChan)] = "msgChan"
           /\ RouteUnknownGame => router.msg \in Messages /\ stage[router.msg] = "router"
           /\ AddPending \/ SendToChannel
                => consumer.msg \in Messages /\ stage[consumer.msg] = "consumer"
<1>1. RouteReceive => Head(msgChan) \in Messages /\ stage[Head(msgChan)] = "msgChan"
  BY ReceiveSet DEF PusherOK, RouteReceive, ReadCustody, ConsumerTypeOK, At
<1>2. RouteUnknownGame => router.msg \in Messages /\ stage[router.msg] = "router"
  BY DEF PusherOK, RouteUnknownGame, RouterHas, Goroutine, At
<1>3. AddPending \/ SendToChannel
        => consumer.msg \in Messages /\ stage[consumer.msg] = "consumer"
  BY DEF PusherOK, AddPending, SendToChannel, ReadCustody, ConsumerTypeOK, Goroutine, At
<1> QED
  BY <1>1, <1>2, <1>3

\* Start passes messages on that the handler has not begun with, and reports nothing.
LEMMA StartStages ==
    ASSUME NEW S, NEW B, NEW P, PusherOK(S, B, P), Start, NEW m \in Messages
    PROVE  /\ UNCHANGED reports
           /\ \/ stage'[m] = stage[m]
              \/ /\ stage[m] \in {"unread", "consumer", "msgChan", "router"}
                 /\ stage'[m] \in {"consumer", "msgChan", "router", "lost"}
<1> USE DEF PusherOK
<1>1. CASE RouteReceive
  BY <1>1, StartMessages DEF RouteReceive
<1>2. CASE RouteUnknownGame
  BY <1>2, StartMessages DEF RouteUnknownGame
<1>3. CASE SendToChannel /\ UNCHANGED pusherVars
  BY <1>3, StartMessages DEF SendToChannel, pusherVars
<1>4. ASSUME NEW n \in Messages, ReadMessage(n), UNCHANGED pusherVars
      PROVE  /\ UNCHANGED reports
             /\ \/ stage'[m] = stage[m]
                \/ stage[m] = "unread" /\ stage'[m] = "consumer"
  BY <1>4 DEF ReadMessage, pusherVars
<1>5. CASE \/ (Subscribe \/ CheckStop \/ ReadNothing \/ AddPending) /\ UNCHANGED pusherVars
           \/ CancelContext \/ StopConsuming \/ GracefulShutdown \/ AwaitPending
           \/ ExitGraceful \/ ExitTimeout \/ Panic
  BY <1>5 DEF Subscribe, CheckStop, ReadNothing, AddPending, CancelContext, StopConsuming,
              GracefulShutdown, AwaitPending, ExitGraceful, ExitTimeout, Panic, pusherVars
<1> QED
  BY <1>1, <1>2, <1>3, <1>4, <1>5 DEF Start, routeMessages, ConsumeLoop, receiveMessage

LEMMA StepMoves ==
    ASSUME NEW S, NEW B, NEW P, PusherOK(S, B, P), PusherStep
    PROVE  \/ UNCHANGED stage
           \/ \E m \in Messages : ReadMessage(m)
           \/ InFlightMove
<1>1. CASE RouteReceive
  BY <1>1, StartMessages DEF RouteReceive, InFlightMove
<1>2. CASE RouteUnknownGame
  BY <1>2, StartMessages DEF RouteUnknownGame, InFlightMove
<1>3. CASE SendToChannel
  BY <1>3, StartMessages DEF SendToChannel, InFlightMove
<1>4. CASE \/ Subscribe \/ CheckStop \/ ReadNothing \/ AddPending
           \/ CancelContext \/ StopConsuming \/ GracefulShutdown \/ AwaitPending
           \/ ExitGraceful \/ ExitTimeout \/ Panic
  BY <1>4 DEF Subscribe, CheckStop, ReadNothing, AddPending, CancelContext, StopConsuming,
              GracefulShutdown, AwaitPending, ExitGraceful, ExitTimeout, Panic
<1>5. CASE HandlerStep
  BY <1>5 DEF HandlerStep, InFlightMove
<1> QED
  BY <1>1, <1>2, <1>3, <1>4, <1>5
     DEF PusherStep, Start, routeMessages, ConsumeLoop, receiveMessage

-----------------------------------------------------------------------------
(* The count                                                               *)

LEMMA InitCount == WaitGroupInit /\ ConsumerInit => PendingExact
<1> SUFFICES ASSUME WaitGroupInit, ConsumerInit PROVE PendingExact
  OBVIOUS
<1>1. Pending = {}
  BY DEF ConsumerInit, Pending
<1> QED
  BY <1>1, FS_EmptySet DEF WaitGroupInit, PendingExact

\* A step adds to the wait group the message that becomes pending, and takes out of
\* it the one that is handled.
LEMMA StepRecounts ==
    ASSUME NEW S, NEW B, NEW P, PusherOK(S, B, P), PusherStep
    PROVE  Recounts(Pending, Pending')
<1> USE DEF PusherOK
<1>1. CASE \/ Subscribe \/ CheckStop \/ ReadNothing
           \/ CancelContext \/ StopConsuming \/ GracefulShutdown \/ AwaitPending
           \/ ExitGraceful \/ ExitTimeout \/ Panic
  <2>1. UNCHANGED <<stage, wg>>
    BY <1>1 DEF Subscribe, CheckStop, ReadNothing, CancelContext, StopConsuming,
                GracefulShutdown, AwaitPending, Wait, WakeUp, ExitGraceful, ExitTimeout,
                Panic, waitGroupVars
  <2>2. consumer'.msg = consumer.msg /\ (consumer'.pc = "add" <=> consumer.pc = "add")
    BY <1>1 DEF ConsumerTypeOK, Goroutine, Subscribe, CheckStop, ReadNothing, CancelContext,
                StopConsuming, GracefulShutdown, AwaitPending, ExitGraceful, ExitTimeout,
                Panic, consumerVars
  <2>3. Pending' = Pending
    BY <2>1, <2>2 DEF Pending
  <2> QED
    BY <2>1, <2>3 DEF Recounts
<1>2. CASE RouteReceive
  <2>1. Pending' = Pending
    BY <1>2, StartMessages DEF RouteReceive, Pending
  <2> QED
    BY <1>2, <2>1 DEF RouteReceive, Recounts, waitGroupVars
<1>3. CASE RouteUnknownGame
  <2>1. Pending' = Pending
    BY <1>3, StartMessages DEF RouteUnknownGame, Pending, consumerVars
  <2> QED
    BY <1>3, <2>1 DEF RouteUnknownGame, Recounts, waitGroupVars
<1>4. ASSUME NEW m \in Messages, ReadMessage(m)
      PROVE  Recounts(Pending, Pending')
  <2>1. Pending' = Pending
    BY <1>4 DEF ReadMessage, Pending
  <2> QED
    BY <1>4, <2>1 DEF ReadMessage, Recounts, waitGroupVars
<1>5. CASE AddPending
  <2>1. /\ consumer.msg \in Messages \ Pending
        /\ Pending' = Pending \cup {consumer.msg}
    BY <1>5, StartMessages DEF AddPending, Pending
  <2> QED
    BY <1>5, <2>1 DEF AddPending, Recounts
<1>6. CASE SendToChannel
  <2>1. consumer.pc = "send" /\ consumer'.pc = "select"
    BY <1>6 DEF SendToChannel
  <2>2. Pending' = Pending
    BY <1>6, <2>1, StartMessages DEF SendToChannel, Pending
  <2> QED
    BY <1>6, <2>2 DEF SendToChannel, Recounts, waitGroupVars
<1>7. CASE HandlerStep
  <2>1. CASE UNCHANGED <<stage, waitGroupVars>>
    BY <1>7, <2>1 DEF HandlerStep, Pending, Recounts, waitGroupVars
  <2>2. ASSUME NEW m \in Messages, stage[m] \notin {"unread", "consumer", "handled", "lost"},
               waitGroupDone, stage' = [stage EXCEPT ![m] = "handled"]
        PROVE  Recounts(Pending, Pending')
    <3>1. m \in Pending
      BY <2>2 DEF Pending, ReadCustody, At
    <3>2. Pending' = Pending \ {m}
      BY <1>7, <2>2 DEF Pending, HandlerStep
    <3> QED
      BY <2>2, <3>1, <3>2 DEF Recounts
  <2>3. ASSUME NEW m \in Messages, stage[m] \notin {"unread", "consumer", "handled", "lost"},
               UNCHANGED waitGroupVars, NEW s, s \notin {"unread", "consumer", "handled"},
               stage' = [stage EXCEPT ![m] = s]
        PROVE  Recounts(Pending, Pending')
    <3>1. Pending' = Pending
      BY <1>7, <2>3 DEF Pending, HandlerStep, ReadCustody, At
    <3> QED
      BY <2>3, <3>1 DEF Recounts, waitGroupVars
  <2> QED
    BY <1>7, <2>1, <2>2, <2>3 DEF HandlerStep
<1> QED
  BY <1>1, <1>2, <1>3, <1>4, <1>5, <1>6, <1>7
     DEF PusherStep, Start, routeMessages, ConsumeLoop, receiveMessage

LEMMA StepCount ==
    ASSUME NEW S, NEW B, NEW P, PusherOK(S, B, P), PendingExact, PusherStep
    PROVE  PendingExact'
<1>1. Recounts(Pending, Pending')
  BY StepRecounts
<1>2. Pending \in SUBSET Messages
  BY DEF Pending
<1> QED
  BY <1>1, <1>2, CountStep DEF PendingExact

-----------------------------------------------------------------------------
(* The shutdown                                                            *)

LEMMA InitShutdown == WaitGroupInit /\ ConsumerInit /\ PusherInit => ShutdownOrder
  BY DEF WaitGroupInit, ConsumerInit, PusherInit, ShutdownOrder

\* Only the consumer's own steps change it, and CheckStop sees a closed channel.
LEMMA ConsumerStep ==
    ASSUME ConsumerTypeOK, PusherStep, consumer'.pc = "read"
    PROVE  consumer.pc = "read" \/ ~stopChannel
<1>1. \/ UNCHANGED consumer
      \/ Subscribe \/ CheckStop \/ ReadNothing \/ AddPending \/ SendToChannel
      \/ \E m \in Messages : ReadMessage(m)
  BY DEF PusherStep, HandlerStep, Start, routeMessages, RouteReceive, RouteUnknownGame,
         ConsumeLoop, receiveMessage, CancelContext, StopConsuming, GracefulShutdown,
         AwaitPending, ExitGraceful, ExitTimeout, Panic, consumerVars
<1> QED
  BY <1>1 DEF Subscribe, CheckStop, ReadNothing, AddPending, SendToChannel, ReadMessage,
              ConsumerTypeOK, Goroutine

\* Once stopChannel is closed, the consumer can make one message more pending, and
\* then none.
LEMMA LateReadStep ==
    ASSUME NEW S, NEW B, NEW P, PusherOK(S, B, P), PusherStep, LateReadOnly, stopChannel
    PROVE  LateReadOnly'
<1> USE DEF PusherOK
<1>1. CASE UNCHANGED stage \/ InFlightMove
  <2>1. Unhandled' \subseteq Unhandled
    BY <1>1 DEF Unhandled, InFlightMove
  <2> QED
    BY <2>1, ConsumerStep DEF LateReadOnly
<1>2. ASSUME NEW m \in Messages, ReadMessage(m)
      PROVE  LateReadOnly'
  <2>1. consumer.pc = "read" /\ consumer'.pc = "add"
    BY <1>2 DEF ReadMessage
  <2>2. Unhandled' \subseteq Unhandled \cup {m}
    BY <1>2 DEF ReadMessage, Unhandled
  <2> QED
    BY <2>1, <2>2 DEF LateReadOnly
<1> QED
  BY <1>1, <1>2, StepMoves

\* If nothing is pending, only a message that the consumer is about to add is left.
LEMMA NothingPending ==
    ASSUME Pending' = {}
    PROVE  LateReadOnly'
<1>1. \A m \in Unhandled' : consumer'.pc = "add" /\ consumer'.msg = m
  BY DEF Pending, Unhandled
<1> QED
  BY <1>1 DEF LateReadOnly, Unhandled

\* Which steps change the waiter.
LEMMA WaiterStep ==
    ASSUME PusherStep
    PROVE  \/ GracefulShutdown
           \/ UNCHANGED waiter
           \/ waiter' = "released" /\ waiter = "waiting" /\ wg' = wg - 1 /\ wg = 1
           \/ waiter' = "waiting" /\ waiter = "spawned"
           \/ waiter' = "returned" /\ waiter = "spawned" /\ wg' = wg /\ wg = 0
           \/ waiter' = "returned" /\ waiter = "released"
<1>1. \/ GracefulShutdown
      \/ UNCHANGED waitGroupVars \/ PendingAdd \/ waitGroupDone \/ Wait \/ WakeUp
  BY DEF PusherStep, HandlerStep, Start, routeMessages, RouteReceive, RouteUnknownGame,
         ConsumeLoop, receiveMessage, Subscribe, CheckStop, ReadMessage, ReadNothing,
         AddPending, SendToChannel, CancelContext, StopConsuming, AwaitPending, ExitGraceful,
         ExitTimeout, Panic
<1> QED
  BY <1>1, WaiterMoves

\* How a step changes main: never back, and stopChannel with it.
LEMMA MainStep ==
    ASSUME PusherStep
    PROVE  \/ UNCHANGED <<main, stopChannel>>
           \/ main = "running" /\ main' = "stopping" /\ stopChannel' = TRUE
           \/ main = "stopping" /\ GracefulShutdown /\ UNCHANGED stopChannel
           \/ /\ main = "waiting" /\ waiter = "returned" /\ main' = "graceful"
              /\ UNCHANGED <<stopChannel, waiter>>
           \/ main = "waiting" /\ main' = "timeout" /\ UNCHANGED <<stopChannel, waiter>>
           \/ Misused /\ main' = "panicked" /\ UNCHANGED <<stopChannel, waiter>>
<1>1. \/ UNCHANGED <<main, stopChannel>>
      \/ StopConsuming \/ GracefulShutdown \/ ExitGraceful \/ ExitTimeout \/ Panic
  BY DEF PusherStep, HandlerStep, Start, routeMessages, RouteReceive, RouteUnknownGame,
         ConsumeLoop, receiveMessage, Subscribe, CheckStop, ReadMessage, ReadNothing,
         AddPending, SendToChannel, CancelContext, AwaitPending, consumerVars, pusherVars
<1> QED
  BY <1>1 DEF StopConsuming, GracefulShutdown, ExitGraceful, ExitTimeout, Panic,
              consumerVars, waitGroupVars

\* The wait group panics only after the stop: the counter is never negative.
LEMMA MisusedAfterStop ==
    ASSUME WaitGroupTypeOK, PendingExact, ShutdownOrder, Misused
    PROVE  main # "running" /\ HandleAllMessagesBeforeExiting
<1>1. IsFiniteSet(Pending)
  <2>1. Pending \subseteq Messages
    BY DEF Pending
  <2> QED
    BY <2>1, FS_Subset, MessagesAssumption
<1>2. wg >= 0
  BY <1>1, FS_CardinalityType DEF PendingExact
<1>3. waiter = "released"
  BY <1>2 DEF Misused, WaitGroupTypeOK
<1> QED
  BY <1>3 DEF ShutdownOrder

\* Each conjunct of ShutdownOrder, after a step.
LEMMA StopChannelStep ==
    ASSUME WaitGroupTypeOK, PendingExact, ShutdownOrder, PusherStep
    PROVE  stopChannel' = (main' # "running")
<1>1. CASE UNCHANGED <<main, stopChannel>>
  BY <1>1 DEF ShutdownOrder
<1>2. CASE main = "stopping" /\ GracefulShutdown /\ UNCHANGED stopChannel
  BY <1>2 DEF ShutdownOrder, GracefulShutdown
<1>3. CASE main = "waiting" /\ main' \in {"graceful", "timeout"} /\ UNCHANGED stopChannel
  BY <1>3 DEF ShutdownOrder
<1>4. CASE Misused /\ main' = "panicked" /\ UNCHANGED stopChannel
  BY <1>4, MisusedAfterStop DEF ShutdownOrder
<1> QED
  BY <1>1, <1>2, <1>3, <1>4, MainStep

LEMMA WaitsAfterStop ==
    ASSUME ShutdownOrder, PusherStep, waiter' # "absent"
    PROVE  stopChannel' = TRUE /\ HandleAllMessagesBeforeExiting
<1>1. waiter # "absent" \/ (main = "stopping" /\ HandleAllMessagesBeforeExiting)
  BY WaiterStep DEF GracefulShutdown
<1>2. stopChannel = TRUE /\ HandleAllMessagesBeforeExiting
  BY <1>1 DEF ShutdownOrder
<1>3. stopChannel' = TRUE
  BY <1>2, MainStep
<1> QED
  BY <1>2, <1>3

LEMMA FoundZeroStep ==
    ASSUME NEW S, NEW B, NEW P, PusherOK(S, B, P), PendingExact', ShutdownOrder, PusherStep,
           waiter' \in {"released", "returned"}
    PROVE  LateReadOnly'
<1>1. CASE waiter \in {"released", "returned"}
  <2>1. LateReadOnly /\ stopChannel
    BY <1>1 DEF ShutdownOrder
  <2> QED
    BY <2>1, LateReadStep
<1>2. CASE waiter \notin {"released", "returned"}
  <2>1. wg' = 0 /\ HandleAllMessagesBeforeExiting
    BY <1>2, WaiterStep DEF GracefulShutdown, ShutdownOrder, PusherOK, WaitGroupTypeOK,
                            WaiterStates
  <2>2. Cardinality(Pending') = 0 /\ Pending' \in SUBSET Messages
    BY <2>1 DEF PendingExact, Pending
  <2>3. Pending' = {}
    BY <2>2, ZeroCount
  <2> QED
    BY <2>3, NothingPending
<1> QED
  BY <1>1, <1>2

LEMMA StepShutdown ==
    ASSUME NEW S, NEW B, NEW P, PusherOK(S, B, P), PendingExact, ShutdownOrder, Alive, PusherStep
    PROVE  ShutdownOrder'
<1>1. PendingExact'
  BY StepCount
<1>2. stopChannel' = (main' # "running")
  BY StopChannelStep DEF PusherOK
<1>3. waiter' # "absent" => stopChannel' /\ HandleAllMessagesBeforeExiting
  BY WaitsAfterStop
<1>4. main' = "waiting" => HandleAllMessagesBeforeExiting
  BY MainStep DEF ShutdownOrder, GracefulShutdown
<1>5. waiter' \in {"released", "returned"} => LateReadOnly'
  BY <1>1, FoundZeroStep
<1>6. main' = "graceful" => waiter' = "returned"
  BY MainStep, WaiterStep DEF ShutdownOrder, GracefulShutdown, Alive, ExitStates
<1> QED
  BY <1>2, <1>3, <1>4, <1>5, <1>6 DEF ShutdownOrder

LEMMA StayShutdown ==
    ASSUME UNCHANGED <<stage, consumer, main, stopChannel, waiter, wg>>
    PROVE  /\ ShutdownOrder => ShutdownOrder'
           /\ PendingExact => PendingExact'
<1>1. Pending' = Pending /\ (LateReadOnly => LateReadOnly')
  BY DEF LateReadOnly, Unhandled, Pending
<1> QED
  BY <1>1 DEF ShutdownOrder, PendingExact

LEMMA OrderBoundsLoss == ShutdownOrder => GracefulExitLosesAtMostOne
  BY AtMostOne DEF ShutdownOrder, LateReadOnly, GracefulExitLosesAtMostOne

-----------------------------------------------------------------------------
(* PushDelivery                                                            *)

\* What a stage is to PushDelivery.
DeliveryAt(s) ==
    CASE s = "unread" -> "unread"
      [] s = "handled" -> "settled"
      [] s = "lost" -> "lost"
      [] OTHER -> "pending"

\* A step that takes m to stage s changes the delivery of m alone.
LEMMA DeliveryMoves ==
    ASSUME NEW S, stage \in [Messages -> S], NEW m \in Messages, NEW s,
           stage' = [stage EXCEPT ![m] = s]
    PROVE  /\ deliveryOf[m] = DeliveryAt(stage[m])
           /\ deliveryOf' = [deliveryOf EXCEPT ![m] = DeliveryAt(s)]
  BY DEF deliveryOf, DeliveryAt

LEMMA DeliveryStays == UNCHANGED stage => UNCHANGED deliveryOf
  BY DEF deliveryOf

LEMMA InitDelivery == ConsumerInit /\ PusherInit => Delivery!Init
  BY DEF ConsumerInit, PusherInit, Delivery!Init, deliveryOf, processOf, readingOf

\* A message that stays in flight, or becomes lost or handled.
LEMMA MoveDelivers ==
    ASSUME NEW S, stage \in [Messages -> S], PusherTypeOK, Alive,
           NEW m \in Messages, NEW s, s # "unread",
           stage[m] \notin {"unread", "handled", "lost"},
           stage' = [stage EXCEPT ![m] = s], UNCHANGED <<processOf, readingOf>>
    PROVE  [Delivery!Next]_(Delivery!vars)
<1>1. /\ deliveryOf[m] = "pending"
      /\ deliveryOf' = [deliveryOf EXCEPT ![m] = DeliveryAt(s)]
  BY DeliveryMoves DEF DeliveryAt
<1>2. Delivery!Alive
  BY DEF Delivery!Alive, processOf, PusherTypeOK, Alive
<1>3. CASE s = "handled"
  <2>1. Delivery!Settle(m)
    BY <1>1, <1>2, <1>3 DEF Delivery!Settle, Delivery!Becomes, DeliveryAt
  <2> QED
    BY <2>1 DEF Delivery!Next
<1>4. CASE s = "lost"
  <2>1. Delivery!Lose(m)
    BY <1>1, <1>2, <1>4 DEF Delivery!Lose, Delivery!Becomes, DeliveryAt
  <2> QED
    BY <2>1 DEF Delivery!Next
<1>5. CASE s \notin {"unread", "handled", "lost"}
  <2>1. DeliveryAt(s) = "pending"
    BY <1>5 DEF DeliveryAt
  <2>2. deliveryOf' = deliveryOf
    BY <1>1, <2>1 DEF deliveryOf
  <2> QED
    BY <2>2 DEF Delivery!vars
<1> QED
  BY <1>3, <1>4, <1>5

LEMMA ConsumerDelivers ==
    ASSUME NEW S, NEW B, NEW P, PusherOK(S, B, P), ShutdownOrder, Alive, ConsumeLoop, UNCHANGED pusherVars
    PROVE  [Delivery!Next]_(Delivery!vars)
<1> USE DEF PusherOK
<1>1. UNCHANGED <<main, processOf>> /\ processOf \in {"running", "stopping"}
  BY DEF pusherVars, processOf, PusherTypeOK, Alive
<1>2. main # "running" => stopChannel = TRUE /\ processOf = "stopping"
  BY <1>1 DEF ShutdownOrder, processOf
<1>3. CASE Subscribe \/ CheckStop \/ AddPending
  <2>1. UNCHANGED <<deliveryOf, readingOf>>
    BY <1>1, <1>2, <1>3, DeliveryStays
       DEF Subscribe, CheckStop, AddPending, readingOf, ConsumerTypeOK, Goroutine
  <2> QED
    BY <1>1, <2>1 DEF Delivery!vars
<1>4. CASE ReadNothing
  <2>1. UNCHANGED deliveryOf /\ consumer.pc = "read" /\ consumer'.pc = "select"
    BY <1>4, DeliveryStays DEF ReadNothing, ConsumerTypeOK, Goroutine
  <2>2. CASE main = "running"
    BY <1>1, <2>1, <2>2 DEF Delivery!vars, readingOf
  <2>3. CASE main # "running"
    <3>1. Delivery!StopReading
      BY <1>1, <1>2, <2>1, <2>3 DEF Delivery!StopReading, readingOf
    <3> QED
      BY <3>1 DEF Delivery!Next
  <2> QED
    BY <2>2, <2>3
<1>5. ASSUME NEW m \in Messages, ReadMessage(m)
      PROVE  [Delivery!Next]_(Delivery!vars)
  <2>1. /\ deliveryOf[m] = "unread"
        /\ deliveryOf' = [deliveryOf EXCEPT ![m] = "pending"]
    <3>1. stage[m] = "unread" /\ stage' = [stage EXCEPT ![m] = "consumer"]
      BY <1>5 DEF ReadMessage
    <3>2. /\ deliveryOf[m] = DeliveryAt("unread")
          /\ deliveryOf' = [deliveryOf EXCEPT ![m] = DeliveryAt("consumer")]
      BY <3>1, DeliveryMoves
    <3> QED
      BY <3>2 DEF DeliveryAt
  <2>2. readingOf /\ readingOf' = (processOf = "running")
    BY <1>1, <1>5 DEF ReadMessage, readingOf, processOf
  <2>3. Delivery!Consume(m)
    BY <1>1, <2>1, <2>2 DEF Delivery!Consume, Delivery!Becomes, Delivery!Alive
  <2> QED
    BY <2>3 DEF Delivery!Next
<1>6. CASE SendToChannel
  <2>1. consumer.msg \in Messages /\ stage[consumer.msg] = "consumer"
    BY <1>6, StartMessages
  <2>2. UNCHANGED readingOf
    BY <1>1, <1>6 DEF SendToChannel, readingOf
  <2> QED
    BY <1>1, <1>6, <2>1, <2>2, MoveDelivers DEF SendToChannel
<1> QED
  BY <1>3, <1>4, <1>5, <1>6 DEF ConsumeLoop, receiveMessage

\* A step of Start or of the handler is one that PushDelivery allows, or changes
\* nothing that it sees.
LEMMA StepDelivers ==
    ASSUME NEW S, NEW B, NEW P, PusherOK(S, B, P), PendingExact, ShutdownOrder, Alive, PusherStep
    PROVE  [Delivery!Next]_(Delivery!vars)
<1> USE DEF PusherOK
<1>1. CASE RouteReceive
  <2>1. Head(msgChan) \in Messages /\ stage[Head(msgChan)] = "msgChan"
    BY <1>1, StartMessages
  <2>2. UNCHANGED <<processOf, readingOf>>
    BY <1>1 DEF RouteReceive, processOf, readingOf
  <2> QED
    BY <1>1, <2>1, <2>2, MoveDelivers DEF RouteReceive
<1>2. CASE RouteUnknownGame
  <2>1. router.msg \in Messages /\ stage[router.msg] = "router"
    BY <1>2, StartMessages
  <2>2. UNCHANGED <<processOf, readingOf>>
    BY <1>2 DEF RouteUnknownGame, processOf, readingOf, consumerVars
  <2> QED
    BY <1>2, <2>1, <2>2, MoveDelivers DEF RouteUnknownGame
<1>3. CASE ConsumeLoop /\ UNCHANGED pusherVars
  BY <1>3, ConsumerDelivers
<1>4. CASE CancelContext \/ AwaitPending
  <2>1. UNCHANGED <<stage, main, consumer>>
    BY <1>4 DEF CancelContext, AwaitPending, pusherVars, consumerVars
  <2> QED
    BY <2>1, DeliveryStays DEF Delivery!vars, processOf, readingOf
<1>5. CASE StopConsuming
  <2>1. UNCHANGED deliveryOf /\ readingOf' \in BOOLEAN
    BY <1>5, DeliveryStays DEF StopConsuming, readingOf
  <2>2. Delivery!Stop
    BY <1>5, <2>1 DEF StopConsuming, Delivery!Stop, processOf
  <2> QED
    BY <2>2 DEF Delivery!Next
<1>6. CASE GracefulShutdown
  <2>1. /\ main = "stopping" /\ UNCHANGED <<deliveryOf, readingOf>> /\ processOf = "stopping"
        /\ main' = IF HandleAllMessagesBeforeExiting THEN "waiting" ELSE "unwaited"
    BY <1>6, DeliveryStays DEF GracefulShutdown, consumerVars, readingOf, processOf
  <2>2. CASE HandleAllMessagesBeforeExiting
    BY <2>1, <2>2 DEF processOf, Delivery!vars
  <2>3. CASE ~HandleAllMessagesBeforeExiting
    <3>1. Delivery!ExitUnwaited
      BY <2>1, <2>3 DEF Delivery!ExitUnwaited, processOf
    <3> QED
      BY <3>1 DEF Delivery!Next
  <2> QED
    BY <2>2, <2>3
<1>7. CASE ExitGraceful
  <2>1. /\ processOf = "stopping" /\ processOf' = "graceful" /\ UNCHANGED <<deliveryOf, readingOf>>
        /\ HandleAllMessagesBeforeExiting
    BY <1>7, DeliveryStays
       DEF ExitGraceful, processOf, readingOf, consumerVars, ShutdownOrder
  <2>2. \A m, n \in Delivery!Behind : m = n
    <3>1. \A m, n \in Unhandled : m = n
      BY <1>7 DEF ExitGraceful, ShutdownOrder, LateReadOnly
    <3>2. Delivery!Behind = Unhandled
      BY DEF Delivery!Behind, Unhandled, deliveryOf
    <3> QED
      BY <3>1, <3>2
  <2>3. Delivery!ExitGraceful
    BY <2>1, <2>2 DEF Delivery!ExitGraceful
  <2> QED
    BY <2>3 DEF Delivery!Next
<1>8. CASE ExitTimeout
  <2>1. Delivery!ExitTimeout
    BY <1>8, DeliveryStays
       DEF ExitTimeout, Delivery!ExitTimeout, processOf, readingOf, consumerVars, ShutdownOrder
  <2> QED
    BY <2>1 DEF Delivery!Next
<1>9. CASE Panic
  <2>1. main # "running" /\ HandleAllMessagesBeforeExiting
    BY <1>9, MisusedAfterStop DEF Panic
  <2>2. Delivery!Panic
    BY <1>9, <2>1, DeliveryStays
       DEF Panic, Delivery!Panic, processOf, readingOf, consumerVars, PusherTypeOK, Alive
  <2> QED
    BY <2>2 DEF Delivery!Next
<1>10. CASE HandlerStep
  <2>1. UNCHANGED <<processOf, readingOf>>
    BY <1>10 DEF HandlerStep, processOf, readingOf
  <2>2. CASE UNCHANGED stage
    BY <2>1, <2>2, DeliveryStays DEF Delivery!vars
  <2>3. ASSUME NEW m \in Messages, NEW s, s # "unread",
               stage[m] \notin {"unread", "handled", "lost"}, stage' = [stage EXCEPT ![m] = s]
        PROVE  [Delivery!Next]_(Delivery!vars)
    BY <2>1, <2>3, MoveDelivers
  <2> QED
    BY <1>10, <2>2, <2>3 DEF HandlerStep
<1> QED
  BY <1>1, <1>2, <1>3, <1>4, <1>5, <1>6, <1>7, <1>8, <1>9, <1>10
     DEF PusherStep, Start, routeMessages

LEMMA StayDelivers ==
    ASSUME UNCHANGED <<stage, consumer, main>>
    PROVE  [Delivery!Next]_(Delivery!vars)
  BY DeliveryStays DEF Delivery!vars, processOf, readingOf
=============================================================================
