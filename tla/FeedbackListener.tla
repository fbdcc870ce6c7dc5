-------------------------- MODULE FeedbackListener --------------------------
(***************************************************************************)
(* The process that cmd/feedback_listener.go starts (feedback/): a Kafka   *)
(* consumer, the Broker that picks the invalid tokens out of the feedback  *)
(* messages, the InvalidTokenHandler that buffers them and deletes them    *)
(* from the database, and the main goroutine in Listener.Start, Cleanup    *)
(* and gracefulShutdown.                                                   *)
(*                                                                         *)
(* The consumer of feedback/kafka_consumer.go has the control of the       *)
(* pusher's.  Its consumerContext is what stops it: stopChannel here is    *)
(* TRUE once that context is cancelled.  The other two channels of its     *)
(* select, ctxDone here, are never closed.                                 *)
(***************************************************************************)
EXTENDS KafkaConsumer

CONSTANTS
    TokenChannelSize,  \* feedbackListeners.broker.invalidTokenChan.size
    BufferSize,        \* feedbackListeners.invalidToken.buffer.size
    Tables,            \* the database tables, one for a game and platform
    TableOf            \* the table a message's token is in

ASSUME TokenSizesAssumption == {TokenChannelSize, BufferSize} \subseteq Nat \ {0}
ASSUME TablesAssumption == TableOf \in [Messages -> Tables]

VARIABLES
    closed,      \* what Cleanup has closed besides consumerContext
    broker,      \* the Broker's goroutine
    tokenChan,   \* InvalidTokenOutChan, which is the handler's InChan
    token,       \* what became of the token that a message reports
    handler,     \* the InvalidTokenHandler's goroutine
    buffer,
    untried,     \* tables the flush under way has not come to
    main         \* the goroutine that called Start

brokerVars == <<broker, tokenChan>>
handlerVars == <<handler, buffer, untried>>
vars == <<waitGroupVars, stage, consumerVars, closed, brokerVars, token, handlerVars, main>>

ExitStates == {"graceful", "timeout", "unwaited", "panicked", "brokerPanicked"}

Alive == main \notin ExitStates

TypeOK ==
    /\ WaitGroupTypeOK
    /\ stage \in [Messages -> {"unread", "consumer", "msgChan", "broker", "handled"}]
    /\ ConsumerTypeOK
    /\ ~ctxDone
    /\ closed \subseteq {"consumer", "broker", "tokenChan", "handler"}
    /\ broker \in Goroutine({"select", "stopped"}, {"route", "send", "confirm"})
    /\ tokenChan \in Seq(Messages) /\ Len(tokenChan) <= TokenChannelSize
    /\ token \in [Messages -> {"none", "tokenChan", "buffer", "deleted", "failed"}]
    /\ handler \in {"select", "flush", "stopped"}
    /\ buffer \in Seq(Messages) /\ Len(buffer) <= BufferSize
    /\ Len(buffer) = BufferSize => handler = "flush"
    /\ untried \subseteq Tables
    /\ main \in {"running", "stats", "signalled", "stopConsuming", "closeConsumer",
                 "stopBroker", "closeTokens", "stopHandler", "shutdown", "waiting"}
                \cup ExitStates

Init ==
    /\ WaitGroupInit
    /\ ConsumerInit
    /\ closed = {}
    /\ broker = [pc |-> "select", msg |-> None]
    /\ tokenChan = << >>
    /\ token = [m \in Messages |-> "none"]
    /\ handler = "select"
    /\ buffer = << >>
    /\ untried = {}
    /\ main = "running"

-----------------------------------------------------------------------------
(* ConsumeLoop and receiveMessage                                          *)

\* A consumer that is closed returns an error to ReadMessage.
Consume ==
    /\ ConsumeLoop
    /\ "consumer" \in closed /\ consumer.pc = "read" => consumer'.pc = "select"
    /\ UNCHANGED <<closed, brokerVars, token, handlerVars, main>>

-----------------------------------------------------------------------------
(* Broker                                                                  *)

\* The select of processMessages, which chooses freely when a message is there
\* and stopChannel is closed.
BrokerReceive ==
    /\ broker.pc = "select"
    /\ msgChan # << >>
    /\ broker' = [pc |-> "route", msg |-> Head(msgChan)]
    /\ msgChan' = Tail(msgChan)
    /\ stage' = [stage EXCEPT ![Head(msgChan)] = "broker"]
    /\ UNCHANGED <<waitGroupVars, consumer, stopChannel, ctxDone, closed, tokenChan, token, handlerVars, main>>

BrokerStop ==
    /\ broker.pc = "select"
    /\ "broker" \in closed
    /\ broker' = [broker EXCEPT !.pc = "stopped"]
    /\ UNCHANGED <<waitGroupVars, stage, consumerVars, closed, tokenChan, token, handlerVars, main>>

\* The feedback reports an invalid token, or anything else: another error, a value
\* that does not parse, a platform that is neither apns nor gcm.
Route ==
    /\ broker.pc = "route"
    /\ \E pc \in {"send", "confirm"} : broker' = [broker EXCEPT !.pc = pc]
    /\ UNCHANGED <<waitGroupVars, stage, consumerVars, closed, tokenChan, token, handlerVars, main>>

SendToken ==
    /\ broker.pc = "send"
    /\ "tokenChan" \notin closed
    /\ Len(tokenChan) < TokenChannelSize
    /\ tokenChan' = Append(tokenChan, broker.msg)
    /\ token' = [token EXCEPT ![broker.msg] = "tokenChan"]
    /\ broker' = [broker EXCEPT !.pc = "confirm"]
    /\ UNCHANGED <<waitGroupVars, stage, consumerVars, closed, handlerVars, main>>

\* A send on a closed channel panics, and so does one that is blocked when the
\* channel is closed.
SendTokenPanics ==
    /\ broker.pc = "send"
    /\ "tokenChan" \in closed
    /\ main' = "brokerPanicked"
    /\ UNCHANGED <<waitGroupVars, stage, consumerVars, closed, brokerVars, token, handlerVars>>

\* Mutant of confirmMessage: only messages that report a token are confirmed.
confirmTokensOnly ==
    /\ broker.pc = "confirm"
    /\ IF token[broker.msg] = "none" THEN UNCHANGED waitGroupVars ELSE waitGroupDone
    /\ stage' = [stage EXCEPT ![broker.msg] = "handled"]
    /\ broker' = [pc |-> "select", msg |-> None]
    /\ UNCHANGED <<consumerVars, closed, tokenChan, token, handlerVars, main>>

confirmMessage ==
    /\ broker.pc = "confirm"
    /\ waitGroupDone
    /\ stage' = [stage EXCEPT ![broker.msg] = "handled"]
    /\ broker' = [pc |-> "select", msg |-> None]
    /\ UNCHANGED <<consumerVars, closed, tokenChan, token, handlerVars, main>>

Broker ==
    \/ BrokerReceive
    \/ BrokerStop
    \/ Route
    \/ SendToken
    \/ SendTokenPanics
    \/ confirmMessage

-----------------------------------------------------------------------------
(* InvalidTokenHandler                                                     *)

\* A flush, under BufferLock, of what is in the buffer.
Flush(tokens) ==
    /\ handler' = "flush"
    /\ untried' = {TableOf[m] : m \in ToSet(tokens)}

\* Mutant of Collect: the buffer is flushed when it is over its size.
CollectOneMore ==
    /\ handler = "select"
    /\ tokenChan # << >>
    /\ tokenChan' = Tail(tokenChan)
    /\ token' = [token EXCEPT ![Head(tokenChan)] = "buffer"]
    /\ buffer' = Append(buffer, Head(tokenChan))
    /\ IF Len(buffer') > BufferSize THEN Flush(buffer') ELSE UNCHANGED <<handler, untried>>
    /\ UNCHANGED <<waitGroupVars, stage, consumerVars, closed, broker, main>>

\* A token is received, also after the channel is closed if one is left in it; a
\* full buffer is flushed.
Collect ==
    /\ handler = "select"
    /\ tokenChan # << >>
    /\ tokenChan' = Tail(tokenChan)
    /\ token' = [token EXCEPT ![Head(tokenChan)] = "buffer"]
    /\ buffer' = Append(buffer, Head(tokenChan))
    /\ IF Len(buffer') >= BufferSize THEN Flush(buffer') ELSE UNCHANGED <<handler, untried>>
    /\ UNCHANGED <<waitGroupVars, stage, consumerVars, closed, broker, main>>

FlushTick ==
    /\ handler = "select"
    /\ Flush(buffer)
    /\ UNCHANGED <<waitGroupVars, stage, consumerVars, closed, brokerVars, token, buffer, main>>

HandlerStop ==
    /\ handler = "select"
    /\ "handler" \in closed
    /\ handler' = "stopped"
    /\ UNCHANGED <<waitGroupVars, stage, consumerVars, closed, brokerVars, token, buffer, untried, main>>

\* Mutant of deleteTokensFromGame: an error ends the whole flush.
deleteUntilError(t) ==
    /\ handler = "flush"
    /\ t \in untried
    /\ \E outcome \in {"deleted", "failed"} :
         /\ token' = [m \in Messages |->
                        IF m \in ToSet(buffer) /\ TableOf[m] = t THEN outcome ELSE token[m]]
         /\ untried' = IF outcome = "failed" THEN {} ELSE untried \ {t}
    /\ UNCHANGED <<waitGroupVars, stage, consumerVars, closed, brokerVars, handler, buffer, main>>

\* One DELETE for each table; an error is logged and the next table is tried.
deleteTokensFromGame(t) ==
    /\ handler = "flush"
    /\ t \in untried
    /\ \E outcome \in {"deleted", "failed"} :
         token' = [m \in Messages |->
                     IF m \in ToSet(buffer) /\ TableOf[m] = t THEN outcome ELSE token[m]]
    /\ untried' = untried \ {t}
    /\ UNCHANGED <<waitGroupVars, stage, consumerVars, closed, brokerVars, handler, buffer, main>>

\* Mutant of ResetBuffer: the buffer keeps its tokens.
KeepBuffer ==
    /\ handler = "flush"
    /\ untried = {}
    /\ handler' = "select"
    /\ UNCHANGED <<waitGroupVars, stage, consumerVars, closed, brokerVars, token, buffer, untried, main>>

ResetBuffer ==
    /\ handler = "flush"
    /\ untried = {}
    /\ buffer' = << >>
    /\ handler' = "select"
    /\ UNCHANGED <<waitGroupVars, stage, consumerVars, closed, brokerVars, token, untried, main>>

deleteTokens == (\E t \in Tables : deleteTokensFromGame(t)) \/ ResetBuffer

Handler == Collect \/ FlushTick \/ HandlerStop \/ deleteTokens

-----------------------------------------------------------------------------
(* Listener: Start, Cleanup, gracefulShutdown                              *)

Goto(from, to) ==
    /\ main = from
    /\ main' = to
    /\ UNCHANGED <<waitGroupVars, stage, consumer, msgChan, ctxDone,
                   brokerVars, token, handlerVars>>

\* A tick of the stats ticker, or a signal.
StatsTick == Goto("running", "stats") /\ UNCHANGED <<stopChannel, closed>>

Signal == Goto("running", "signalled") /\ UNCHANGED <<stopChannel, closed>>

\* flushStats waits for BufferLock, which a flush holds.
flushStats ==
    /\ handler # "flush"
    /\ \/ Goto("stats", "running")
       \/ Goto("signalled", "stopConsuming")
    /\ UNCHANGED <<stopChannel, closed>>

Close(c, from, to) ==
    /\ Goto(from, to)
    /\ closed' = closed \cup {c}
    /\ UNCHANGED stopChannel

StopConsuming ==
    /\ Goto("stopConsuming", "closeConsumer")
    /\ stopChannel' = TRUE
    /\ UNCHANGED closed

\* Cleanup calls StopConsuming, closes the consumer, and stops the broker (which
\* closes two channels) and the token handler.
Cleanup ==
    \/ StopConsuming
    \/ Close("consumer", "closeConsumer", "stopBroker")
    \/ Close("broker", "stopBroker", "closeTokens")
    \/ Close("tokenChan", "closeTokens", "stopHandler")
    \/ Close("handler", "stopHandler", "shutdown")

gracefulShutdown ==
    /\ main = "shutdown"
    /\ IF HandleAllMessagesBeforeExiting
         THEN main' = "waiting" /\ waiter' = "spawned"
         ELSE main' = "unwaited" /\ UNCHANGED waiter
    /\ UNCHANGED <<wg, stage, consumerVars, closed, brokerVars, token, handlerVars>>

AwaitPending ==
    /\ Wait \/ WakeUp
    /\ UNCHANGED <<stage, consumerVars, closed, brokerVars, token, handlerVars, main>>

\* Mutant of ExitGraceful: the two results of WaitTimeout are exchanged.
ExitGracefulUnchecked ==
    /\ Goto("waiting", "graceful")
    /\ UNCHANGED <<stopChannel, closed>>

ExitGraceful ==
    /\ waiter = "returned"
    /\ Goto("waiting", "graceful")
    /\ UNCHANGED <<stopChannel, closed>>

ExitTimeout == Goto("waiting", "timeout") /\ UNCHANGED <<stopChannel, closed>>

Panic ==
    /\ Misused
    /\ main' = "panicked"
    /\ UNCHANGED <<waitGroupVars, stage, consumerVars, closed, brokerVars, token, handlerVars>>

Shutdown ==
    \/ flushStats
    \/ Cleanup
    \/ gracefulShutdown
    \/ AwaitPending
    \/ ExitGraceful
    \/ Panic

Listen == StatsTick \/ Signal \/ Shutdown \/ ExitTimeout

-----------------------------------------------------------------------------

Step == Consume \/ Broker \/ Handler \/ Listen

Terminated == ~Alive /\ UNCHANGED vars

Next ==
    \/ Alive /\ Step
    \/ Terminated

Spec == Init /\ [][Next]_vars

\* Every goroutine that can run does, a DELETE returns, and the select of the
\* token handler, which chooses at random, neglects neither tokens nor ticks.  The
\* stats ticker, a signal and the shutdown timer are not relied on.
Fairness ==
    /\ WF_vars(Alive /\ Consume)
    /\ WF_vars(Alive /\ Broker)
    /\ WF_vars(Alive /\ deleteTokens)
    /\ SF_vars(Alive /\ Collect)
    /\ SF_vars(Alive /\ FlushTick)
    /\ SF_vars(Alive /\ flushStats)
    /\ WF_vars(Alive /\ Shutdown)

FairSpec == Spec /\ Fairness

-----------------------------------------------------------------------------
(* Properties                                                              *)

Pending ==
    {m \in Messages : /\ stage[m] \notin {"unread", "handled"}
                      /\ ~(consumer.pc = "add" /\ consumer.msg = m)}

\* The wait group counts exactly the feedback messages that the broker has not
\* confirmed, whatever the message reports and whenever the stop comes.
PendingExact ==
    wg = IF HandleAllMessagesBeforeExiting THEN Cardinality(Pending) ELSE 0

\* A token that was routed is in the channel or in the buffer, in one of them and
\* once, until its table is tried; the flush under way has tried the other tables;
\* and no token is tried twice.
TokenCustody ==
    /\ IsInjective(tokenChan)
    /\ ToSet(tokenChan) = {m \in Messages : token[m] = "tokenChan"}
    /\ IsInjective(buffer)
    /\ {m \in Messages : token[m] = "buffer"} =
         {m \in ToSet(buffer) : handler = "flush" => TableOf[m] \in untried}
    /\ handler # "flush" => untried = {} /\ \A m \in ToSet(buffer) : token[m] = "buffer"

\* A graceful exit leaves at most one feedback message unconfirmed: the one the
\* consumer was reading when consumerContext was cancelled.
GracefulExitLosesAtMostOne ==
    main = "graceful" =>
      Cardinality({m \in Messages : stage[m] \notin {"unread", "handled"}}) <= 1

\* While the listener runs, every feedback message is confirmed, and if it reports
\* an invalid token the deletion of that token is tried: a full token channel or
\* buffer, or main waiting for BufferLock, holds nothing up for ever.
EveryTokenTried ==
    \A m \in Messages :
      stage[m] = "consumer" ~>
        \/ main \notin {"running", "stats"}
        \/ stage[m] = "handled" /\ token[m] \in {"none", "deleted", "failed"}

\* The shutdown ends without the timer, unless the broker stopped before it had
\* confirmed every message: then nobody does, because Cleanup stops the broker
\* first and waits for it after.
ShutdownDrains ==
    main = "signalled" ~> ~Alive \/ (broker.pc = "stopped" /\ Pending # {})

\* Stopping the broker never crashes the process.  (It may: Stop closes
\* InvalidTokenOutChan while processMessages is about to send on it, blocked in
\* the send, or choosing one more message.)
BrokerNeverPanics ==
    main # "brokerPanicked"
=============================================================================
