---------------------------- MODULE KafkaConsumer ----------------------------
(***************************************************************************)
(* extensions/kafka_consumer.go: the goroutine that runs ConsumeLoop.  It  *)
(* reads deliveries from the broker, counts each in the pending wait group *)
(* and puts it in the bounded channel msgChan for the router.              *)
(*                                                                         *)
(* A message is one delivery of the broker.  Deliveries come from several  *)
(* partitions, so their order is left open.                                *)
(***************************************************************************)
EXTENDS WaitGroup, Sequences, SequencesExt

CONSTANTS
    Messages,                       \* the deliveries the broker has for this process
    None,                           \* no message
    ChannelSize,                    \* queue.channelSize
    HandleAllMessagesBeforeExiting  \* queue.handleAllMessagesBeforeExiting

ASSUME MessagesAssumption == IsFiniteSet(Messages) /\ None \notin Messages
ASSUME ChannelSizeAssumption == ChannelSize \in Nat \ {0}
ASSUME HandleAllAssumption == HandleAllMessagesBeforeExiting \in BOOLEAN

VARIABLES
    stage,        \* which goroutine or channel has the message now
    consumer,     \* the ConsumeLoop goroutine
    msgChan,
    stopChannel,  \* TRUE once it is closed
    ctxDone       \* TRUE once the context given to Start is cancelled

consumerVars == <<consumer, msgChan, stopChannel, ctxDone>>

At(s) == {m \in Messages : stage[m] = s}

\* A goroutine has a message in hand at some of its control points.
Goroutine(free, busy) == [pc : free, msg : {None}] \cup [pc : busy, msg : Messages]

ConsumerTypeOK ==
    /\ consumer \in
         Goroutine({"subscribe", "select", "read", "stopped", "failed"}, {"add", "send"})
    /\ msgChan \in Seq(Messages)
    /\ Len(msgChan) <= ChannelSize
    /\ stopChannel \in BOOLEAN
    /\ ctxDone \in BOOLEAN

ConsumerInit ==
    /\ stage = [m \in Messages |-> "unread"]
    /\ consumer = [pc |-> "subscribe", msg |-> None]
    /\ msgChan = << >>
    /\ stopChannel = FALSE
    /\ ctxDone = FALSE

\* A nil wait group is never touched.
PendingAdd ==
    IF HandleAllMessagesBeforeExiting THEN Add ELSE UNCHANGED waitGroupVars

waitGroupDone ==
    IF HandleAllMessagesBeforeExiting THEN Done ELSE UNCHANGED waitGroupVars

-----------------------------------------------------------------------------

\* The error is returned to a `go` statement: nobody sees it and the process
\* stays up with no consumer.
Subscribe ==
    /\ consumer.pc = "subscribe"
    /\ \E pc \in {"select", "failed"} : consumer' = [consumer EXCEPT !.pc = pc]
    /\ UNCHANGED <<stage, msgChan, stopChannel, ctxDone, waitGroupVars>>

\* Mutant of CheckStop: the select looks at the context only.
CheckStopIgnoresStop ==
    /\ consumer.pc = "select"
    /\ consumer' = [consumer EXCEPT !.pc = IF ctxDone THEN "stopped" ELSE "read"]
    /\ UNCHANGED <<stage, msgChan, stopChannel, ctxDone, waitGroupVars>>

\* The select of ConsumeLoop: its default branch is taken only while neither
\* channel is closed.
CheckStop ==
    /\ consumer.pc = "select"
    /\ consumer' =
         [consumer EXCEPT !.pc = IF stopChannel \/ ctxDone THEN "stopped" ELSE "read"]
    /\ UNCHANGED <<stage, msgChan, stopChannel, ctxDone, waitGroupVars>>

\* ReadMessage(100ms) may return a message after stopChannel is closed.
ReadMessage(m) ==
    /\ consumer.pc = "read"
    /\ stage[m] = "unread"
    /\ consumer' = [pc |-> "add", msg |-> m]
    /\ stage' = [stage EXCEPT ![m] = "consumer"]
    /\ UNCHANGED <<msgChan, stopChannel, ctxDone, waitGroupVars>>

\* A timeout, or an error that handleError logs.
ReadNothing ==
    /\ consumer.pc = "read"
    /\ consumer' = [consumer EXCEPT !.pc = "select"]
    /\ UNCHANGED <<stage, msgChan, stopChannel, ctxDone, waitGroupVars>>

AddPending ==
    /\ consumer.pc = "add"
    /\ PendingAdd
    /\ consumer' = [consumer EXCEPT !.pc = "send"]
    /\ UNCHANGED <<stage, msgChan, stopChannel, ctxDone>>

SendToChannel ==
    /\ consumer.pc = "send"
    /\ Len(msgChan) < ChannelSize
    /\ msgChan' = Append(msgChan, consumer.msg)
    /\ stage' = [stage EXCEPT ![consumer.msg] = "msgChan"]
    /\ consumer' = [pc |-> "select", msg |-> None]
    /\ UNCHANGED <<stopChannel, ctxDone, waitGroupVars>>

receiveMessage == AddPending \/ SendToChannel

ConsumeLoop ==
    \/ Subscribe
    \/ CheckStop
    \/ \E m \in Messages : ReadMessage(m)
    \/ ReadNothing
    \/ receiveMessage
=============================================================================
