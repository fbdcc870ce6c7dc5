------------------------ MODULE FeedbackListenerProofs ------------------------
(***************************************************************************)
(* Theorems about the feedback listener, for every value of its constants: *)
(* its types, the custody of the tokens from the broker to the flush that  *)
(* tries to delete them, the count of the wait group, and what a graceful  *)
(* exit leaves behind.                                                     *)
(*                                                                         *)
(* The broker has every message it acts on (BrokerCustody), so Done is     *)
(* called once for each; it has not sent a token yet when it is about to   *)
(* (SentOnce), so no token is twice in the channel or in the buffer; and   *)
(* the wait group is waited on after the consumer was closed               *)
(* (CleanupOrder), so nothing is read once it is found to be zero.         *)
(***************************************************************************)
EXTENDS FeedbackListener, KafkaConsumerProofs

Stages == {"unread", "consumer", "msgChan", "broker", "handled"}

BrokerTypeOK ==
    /\ broker \in Goroutine({"select", "stopped"}, {"route", "send", "confirm"})
    /\ tokenChan \in Seq(Messages) /\ Len(tokenChan) <= TokenChannelSize

HandlerTypeOK ==
    /\ token \in [Messages -> {"none", "tokenChan", "buffer", "deleted", "failed"}]
    /\ handler \in {"select", "flush", "stopped"}
    /\ buffer \in Seq(Messages) /\ Len(buffer) <= BufferSize
    /\ Len(buffer) = BufferSize => handler = "flush"
    /\ untried \subseteq Tables

MainTypeOK ==
    /\ closed \subseteq {"consumer", "broker", "tokenChan", "handler"}
    /\ main \in {"running", "stats", "signalled", "stopConsuming", "closeConsumer",
                 "stopBroker", "closeTokens", "stopHandler", "shutdown", "waiting"}
                \cup ExitStates

MessageTypeOK ==
    WaitGroupTypeOK /\ stage \in [Messages -> Stages] /\ ConsumerTypeOK

LEMMA TypeParts ==
    TypeOK <=> ~ctxDone /\ MessageTypeOK /\ BrokerTypeOK /\ HandlerTypeOK /\ MainTypeOK
  BY DEF TypeOK, MessageTypeOK, BrokerTypeOK, HandlerTypeOK, MainTypeOK, Stages

-----------------------------------------------------------------------------
(* What each goroutine leaves alone                                        *)

LEMMA ConsumeLeaves ==
    ASSUME Consume
    PROVE  /\ ConsumeLoop
           /\ UNCHANGED <<ctxDone, stopChannel, closed, broker, tokenChan, token,
                          handler, buffer, untried, main>>
  BY DEF Consume, ConsumeLoop, receiveMessage, Subscribe, CheckStop, ReadMessage, ReadNothing,
         AddPending, SendToChannel, brokerVars, handlerVars

LEMMA BrokerLeaves ==
    ASSUME Broker
    PROVE  /\ UNCHANGED <<consumer, stopChannel, ctxDone, closed, handler, buffer, untried>>
           /\ main' \in {main, "brokerPanicked"}
  BY DEF Broker, BrokerReceive, BrokerStop, Route, SendToken, SendTokenPanics, confirmMessage,
         consumerVars, handlerVars, brokerVars

LEMMA HandlerLeaves ==
    ASSUME Handler
    PROVE  UNCHANGED <<wg, waiter, stage, consumer, msgChan, stopChannel, ctxDone, closed,
                       broker, main>>
  BY DEF Handler, Collect, FlushTick, HandlerStop, deleteTokens, deleteTokensFromGame,
         ResetBuffer, consumerVars, brokerVars, waitGroupVars

LEMMA ListenLeaves ==
    ASSUME Listen
    PROVE  UNCHANGED <<stage, consumer, msgChan, ctxDone, broker, tokenChan, token,
                       handler, buffer, untried>>
<1>1. CASE gracefulShutdown \/ AwaitPending \/ Panic
  BY <1>1 DEF gracefulShutdown, AwaitPending, Panic, consumerVars, brokerVars, handlerVars
<1>2. CASE StatsTick \/ Signal \/ flushStats \/ Cleanup \/ ExitGraceful \/ ExitTimeout
  BY <1>2 DEF StatsTick, Signal, flushStats, Cleanup, StopConsuming, Close, ExitGraceful,
              ExitTimeout, Goto, brokerVars, handlerVars
<1> QED
  BY <1>1, <1>2 DEF Listen, Shutdown

-----------------------------------------------------------------------------
(* Types                                                                   *)

LEMMA InitType == Init => TypeOK
<1> SUFFICES ASSUME Init PROVE TypeOK
  OBVIOUS
<1>1. MessageTypeOK
  <2>1. stage \in [Messages -> Stages]
    BY DEF Init, ConsumerInit, Stages
  <2>2. WaitGroupTypeOK /\ ConsumerTypeOK
    BY InitConsumerType DEF Init, WaitGroupInit, WaitGroupTypeOK, WaiterStates
  <2> QED
    BY <2>1, <2>2 DEF MessageTypeOK
<1>2. BrokerTypeOK
  <2>1. broker \in Goroutine({"select", "stopped"}, {"route", "send", "confirm"})
    BY DEF Init, Goroutine
  <2> QED
    BY <2>1, TokenSizesAssumption DEF Init, BrokerTypeOK
<1>3. HandlerTypeOK
  <2>1. BufferSize \in Nat /\ BufferSize # 0 /\ Len(<< >>) = 0
    BY TokenSizesAssumption
  <2> QED
    BY <2>1 DEF Init, HandlerTypeOK
<1>4. ~ctxDone /\ MainTypeOK
  BY DEF Init, ConsumerInit, MainTypeOK
<1> QED
  BY <1>1, <1>2, <1>3, <1>4, TypeParts

LEMMA BrokerType ==
    ASSUME MessageTypeOK, BrokerTypeOK, HandlerTypeOK, MainTypeOK, Broker
    PROVE  MessageTypeOK' /\ BrokerTypeOK' /\ HandlerTypeOK' /\ MainTypeOK'
<1>1. MainTypeOK'
  BY BrokerLeaves DEF MainTypeOK, ExitStates
<1>2. CASE BrokerReceive
  <2>1. Head(msgChan) \in Messages /\ msgChan' \in Seq(Messages) /\ Len(msgChan') <= ChannelSize
    BY <1>2, ReceiveType, ChannelSizeAssumption DEF BrokerReceive, MessageTypeOK, ConsumerTypeOK
  <2>2. stage' \in [Messages -> Stages]
    BY <1>2 DEF BrokerReceive, MessageTypeOK, Stages
  <2>3. MessageTypeOK'
    BY <1>2, <2>1, <2>2
       DEF BrokerReceive, MessageTypeOK, ConsumerTypeOK, WaitGroupTypeOK, waitGroupVars
  <2>4. BrokerTypeOK'
    BY <1>2, <2>1 DEF BrokerReceive, BrokerTypeOK, Goroutine
  <2> QED
    BY <1>1, <1>2, <2>3, <2>4 DEF BrokerReceive, HandlerTypeOK, handlerVars
<1>3. CASE BrokerStop
  <2>1. broker' = [pc |-> "stopped", msg |-> None]
    BY <1>3 DEF BrokerStop, BrokerTypeOK, Goroutine
  <2>2. BrokerTypeOK'
    BY <1>3, <2>1 DEF BrokerStop, BrokerTypeOK, Goroutine
  <2> QED
    BY <1>1, <1>3, <2>2
       DEF BrokerStop, HandlerTypeOK, handlerVars, MessageTypeOK, ConsumerTypeOK,
           WaitGroupTypeOK, waitGroupVars, consumerVars
<1>4. CASE Route
  <2>1. PICK pc \in {"send", "confirm"} : broker' = [broker EXCEPT !.pc = pc]
    BY <1>4 DEF Route
  <2>2. broker' = [pc |-> pc, msg |-> broker.msg] /\ broker.msg \in Messages
    BY <1>4, <2>1 DEF Route, BrokerTypeOK, Goroutine
  <2>3. BrokerTypeOK'
    BY <1>4, <2>2 DEF Route, BrokerTypeOK, Goroutine
  <2> QED
    BY <1>1, <1>4, <2>3
       DEF Route, HandlerTypeOK, handlerVars, MessageTypeOK, ConsumerTypeOK,
           WaitGroupTypeOK, waitGroupVars, consumerVars
<1>5. CASE SendToken
  <2>1. broker' = [pc |-> "confirm", msg |-> broker.msg] /\ broker.msg \in Messages
    BY <1>5 DEF SendToken, BrokerTypeOK, Goroutine
  <2>2. tokenChan' \in Seq(Messages) /\ Len(tokenChan') <= TokenChannelSize
    BY <1>5, <2>1, SendType, TokenSizesAssumption DEF SendToken, BrokerTypeOK
  <2>3. BrokerTypeOK'
    BY <2>1, <2>2 DEF BrokerTypeOK, Goroutine
  <2>4. HandlerTypeOK'
    BY <1>5 DEF SendToken, HandlerTypeOK, handlerVars
  <2> QED
    BY <1>1, <1>5, <2>3, <2>4
       DEF SendToken, MessageTypeOK, ConsumerTypeOK, WaitGroupTypeOK, waitGroupVars, consumerVars
<1>6. CASE SendTokenPanics
  BY <1>1, <1>6
     DEF SendTokenPanics, BrokerTypeOK, brokerVars, HandlerTypeOK, handlerVars, MessageTypeOK,
         ConsumerTypeOK, WaitGroupTypeOK, waitGroupVars, consumerVars
<1>7. CASE confirmMessage
  <2>1. WaitGroupTypeOK'
    BY <1>7, WaitGroupStepType DEF confirmMessage, MessageTypeOK
  <2>2. stage' \in [Messages -> Stages]
    BY <1>7 DEF confirmMessage, MessageTypeOK, Stages
  <2>3. BrokerTypeOK'
    BY <1>7 DEF confirmMessage, BrokerTypeOK, Goroutine
  <2> QED
    BY <1>1, <1>7, <2>1, <2>2, <2>3
       DEF confirmMessage, HandlerTypeOK, handlerVars, MessageTypeOK, ConsumerTypeOK, consumerVars
<1> QED
  BY <1>2, <1>3, <1>4, <1>5, <1>6, <1>7 DEF Broker

\* The buffer never outgrows BufferSize: the handler collects only when it has room,
\* because it flushes as soon as it has none.
LEMMA HandlerType ==
    ASSUME BrokerTypeOK, HandlerTypeOK, Handler
    PROVE  BrokerTypeOK' /\ HandlerTypeOK'
<1>1. UNCHANGED broker
  BY HandlerLeaves
<1>2. \A tokens \in Seq(Messages) : {TableOf[m] : m \in ToSet(tokens)} \subseteq Tables
  BY TablesAssumption DEF ToSet
<1>3. CASE Collect
  <2>1. /\ Head(tokenChan) \in Messages
        /\ tokenChan' \in Seq(Messages) /\ Len(tokenChan') <= TokenChannelSize
    BY <1>3, ReceiveType, TokenSizesAssumption DEF Collect, BrokerTypeOK
  <2>2. Len(buffer) < BufferSize /\ Len(buffer) \in Nat /\ BufferSize \in Nat
    BY <1>3, TokenSizesAssumption DEF Collect, HandlerTypeOK
  <2>3. buffer' \in Seq(Messages) /\ Len(buffer') = Len(buffer) + 1
    BY <1>3, <2>1, SendType DEF Collect, HandlerTypeOK
  <2>4. Len(buffer') <= BufferSize
    BY <2>2, <2>3
  <2>5. /\ handler' \in {"select", "flush"}
        /\ Len(buffer') >= BufferSize => handler' = "flush"
    BY <1>3 DEF Collect, Flush
  <2>6. untried' \subseteq Tables
    BY <1>2, <1>3, <2>3 DEF Collect, Flush, HandlerTypeOK
  <2>7. token' \in [Messages -> {"none", "tokenChan", "buffer", "deleted", "failed"}]
    BY <1>3 DEF Collect, HandlerTypeOK
  <2>8. Len(buffer') = BufferSize => handler' = "flush"
    BY <2>2, <2>5
  <2>9. HandlerTypeOK'
    BY <2>3, <2>4, <2>5, <2>6, <2>7, <2>8 DEF HandlerTypeOK
  <2> QED
    BY <1>1, <2>1, <2>9 DEF BrokerTypeOK
<1>4. CASE FlushTick
  BY <1>2, <1>4 DEF FlushTick, Flush, HandlerTypeOK, BrokerTypeOK, brokerVars
<1>5. CASE HandlerStop
  BY <1>5 DEF HandlerStop, HandlerTypeOK, BrokerTypeOK, brokerVars
<1>6. ASSUME NEW t \in Tables, deleteTokensFromGame(t)
      PROVE  BrokerTypeOK' /\ HandlerTypeOK'
  BY <1>6 DEF deleteTokensFromGame, HandlerTypeOK, BrokerTypeOK, brokerVars
<1>7. CASE ResetBuffer
  BY <1>7, TokenSizesAssumption DEF ResetBuffer, HandlerTypeOK, BrokerTypeOK, brokerVars
<1> QED
  BY <1>3, <1>4, <1>5, <1>6, <1>7 DEF Handler, deleteTokens

LEMMA ListenType ==
    ASSUME MessageTypeOK, MainTypeOK, Listen
    PROVE  MessageTypeOK' /\ MainTypeOK'
<1>1. UNCHANGED <<stage, consumer, msgChan, ctxDone>>
  BY ListenLeaves
<1>2. WaitGroupTypeOK' /\ stopChannel' \in BOOLEAN /\ MainTypeOK'
  <2> USE DEF MessageTypeOK, WaitGroupTypeOK, waitGroupVars, WaiterStates, ConsumerTypeOK,
              MainTypeOK, ExitStates
  <2>1. CASE StatsTick \/ Signal \/ flushStats \/ ExitGraceful \/ ExitTimeout
    BY <1>1, <2>1 DEF StatsTick, Signal, flushStats, ExitGraceful, ExitTimeout, Goto
  <2>2. CASE Cleanup
    BY <1>1, <2>2 DEF Cleanup, StopConsuming, Close, Goto
  <2>3. CASE gracefulShutdown
    BY <1>1, <2>3 DEF gracefulShutdown, consumerVars
  <2>4. CASE AwaitPending
    BY <1>1, <2>4 DEF AwaitPending, Wait, WakeUp, consumerVars
  <2>5. CASE Panic
    BY <1>1, <2>5 DEF Panic, consumerVars
  <2> QED
    BY <2>1, <2>2, <2>3, <2>4, <2>5 DEF Listen, Shutdown
<1> QED
  BY <1>1, <1>2 DEF MessageTypeOK, ConsumerTypeOK

LEMMA ContextStays ==
    ASSUME ~ctxDone, [Next]_vars
    PROVE  ~ctxDone'
<1>1. UNCHANGED ctxDone
  <2>1. CASE Consume \/ Broker \/ Handler \/ Listen
    BY <2>1, ConsumeLeaves, BrokerLeaves, HandlerLeaves, ListenLeaves
  <2>2. CASE UNCHANGED vars
    BY <2>2 DEF vars, consumerVars
  <2> QED
    BY <2>1, <2>2 DEF Next, Step, Terminated
<1> QED
  BY <1>1

LEMMA StepType == TypeOK /\ [Next]_vars => TypeOK'
<1> SUFFICES ASSUME TypeOK, [Next]_vars PROVE TypeOK'
  OBVIOUS
<1>1. ~ctxDone /\ MessageTypeOK /\ BrokerTypeOK /\ HandlerTypeOK /\ MainTypeOK
  BY TypeParts
<1>2. ~ctxDone'
  BY <1>1, ContextStays
<1> SUFFICES MessageTypeOK' /\ BrokerTypeOK' /\ HandlerTypeOK' /\ MainTypeOK'
  BY <1>2 DEF TypeOK, MessageTypeOK, BrokerTypeOK, HandlerTypeOK, MainTypeOK, Stages
<1>3. CASE Consume
  <2>1. MessageTypeOK'
    BY <1>1, <1>3, ConsumeLeaves, ConsumeLoopType DEF MessageTypeOK, Stages
  <2> QED
    BY <1>1, <1>3, <2>1, ConsumeLeaves DEF BrokerTypeOK, HandlerTypeOK, MainTypeOK
<1>4. CASE Broker
  BY <1>1, <1>4, BrokerType
<1>5. CASE Handler
  <2>1. MessageTypeOK'
    BY <1>1, <1>5, HandlerLeaves DEF MessageTypeOK, WaitGroupTypeOK, ConsumerTypeOK
  <2>2. MainTypeOK'
    BY <1>1, <1>5, HandlerLeaves DEF MainTypeOK
  <2> QED
    BY <1>1, <1>5, <2>1, <2>2, HandlerType
<1>6. CASE Listen
  <2>1. BrokerTypeOK' /\ HandlerTypeOK'
    BY <1>1, <1>6, ListenLeaves DEF BrokerTypeOK, HandlerTypeOK
  <2> QED
    BY <1>1, <1>6, <2>1, ListenType
<1>7. CASE UNCHANGED vars
  BY <1>1, <1>7
     DEF vars, MessageTypeOK, BrokerTypeOK, HandlerTypeOK, MainTypeOK, WaitGroupTypeOK,
         ConsumerTypeOK, waitGroupVars, consumerVars, brokerVars, handlerVars
<1> QED
  BY <1>3, <1>4, <1>5, <1>6, <1>7 DEF Next, Step, Terminated

\* Every reachable state of the listener is well typed; in particular neither channel
\* nor the buffer of the token handler exceeds its size.
THEOREM TypeCorrect == Spec => []TypeOK
  BY InitType, StepType, PTL DEF Spec

-----------------------------------------------------------------------------
(* Custody of messages and tokens                                          *)

BrokerBusy == {"route", "send", "confirm"}

BrokerCustody == At("broker") = {m \in Messages : broker.pc \in BrokerBusy /\ broker.msg = m}

\* The broker sends a token before it confirms the message, and once.
SentOnce ==
    \A m \in Messages :
      token[m] # "none" => stage[m] = "handled" \/ (broker.pc = "confirm" /\ broker.msg = m)

Custody == ReadCustody /\ BrokerCustody /\ SentOnce /\ TokenCustody

LEMMA InitCustody == Init => Custody
<1> SUFFICES ASSUME Init PROVE Custody
  OBVIOUS
<1>1. ReadCustody
  BY InitReadCustody DEF Init
<1>2. BrokerCustody /\ SentOnce
  BY DEF Init, ConsumerInit, BrokerCustody, BrokerBusy, SentOnce, At
<1>3. TokenCustody
  <2>1. /\ tokenChan = << >> /\ buffer = << >> /\ handler = "select" /\ untried = {}
        /\ \A m \in Messages : token[m] = "none"
    BY DEF Init
  <2> QED
    BY <2>1, EmptySet DEF TokenCustody
<1> QED
  BY <1>1, <1>2, <1>3 DEF Custody

\* The broker has the message it acts on.
LEMMA BrokerHas ==
    ASSUME BrokerTypeOK, BrokerCustody, broker.pc \in BrokerBusy
    PROVE  broker.msg \in Messages /\ stage[broker.msg] = "broker"
<1>1. broker.msg \in Messages
  BY DEF BrokerTypeOK, BrokerBusy, Goroutine
<1> QED
  BY <1>1 DEF BrokerCustody, At

\* A step that sends, collects and tries no token keeps their custody.
LEMMA TokensStay ==
    ASSUME TokenCustody, UNCHANGED <<tokenChan, token, handler, buffer, untried>>
    PROVE  TokenCustody'
  BY DEF TokenCustody

LEMMA ConsumeCustody ==
    ASSUME MessageTypeOK, Custody, Consume
    PROVE  Custody'
<1>1. /\ ReadCustody'
      /\ \A t : t \notin {"unread", "consumer", "msgChan"} => At(t)' = At(t)
  BY ConsumeLeaves, ConsumeLoopCustody DEF Custody, MessageTypeOK
<1>2. At("broker")' = At("broker") /\ At("handled")' = At("handled")
  BY <1>1
<1>3. BrokerCustody'
  BY <1>2, ConsumeLeaves DEF Custody, BrokerCustody
<1>4. SentOnce'
  <2>1. \A m \in Messages : stage[m] = "handled" => stage'[m] = "handled"
    BY <1>2 DEF At
  <2> QED
    BY <2>1, ConsumeLeaves DEF Custody, SentOnce
<1>5. TokenCustody'
  BY ConsumeLeaves, TokensStay DEF Custody
<1> QED
  BY <1>1, <1>3, <1>4, <1>5 DEF Custody

LEMMA BrokerStepCustody ==
    ASSUME MessageTypeOK, BrokerTypeOK, HandlerTypeOK, Custody, Broker
    PROVE  Custody'
<1>1. UNCHANGED <<consumer, handler, buffer, untried>>
  BY BrokerLeaves
<1>2. CASE BrokerReceive
  <2> DEFINE m == Head(msgChan)
  <2>1. /\ msgChan \in Seq(Messages) /\ msgChan # << >>
        /\ IsInjective(msgChan) /\ ToSet(msgChan) = At("msgChan")
        /\ msgChan' = Tail(msgChan)
        /\ stage' = [stage EXCEPT ![m] = "broker"]
        /\ broker.pc = "select" /\ broker' = [pc |-> "route", msg |-> m]
        /\ UNCHANGED <<token, tokenChan>>
    BY <1>2 DEF BrokerReceive, MessageTypeOK, ConsumerTypeOK, Custody, ReadCustody
  <2>2. /\ m \in Messages /\ stage[m] = "msgChan"
        /\ IsInjective(msgChan') /\ ToSet(msgChan') = At("msgChan")'
        /\ At("broker")' = At("broker") \cup {m} /\ m \notin At("broker")
        /\ \A t : t \notin {"msgChan", "broker"} => At(t)' = At(t)
    BY <2>1, ChannelLoses, "msgChan" # "broker" DEF MessageTypeOK
  <2> HIDE DEF m
  <2>3. ReadCustody'
    BY <1>1, <2>2 DEF Custody, ReadCustody
  <2>4. BrokerCustody'
    BY <2>1, <2>2 DEF Custody, BrokerCustody, BrokerBusy
  <2>5. SentOnce'
    BY <2>1, <2>2 DEF Custody, SentOnce, MessageTypeOK
  <2> QED
    BY <1>1, <2>1, <2>3, <2>4, <2>5, TokensStay DEF Custody
<1>3. CASE BrokerStop \/ Route \/ SendTokenPanics
  <2>1. UNCHANGED <<stage, msgChan, token, tokenChan>>
    BY <1>3 DEF BrokerStop, Route, SendTokenPanics, consumerVars, brokerVars
  <2>2. \A t : At(t)' = At(t)
    BY <2>1, Stay
  <2>3. /\ broker'.pc \in BrokerBusy <=> broker.pc \in BrokerBusy
        /\ broker'.msg = broker.msg
        /\ broker.pc = "confirm" => broker'.pc = "confirm"
    <3>1. CASE BrokerStop \/ SendTokenPanics
      BY <3>1 DEF BrokerStop, SendTokenPanics, BrokerTypeOK, Goroutine, BrokerBusy, brokerVars
    <3>2. CASE Route
      <4>1. PICK pc \in {"send", "confirm"} : broker' = [broker EXCEPT !.pc = pc]
        BY <3>2 DEF Route
      <4>2. broker' = [pc |-> pc, msg |-> broker.msg] /\ broker.pc = "route"
        BY <3>2, <4>1 DEF Route, BrokerTypeOK, Goroutine
      <4> QED
        BY <4>2 DEF BrokerBusy
    <3> QED
      BY <1>3, <3>1, <3>2
  <2>4. ReadCustody'
    BY <1>1, <2>1, <2>2, ReadCustodyStays DEF Custody
  <2>5. BrokerCustody'
    BY <2>2, <2>3 DEF Custody, BrokerCustody
  <2>6. SentOnce'
    BY <2>1, <2>3 DEF Custody, SentOnce
  <2> QED
    BY <1>1, <2>1, <2>4, <2>5, <2>6, TokensStay DEF Custody
<1>4. CASE SendToken
  <2>1. PICK m \in Messages : m = broker.msg /\ stage[m] = "broker"
    BY <1>4, BrokerHas DEF SendToken, BrokerBusy, Custody
  <2>2. /\ UNCHANGED <<stage, msgChan>>
        /\ broker.pc = "send" /\ broker'.pc = "confirm" /\ broker'.msg = m
        /\ token' = [token EXCEPT ![m] = "tokenChan"]
        /\ tokenChan' = Append(tokenChan, m)
    BY <1>4, <2>1 DEF SendToken, consumerVars, BrokerTypeOK, Goroutine
  <2>3. \A t : At(t)' = At(t)
    BY <2>2, Stay
  <2>4. ReadCustody'
    BY <1>1, <2>2, <2>3, ReadCustodyStays DEF Custody
  <2>5. BrokerCustody'
    BY <2>1, <2>2, <2>3 DEF Custody, BrokerCustody, BrokerBusy
  <2>6. SentOnce'
    BY <2>1, <2>2 DEF Custody, SentOnce, HandlerTypeOK
  <2>7. token[m] = "none"
    BY <2>1, <2>2 DEF Custody, SentOnce
  <2>8. TokenCustody'
    <3>1. m \notin ToSet(tokenChan)
      BY <2>7 DEF Custody, TokenCustody
    <3>2. IsInjective(tokenChan') /\ ToSet(tokenChan') = ToSet(tokenChan) \cup {m}
      BY <2>2, <3>1, SendSet DEF BrokerTypeOK, Custody, TokenCustody
    <3>3. {n \in Messages : token'[n] = "tokenChan"}
            = {n \in Messages : token[n] = "tokenChan"} \cup {m}
      BY <2>2 DEF HandlerTypeOK
    <3>4. {n \in Messages : token'[n] = "buffer"} = {n \in Messages : token[n] = "buffer"}
      BY <2>2, <2>7 DEF HandlerTypeOK
    <3>5. handler # "flush" => \A n \in ToSet(buffer) : token'[n] = "buffer"
      <4>1. ToSet(buffer) \subseteq Messages
        BY DEF HandlerTypeOK, ToSet
      <4> QED
        BY <2>2, <2>7, <4>1 DEF HandlerTypeOK, Custody, TokenCustody
    <3> QED
      BY <1>1, <3>2, <3>3, <3>4, <3>5 DEF Custody, TokenCustody
  <2> QED
    BY <2>4, <2>5, <2>6, <2>8 DEF Custody
<1>5. CASE confirmMessage
  <2>1. PICK m \in Messages : m = broker.msg /\ stage[m] = "broker"
    BY <1>5, BrokerHas DEF confirmMessage, BrokerBusy, Custody
  <2>2. /\ UNCHANGED <<msgChan, token, tokenChan>>
        /\ stage' = [stage EXCEPT ![m] = "handled"]
        /\ broker.pc = "confirm" /\ broker'.pc = "select"
    BY <1>5, <2>1 DEF confirmMessage, consumerVars
  <2>3. /\ At("broker")' = At("broker") \ {m}
        /\ \A t : t \notin {"broker", "handled"} => At(t)' = At(t)
    BY <2>1, <2>2, Move DEF MessageTypeOK
  <2>4. ReadCustody'
    BY <1>1, <2>2, <2>3, ReadCustodyStays DEF Custody
  <2>5. BrokerCustody'
    BY <2>1, <2>2, <2>3 DEF Custody, BrokerCustody, BrokerBusy
  <2>6. SentOnce'
    BY <2>1, <2>2 DEF Custody, SentOnce, MessageTypeOK
  <2> QED
    BY <1>1, <2>2, <2>4, <2>5, <2>6, TokensStay DEF Custody
<1> QED
  BY <1>2, <1>3, <1>4, <1>5 DEF Broker

\* Of the tokens the handler may change, none was not sent.
LEMMA HandlerTokens ==
    ASSUME BrokerTypeOK, HandlerTypeOK, TokenCustody, Handler
    PROVE  TokenCustody' /\ \A m \in Messages : token[m] = "none" => token'[m] = "none"
<1> USE DEF TokenCustody
<1>1. ToSet(buffer) \subseteq Messages
  BY DEF HandlerTypeOK, ToSet
<1>2. CASE Collect
  <2> DEFINE m == Head(tokenChan)
  <2>1. /\ tokenChan \in Seq(Messages) /\ tokenChan # << >> /\ handler = "select"
        /\ tokenChan' = Tail(tokenChan)
        /\ token' = [token EXCEPT ![m] = "buffer"]
        /\ buffer' = Append(buffer, m)
    BY <1>2 DEF Collect, BrokerTypeOK
  <2>2. /\ IsInjective(tokenChan') /\ ToSet(tokenChan') = ToSet(tokenChan) \ {m}
        /\ m \in ToSet(tokenChan)
    BY <2>1, ReceiveSet
  <2> HIDE DEF m
  <2>3. m \in Messages /\ token[m] = "tokenChan" /\ m \notin ToSet(buffer)
    BY <2>1, <2>2
  <2>4. IsInjective(buffer') /\ ToSet(buffer') = ToSet(buffer) \cup {m}
    BY <2>1, <2>3, SendSet DEF HandlerTypeOK
  <2>5. ToSet(tokenChan') = {n \in Messages : token'[n] = "tokenChan"}
    BY <2>1, <2>2, <2>3 DEF HandlerTypeOK
  <2>6. /\ \A n \in ToSet(buffer') : token'[n] = "buffer"
        /\ {n \in Messages : token'[n] = "buffer"} = ToSet(buffer')
    BY <1>1, <2>1, <2>3, <2>4 DEF HandlerTypeOK
  <2>7. \/ handler' = "flush" /\ untried' = {TableOf[n] : n \in ToSet(buffer')}
        \/ handler' = "select" /\ untried' = {}
    BY <1>2, <2>1 DEF Collect, Flush
  <2>8. {n \in ToSet(buffer') : handler' = "flush" => TableOf[n] \in untried'} = ToSet(buffer')
    BY <2>7
  <2>9. handler' # "flush" => untried' = {}
    BY <2>7
  <2>10. TokenCustody'
    BY <2>2, <2>4, <2>5, <2>6, <2>8, <2>9
  <2> QED
    BY <2>1, <2>3, <2>10 DEF HandlerTypeOK
<1>3. CASE FlushTick
  <2>1. /\ handler = "select" /\ handler' = "flush"
        /\ untried' = {TableOf[n] : n \in ToSet(buffer)}
        /\ UNCHANGED <<tokenChan, token, buffer>>
    BY <1>3 DEF FlushTick, Flush, brokerVars
  <2>2. {n \in ToSet(buffer') : handler' = "flush" => TableOf[n] \in untried'} = ToSet(buffer)
    BY <2>1
  <2>3. {n \in ToSet(buffer) : handler = "flush" => TableOf[n] \in untried} = ToSet(buffer)
    BY <2>1
  <2> QED
    BY <2>1, <2>2, <2>3
<1>4. CASE HandlerStop
  BY <1>4 DEF HandlerStop, brokerVars
<1>5. ASSUME NEW t \in Tables, deleteTokensFromGame(t)
      PROVE  TokenCustody' /\ \A m \in Messages : token[m] = "none" => token'[m] = "none"
  <2> DEFINE D == {m \in ToSet(buffer) : TableOf[m] = t}
  <2>1. /\ handler = "flush" /\ t \in untried /\ untried' = untried \ {t}
        /\ UNCHANGED <<tokenChan, buffer, handler>>
    BY <1>5 DEF deleteTokensFromGame, brokerVars
  <2>2. PICK outcome \in {"deleted", "failed"} :
          token' = [m \in Messages |->
                      IF m \in ToSet(buffer) /\ TableOf[m] = t THEN outcome ELSE token[m]]
    BY <1>5 DEF deleteTokensFromGame
  <2>3. \A m \in D : token[m] = "buffer"
    BY <2>1
  <2>4. /\ \A m \in D : token'[m] \in {"deleted", "failed"}
        /\ \A m \in Messages \ D : token'[m] = token[m]
    BY <1>1, <2>2
  <2>5. {m \in Messages : token'[m] = "tokenChan"} = {m \in Messages : token[m] = "tokenChan"}
    BY <1>1, <2>3, <2>4
  <2>6. {m \in Messages : token'[m] = "buffer"} = {m \in Messages : token[m] = "buffer"} \ D
    BY <1>1, <2>4
  <2>7. {m \in ToSet(buffer) : TableOf[m] \in untried'}
          = {m \in ToSet(buffer) : TableOf[m] \in untried} \ D
    BY <2>1
  <2>8. TokenCustody'
    BY <2>1, <2>5, <2>6, <2>7
  <2> QED
    BY <1>1, <2>3, <2>4, <2>8
<1>6. CASE ResetBuffer
  <2>1. /\ handler = "flush" /\ untried = {} /\ buffer' = << >> /\ handler' = "select"
        /\ UNCHANGED <<tokenChan, token, untried>>
    BY <1>6 DEF ResetBuffer, brokerVars
  <2>2. {m \in Messages : token[m] = "buffer"} = {}
    BY <2>1
  <2> QED
    BY <2>1, <2>2, EmptySet
<1> QED
  BY <1>2, <1>3, <1>4, <1>5, <1>6 DEF Handler, deleteTokens

LEMMA StepCustody == TypeOK /\ Custody /\ [Next]_vars => Custody'
<1> SUFFICES ASSUME TypeOK, Custody, [Next]_vars PROVE Custody'
  OBVIOUS
<1>1. MessageTypeOK /\ BrokerTypeOK /\ HandlerTypeOK
  BY TypeParts
<1>2. CASE Consume
  BY <1>1, <1>2, ConsumeCustody
<1>3. CASE Broker
  BY <1>1, <1>3, BrokerStepCustody
<1>4. CASE Handler
  <2>1. TokenCustody' /\ \A m \in Messages : token[m] = "none" => token'[m] = "none"
    BY <1>1, <1>4, HandlerTokens DEF Custody
  <2>2. SentOnce'
    BY <1>4, <2>1, HandlerLeaves DEF Custody, SentOnce
  <2>3. \A t : At(t)' = At(t)
    BY <1>4, HandlerLeaves, Stay
  <2>4. ReadCustody' /\ BrokerCustody'
    BY <1>4, <2>3, HandlerLeaves, ReadCustodyStays DEF Custody, BrokerCustody
  <2> QED
    BY <2>1, <2>2, <2>4 DEF Custody
<1>5. CASE Listen \/ UNCHANGED vars
  <2>1. UNCHANGED <<stage, consumer, msgChan, broker, tokenChan, token, handler, buffer, untried>>
    BY <1>5, ListenLeaves DEF vars, consumerVars, brokerVars, handlerVars
  <2>2. \A t : At(t)' = At(t)
    BY <2>1, Stay
  <2>3. ReadCustody' /\ BrokerCustody' /\ SentOnce'
    BY <2>1, <2>2, ReadCustodyStays DEF Custody, BrokerCustody, SentOnce
  <2> QED
    BY <2>1, <2>3, TokensStay DEF Custody
<1> QED
  BY <1>2, <1>3, <1>4, <1>5 DEF Next, Step, Terminated

LEMMA CustodyCorrect == Spec => []Custody
  BY InitCustody, StepCustody, TypeCorrect, PTL DEF Spec

\* A token that was routed is in the channel or in the buffer, in one of them and once,
\* until its table is tried, however sends, receptions, flushes and the order in which
\* the tables are tried interleave; and none is tried twice.
THEOREM TokensCorrect == Spec => []TokenCustody
<1>1. Custody => TokenCustody
  BY DEF Custody
<1> QED
  BY <1>1, CustodyCorrect, PTL

-----------------------------------------------------------------------------
(* The wait group and the shutdown                                         *)

Unconfirmed == {m \in Messages : stage[m] \notin {"unread", "handled"}}

\* How a step changes the messages: it reads one, passes on or confirms one that is
\* unconfirmed, or leaves them where they are.
LEMMA StepMoves ==
    ASSUME TypeOK, Custody, Step
    PROVE  \/ UNCHANGED stage
           \/ "consumer" \notin closed /\ \E m \in Messages : ReadMessage(m)
           \/ \E m \in Unconfirmed : \E s : stage' = [stage EXCEPT ![m] = s]
<1>1. CASE Consume
  <2>1. ASSUME NEW m \in Messages, ReadMessage(m)
        PROVE  "consumer" \notin closed
    <3>1. consumer.pc = "read" /\ consumer'.pc = "add"
      BY <2>1 DEF ReadMessage
    <3> QED
      BY <1>1, <3>1 DEF Consume
  <2>2. CASE SendToChannel
    <3>1. consumer.msg \in Unconfirmed
      BY <2>2 DEF SendToChannel, Custody, ReadCustody, At, Unconfirmed, TypeOK, ConsumerTypeOK,
                  Goroutine
    <3> QED
      BY <2>2, <3>1 DEF SendToChannel
  <2>3. CASE Subscribe \/ CheckStop \/ ReadNothing \/ AddPending
    BY <2>3 DEF Subscribe, CheckStop, ReadNothing, AddPending
  <2> QED
    BY <1>1, <2>1, <2>2, <2>3 DEF Consume, ConsumeLoop, receiveMessage
<1>2. CASE Broker
  <2>1. CASE BrokerReceive
    <3>1. Head(msgChan) \in Unconfirmed
      BY <2>1, ReceiveSet
         DEF BrokerReceive, Custody, ReadCustody, At, Unconfirmed, TypeOK, ConsumerTypeOK
    <3> QED
      BY <2>1, <3>1 DEF BrokerReceive
  <2>2. CASE confirmMessage
    <3>1. broker.msg \in Unconfirmed
      BY <2>2, BrokerHas, TypeParts DEF confirmMessage, BrokerBusy, Custody, Unconfirmed
    <3> QED
      BY <2>2, <3>1 DEF confirmMessage
  <2>3. CASE BrokerStop \/ Route \/ SendToken \/ SendTokenPanics
    BY <2>3 DEF BrokerStop, Route, SendToken, SendTokenPanics
  <2> QED
    BY <1>2, <2>1, <2>2, <2>3 DEF Broker
<1>3. CASE Handler \/ Listen
  BY <1>3, HandlerLeaves, ListenLeaves
<1> QED
  BY <1>1, <1>2, <1>3 DEF Step

LEMMA StepRecounts ==
    ASSUME TypeOK, Custody, Step
    PROVE  Recounts(Pending, Pending')
<1> USE DEF Custody
<1>1. CASE Consume
  <2>1. consumer.pc \in {"add", "send"}
          => consumer.msg \in Messages /\ stage[consumer.msg] = "consumer"
    BY DEF ReadCustody, TypeOK, ConsumerTypeOK, Goroutine, At
  <2>2. CASE Subscribe \/ CheckStop \/ ReadNothing
    <3>1. /\ UNCHANGED <<stage, wg>> /\ consumer'.msg = consumer.msg
          /\ consumer'.pc = "add" <=> consumer.pc = "add"
      BY <2>2 DEF Subscribe, CheckStop, ReadNothing, waitGroupVars, TypeOK, ConsumerTypeOK,
                  Goroutine
    <3>2. Pending' = Pending
      BY <3>1 DEF Pending
    <3> QED
      BY <3>1, <3>2 DEF Recounts
  <2>3. ASSUME NEW m \in Messages, ReadMessage(m)
        PROVE  Recounts(Pending, Pending')
    <3>1. Pending' = Pending
      BY <2>3 DEF ReadMessage, Pending, TypeOK
    <3> QED
      BY <2>3, <3>1 DEF ReadMessage, Recounts, waitGroupVars
  <2>4. CASE AddPending
    <3>1. /\ consumer.msg \in Messages \ Pending
          /\ Pending' = Pending \cup {consumer.msg}
      BY <2>1, <2>4 DEF AddPending, Pending, TypeOK, ConsumerTypeOK, Goroutine
    <3> QED
      BY <2>4, <3>1 DEF AddPending, Recounts
  <2>5. CASE SendToChannel
    <3>1. consumer.pc = "send" /\ consumer'.pc = "select" /\ stage[consumer.msg] = "consumer"
          /\ stage' = [stage EXCEPT ![consumer.msg] = "msgChan"]
      BY <2>1, <2>5 DEF SendToChannel
    <3>2. Pending' = Pending
      BY <3>1 DEF Pending, TypeOK
    <3> QED
      BY <2>5, <3>2 DEF SendToChannel, Recounts, waitGroupVars
  <2> QED
    BY <1>1, <2>2, <2>3, <2>4, <2>5 DEF Consume, ConsumeLoop, receiveMessage
<1>2. CASE Broker
  <2>1. UNCHANGED consumer
    BY <1>2, BrokerLeaves
  <2>2. CASE BrokerReceive
    <3>1. Head(msgChan) \in Messages /\ stage[Head(msgChan)] = "msgChan"
      BY <2>2, ReceiveSet DEF BrokerReceive, ReadCustody, At, TypeOK, ConsumerTypeOK
    <3>2. ~(consumer.pc = "add" /\ consumer.msg = Head(msgChan))
      BY <3>1 DEF ReadCustody, At
    <3>3. Pending' = Pending
      BY <2>1, <2>2, <3>1, <3>2 DEF BrokerReceive, Pending, TypeOK
    <3> QED
      BY <2>2, <3>3 DEF BrokerReceive, Recounts, waitGroupVars
  <2>3. CASE BrokerStop \/ Route \/ SendToken \/ SendTokenPanics
    <3>1. UNCHANGED <<stage, wg>>
      BY <2>3 DEF BrokerStop, Route, SendToken, SendTokenPanics, waitGroupVars
    <3>2. Pending' = Pending
      BY <2>1, <3>1 DEF Pending
    <3> QED
      BY <3>1, <3>2 DEF Recounts
  <2>4. CASE confirmMessage
    <3>1. broker.msg \in Messages /\ stage[broker.msg] = "broker"
      BY <2>4, BrokerHas, TypeParts DEF confirmMessage, BrokerBusy
    <3>2. broker.msg \in Pending
      BY <3>1 DEF Pending, ReadCustody, At
    <3>3. Pending' = Pending \ {broker.msg}
      BY <2>1, <2>4, <3>1 DEF confirmMessage, Pending, TypeOK
    <3> QED
      BY <2>4, <3>2, <3>3 DEF confirmMessage, Recounts
  <2> QED
    BY <1>2, <2>2, <2>3, <2>4 DEF Broker
<1>3. CASE Handler \/ Listen
  <2>1. UNCHANGED <<stage, consumer>>
    BY <1>3, HandlerLeaves, ListenLeaves
  <2>2. UNCHANGED wg
    <3>1. CASE Handler
      BY <3>1, HandlerLeaves
    <3>2. CASE gracefulShutdown \/ AwaitPending \/ Panic
      BY <3>2 DEF gracefulShutdown, AwaitPending, Panic, Wait, WakeUp, waitGroupVars
    <3>3. CASE StatsTick \/ Signal \/ flushStats \/ Cleanup \/ ExitGraceful \/ ExitTimeout
      BY <3>3 DEF StatsTick, Signal, flushStats, Cleanup, StopConsuming, Close, ExitGraceful,
                  ExitTimeout, Goto, waitGroupVars
    <3> QED
      BY <1>3, <3>1, <3>2, <3>3 DEF Listen, Shutdown
  <2>3. Pending' = Pending
    BY <2>1 DEF Pending
  <2> QED
    BY <2>2, <2>3 DEF Recounts
<1> QED
  BY <1>1, <1>2, <1>3 DEF Step

LEMMA InitCount == Init => PendingExact
<1> SUFFICES ASSUME Init PROVE PendingExact
  OBVIOUS
<1>1. Pending = {}
  BY DEF Init, ConsumerInit, Pending
<1>2. Cardinality(Pending) = 0 /\ wg = 0
  BY <1>1, FS_EmptySet DEF Init, WaitGroupInit
<1> QED
  BY <1>2 DEF PendingExact

LEMMA StepCount == TypeOK /\ Custody /\ PendingExact /\ [Next]_vars => PendingExact'
<1> SUFFICES ASSUME TypeOK, Custody, PendingExact, [Next]_vars PROVE PendingExact'
  OBVIOUS
<1>1. Pending \in SUBSET Messages
  BY DEF Pending
<1>2. CASE Step
  BY <1>1, <1>2, StepRecounts, CountStep DEF PendingExact
<1>3. CASE UNCHANGED vars
  <2>1. Recounts(Pending, Pending')
    BY <1>3 DEF vars, waitGroupVars, consumerVars, Pending, Recounts
  <2> QED
    BY <1>1, <2>1, CountStep DEF PendingExact
<1> QED
  BY <1>2, <1>3 DEF Next, Terminated

\* At every moment the pending wait group counts exactly the feedback messages that the
\* broker has not confirmed, whatever they report and whenever the stop comes.
THEOREM PendingCorrect == Spec => []PendingExact
  BY InitCount, StepCount, TypeCorrect, CustodyCorrect, PTL DEF Spec

\* The wait group is waited on after the consumer was closed, so nothing more is read;
\* when it is found to be zero, at most the message of the consumer is unconfirmed.
CleanupOrder ==
    /\ main \in {"stopBroker", "closeTokens", "stopHandler", "shutdown", "waiting"}
         => "consumer" \in closed
    /\ waiter # "absent" => "consumer" \in closed
    /\ waiter # "absent" => HandleAllMessagesBeforeExiting
    /\ waiter \in {"released", "returned"} => \A m, n \in Unconfirmed : m = n
    /\ main = "graceful" => waiter = "returned"

LEMMA InitOrder == Init => CleanupOrder
  BY DEF Init, WaitGroupInit, CleanupOrder

\* Only Cleanup closes anything, in its order, and only gracefulShutdown starts to wait.
LEMMA MainMoves ==
    ASSUME Step
    PROVE  /\ closed \subseteq closed'
           /\ \/ UNCHANGED <<main, waiter>>
              \/ main' = main /\ (PendingAdd \/ waitGroupDone \/ Wait \/ WakeUp)
              \/ main = "shutdown" /\ main' = "waiting" /\ waiter' = "spawned"
                 /\ HandleAllMessagesBeforeExiting
              \/ main = "waiting" /\ waiter = "returned" /\ main' = "graceful"
                 /\ UNCHANGED waiter
              \/ main' = "stopBroker" /\ "consumer" \in closed' /\ UNCHANGED waiter
              \/ /\ main \in {"stopBroker", "closeTokens", "stopHandler"}
                 /\ main' \in {"closeTokens", "stopHandler", "shutdown"} /\ UNCHANGED waiter
              \/ /\ UNCHANGED waiter
                 /\ main' \notin {"stopBroker", "closeTokens", "stopHandler", "shutdown",
                                  "waiting", "graceful"}
<1>1. CASE Consume
  BY <1>1, ConsumeLeaves
     DEF ConsumeLoop, receiveMessage, Subscribe, CheckStop, ReadMessage, ReadNothing, AddPending,
         SendToChannel, waitGroupVars
<1>2. CASE Broker
  BY <1>2 DEF Broker, BrokerReceive, BrokerStop, Route, SendToken, SendTokenPanics,
              confirmMessage, waitGroupVars
<1>3. CASE Handler
  BY <1>3, HandlerLeaves
<1>4. CASE StatsTick \/ Signal \/ flushStats \/ StopConsuming \/ ExitGraceful \/ ExitTimeout
  BY <1>4 DEF StatsTick, Signal, flushStats, StopConsuming, ExitGraceful, ExitTimeout, Goto,
              waitGroupVars
<1>5. CASE Cleanup
  BY <1>5 DEF Cleanup, StopConsuming, Close, Goto, waitGroupVars
<1>6. CASE gracefulShutdown
  BY <1>6 DEF gracefulShutdown
<1>7. CASE AwaitPending \/ Panic
  BY <1>7 DEF AwaitPending, Panic, waitGroupVars
<1> QED
  BY <1>1, <1>2, <1>3, <1>4, <1>5, <1>6, <1>7 DEF Step, Listen, Shutdown

\* If nothing is pending, only the message the consumer is about to add is unconfirmed.
LEMMA NothingPending ==
    ASSUME PendingExact', HandleAllMessagesBeforeExiting, wg' = 0
    PROVE  \A m, n \in Unconfirmed' : m = n
<1>1. Pending' \in SUBSET Messages /\ Cardinality(Pending') = 0
  BY DEF Pending, PendingExact
<1>2. Pending' = {}
  BY <1>1, ZeroCount
<1>3. \A m \in Unconfirmed' : consumer'.msg = m
  BY <1>2 DEF Pending, Unconfirmed
<1> QED
  BY <1>3

LEMMA StepOrder ==
    ASSUME TypeOK, Custody, CleanupOrder, PendingExact', Alive, Step
    PROVE  CleanupOrder'
<1>1. /\ main' \in {"stopBroker", "closeTokens", "stopHandler", "shutdown", "waiting"}
           => "consumer" \in closed'
      /\ waiter' # "absent" => "consumer" \in closed' /\ HandleAllMessagesBeforeExiting
  BY MainMoves, WaiterMoves DEF CleanupOrder
<1>2. main' = "graceful" => waiter' = "returned"
  BY MainMoves DEF CleanupOrder, Alive, ExitStates
<1>3. ASSUME waiter' \in {"released", "returned"}
      PROVE  \A m, n \in Unconfirmed' : m = n
  <2>1. CASE waiter \in {"released", "returned"}
    <3>1. "consumer" \in closed
      BY <2>1 DEF CleanupOrder
    <3>2. CASE UNCHANGED stage
      BY <2>1, <3>2 DEF CleanupOrder, Unconfirmed
    <3>3. ASSUME NEW m \in Unconfirmed, NEW s, stage' = [stage EXCEPT ![m] = s]
          PROVE  Unconfirmed' \subseteq Unconfirmed
      <4>1. \A n \in Messages \ {m} : stage'[n] = stage[n]
        BY <3>3 DEF TypeOK
      <4> QED
        BY <4>1 DEF Unconfirmed
    <3>4. UNCHANGED stage \/ Unconfirmed' \subseteq Unconfirmed
      BY <3>1, <3>3, StepMoves
    <3> QED
      BY <2>1, <3>2, <3>4 DEF CleanupOrder
  <2>2. CASE waiter \notin {"released", "returned"}
    <3>1. wg' = 0
      <4>1. wg \in Int
        BY DEF TypeOK, WaitGroupTypeOK
      <4> QED
        BY <1>3, <2>2, <4>1, MainMoves, WaiterMoves
    <3> QED
      BY <1>1, <1>3, <3>1, NothingPending
  <2> QED
    BY <2>1, <2>2
<1> QED
  BY <1>1, <1>2, <1>3 DEF CleanupOrder

LEMMA OrderCorrect == Spec => []CleanupOrder
<1>1. TypeOK /\ Custody /\ CleanupOrder /\ PendingExact' /\ [Next]_vars => CleanupOrder'
  <2> SUFFICES ASSUME TypeOK, Custody, CleanupOrder, PendingExact', [Next]_vars
               PROVE  CleanupOrder'
    OBVIOUS
  <2>1. CASE UNCHANGED vars
    BY <2>1 DEF vars, waitGroupVars, CleanupOrder, Unconfirmed
  <2> QED
    BY <2>1, StepOrder DEF Next, Terminated
<1> QED
  BY <1>1, InitOrder, TypeCorrect, CustodyCorrect, PendingCorrect, PTL DEF Spec

\* A graceful exit leaves at most one feedback message unconfirmed, however many there
\* are and however small the channels, although the broker is stopped before it is
\* waited for.
THEOREM GracefulExitCorrect == Spec => []GracefulExitLosesAtMostOne
<1>1. CleanupOrder => GracefulExitLosesAtMostOne
  <2> SUFFICES ASSUME CleanupOrder, main = "graceful"
               PROVE  Cardinality(Unconfirmed) <= 1
    BY DEF GracefulExitLosesAtMostOne, Unconfirmed
  <2> QED
    BY AtMostOne DEF CleanupOrder
<1> QED
  BY <1>1, OrderCorrect, PTL
=============================================================================
