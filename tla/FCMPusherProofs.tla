--------------------------- MODULE FCMPusherProofs ---------------------------
(***************************************************************************)
(* Theorems about the FCM pusher, for every value of its constants: its    *)
(* types, the custody of messages and of tokens, the count of the wait     *)
(* group, the shutdown, what is reported of a message when the wait group  *)
(* lets go of it, and that it implements PushDelivery.                     *)
(*                                                                         *)
(* The argument is the one of APNSPusherProofs.  What is more is that the  *)
(* goroutine of a push keeps its token after it has passed its message on: *)
(* TokenHolders says where the message may be then.                        *)
(***************************************************************************)
EXTENDS FCMPusher, PusherProofs

RouterBusy == {"handle", "acquire"}

HandlerType == [Handlers -> Goroutine({"receive"}, {"report", "done"})]

-----------------------------------------------------------------------------
(* Types                                                                   *)

LEMMA WorkersType == ConcurrentWorkers \in Nat \ {0}
<1>1. ConcurrentWorkers \in Nat /\ ConcurrentWorkers # 0
  BY HandlersAssumption, FS_CardinalityType, FS_EmptySet DEF ConcurrentWorkers
<1> QED
  BY <1>1

LEMMA InitType == Init => TypeOK
<1> SUFFICES ASSUME Init PROVE TypeOK
  OBVIOUS
<1>1. /\ WaitGroupTypeOK /\ ConsumerTypeOK /\ PusherTypeOK
      /\ stage \in [Messages -> Stages]
      /\ router \in Goroutine({"receive"}, RouterBusy)
  BY InitPusherType DEF Init, Stages
<1>2. /\ tokens \in 0..ConcurrentWorkers
      /\ sender \in [Messages -> {"none", "push", "respond", "release"}]
      /\ outcome \in [Messages -> {"none", "ok", "error"}]
  BY WorkersType DEF Init
<1>3. responsesChannel \in Seq(Messages) /\ Len(responsesChannel) <= ConcurrentWorkers
  BY WorkersType DEF Init
<1>4. handler \in HandlerType
  BY DEF Init, HandlerType, Goroutine
<1> QED
  BY <1>1, <1>2, <1>3, <1>4 DEF TypeOK, RouterBusy, HandlerType

\* The variables of the handler have their types.
HandlerTypeOK ==
    /\ tokens \in 0..ConcurrentWorkers
    /\ sender \in [Messages -> {"none", "push", "respond", "release"}]
    /\ outcome \in [Messages -> {"none", "ok", "error"}]
    /\ responsesChannel \in Seq(Messages)
    /\ Len(responsesChannel) <= ConcurrentWorkers
    /\ handler \in HandlerType

LEMMA FCMStartType ==
    ASSUME TypeOK, Start, UNCHANGED handlerVars
    PROVE  TypeOK'
<1>1. /\ WaitGroupTypeOK' /\ ConsumerTypeOK' /\ PusherTypeOK'
      /\ stage' \in [Messages -> Stages]
      /\ router' \in Goroutine({"receive"}, RouterBusy)
  BY StartType DEF TypeOK, Stages, RouterBusy
<1>2. HandlerTypeOK'
  BY DEF TypeOK, HandlerTypeOK, HandlerType, handlerVars
<1> QED
  BY <1>1, <1>2 DEF TypeOK, RouterBusy, HandlerTypeOK, HandlerType

LEMMA HandleMessagesType ==
    ASSUME TypeOK, HandleMessages
    PROVE  TypeOK'
<1>1. HandlerTypeOK /\ ConsumerTypeOK /\ PusherTypeOK
  BY DEF TypeOK, HandlerTypeOK, HandlerType
<1>2. router.msg \in Messages
  BY DEF TypeOK, Goroutine, HandleMessages, Discard, Admit, AcquireToken
<1>3. UNCHANGED <<consumerVars, main, reports>>
  BY DEF HandleMessages, Discard, Admit, AcquireToken
<1>4. ConsumerTypeOK' /\ PusherTypeOK'
  BY <1>1, <1>3 DEF ConsumerTypeOK, PusherTypeOK, consumerVars
<1>5. WaitGroupTypeOK'
  BY WaitGroupStepType
     DEF TypeOK, HandleMessages, Discard, Admit, AcquireToken, WaitGroupTypeOK, waitGroupVars
<1>6. stage' \in [Messages -> Stages]
  BY DEF TypeOK, Stages, HandleMessages, Discard, Admit, AcquireToken
<1>7. router' \in Goroutine({"receive"}, RouterBusy)
  <2>1. CASE Admit
    <3>1. router' = [pc |-> "acquire", msg |-> router.msg]
      BY <2>1 DEF Admit, TypeOK, Goroutine
    <3> QED
      BY <1>2, <3>1 DEF Goroutine, RouterBusy
  <2>2. CASE Discard \/ AcquireToken
    BY <2>2 DEF Discard, AcquireToken, Goroutine
  <2> QED
    BY <2>1, <2>2 DEF HandleMessages
<1>8. HandlerTypeOK'
  <2>1. CASE Discard \/ Admit
    BY <1>1, <2>1 DEF Discard, Admit, HandlerTypeOK, handlerVars
  <2>2. CASE AcquireToken
    <3>1. tokens' \in 0..ConcurrentWorkers
      BY <1>1, <2>2, WorkersType DEF AcquireToken, HandlerTypeOK
    <3>2. sender' \in [Messages -> {"none", "push", "respond", "release"}]
      BY <1>1, <2>2 DEF AcquireToken, HandlerTypeOK
    <3> QED
      BY <1>1, <2>2, <3>1, <3>2 DEF AcquireToken, HandlerTypeOK
  <2> QED
    BY <2>1, <2>2 DEF HandleMessages
<1> QED
  BY <1>4, <1>5, <1>6, <1>7, <1>8 DEF TypeOK, HandlerTypeOK, HandlerType, RouterBusy

\* A token that a goroutine puts back was not in the channel.
LEMMA SendsType ==
    ASSUME TypeOK, TokensConserved, NEW m \in Messages, Sends(m)
    PROVE  TypeOK'
<1>1. HandlerTypeOK /\ stage \in [Messages -> Stages]
  BY DEF TypeOK, HandlerTypeOK, HandlerType
<1>2. CASE SendPush(m)
  <2>1. PusherTypeOK'
    BY <1>2, ReportType DEF TypeOK, SendPush, PusherTypeOK, Sends
  <2>2. HandlerTypeOK' /\ stage' \in [Messages -> Stages]
    BY <1>1, <1>2 DEF SendPush, HandlerTypeOK
  <2> QED
    BY <2>1, <2>2 DEF TypeOK, HandlerTypeOK, HandlerType, Sends, WaitGroupTypeOK, waitGroupVars,
                      ConsumerTypeOK, consumerVars
<1>3. CASE Respond(m)
  <2>1. responsesChannel' \in Seq(Messages) /\ Len(responsesChannel') <= ConcurrentWorkers
    BY <1>1, <1>3, SendType, WorkersType DEF Respond, HandlerTypeOK
  <2>2. HandlerTypeOK' /\ stage' \in [Messages -> Stages]
    BY <1>1, <1>3, <2>1 DEF Respond, HandlerTypeOK, Stages
  <2> QED
    BY <1>3, <2>2 DEF TypeOK, HandlerTypeOK, HandlerType, Sends, WaitGroupTypeOK, waitGroupVars,
                      ConsumerTypeOK, consumerVars, PusherTypeOK, Respond
<1>4. CASE ReleaseToken(m)
  <2>1. tokens < ConcurrentWorkers
    <3> DEFINE T == {n \in Messages : sender[n] # "none"}
    <3>1. m \in T /\ T \in SUBSET Messages
      BY <1>4 DEF ReleaseToken
    <3>2. IsFiniteSet(T)
      BY <3>1, FS_Subset, MessagesAssumption
    <3>3. Cardinality(T) # 0 /\ Cardinality(T) \in Nat
      BY <3>1, <3>2, ZeroCount, FS_CardinalityType
    <3>4. tokens + Cardinality(T) = ConcurrentWorkers
      BY DEF TokensConserved
    <3> QED
      BY <1>1, <3>3, <3>4, WorkersType DEF HandlerTypeOK
  <2>2. HandlerTypeOK' /\ stage' \in [Messages -> Stages]
    BY <1>1, <1>4, <2>1, WorkersType DEF ReleaseToken, HandlerTypeOK
  <2> QED
    BY <1>4, <2>2 DEF TypeOK, HandlerTypeOK, HandlerType, Sends, WaitGroupTypeOK, waitGroupVars,
                      ConsumerTypeOK, consumerVars, PusherTypeOK, ReleaseToken
<1> QED
  BY <1>2, <1>3, <1>4 DEF Sends, sendPush

LEMMA HandlesType ==
    ASSUME TypeOK, NEW h \in Handlers, Handles(h)
    PROVE  TypeOK'
<1>1. HandlerTypeOK /\ stage \in [Messages -> Stages] /\ WaitGroupTypeOK /\ PusherTypeOK
  BY DEF TypeOK, HandlerTypeOK, HandlerType
<1>2. ConsumerTypeOK' /\ router' \in Goroutine({"receive"}, RouterBusy)
  BY DEF Handles, TypeOK, ConsumerTypeOK, consumerVars, RouterBusy
<1>3. WaitGroupTypeOK' /\ PusherTypeOK' /\ stage' \in [Messages -> Stages] /\ HandlerTypeOK'
  <2>1. CASE ReceiveResponse(h)
    <3>1. /\ Head(responsesChannel) \in Messages
          /\ responsesChannel' \in Seq(Messages)
          /\ Len(responsesChannel') <= ConcurrentWorkers
      BY <1>1, <2>1, ReceiveType, WorkersType DEF ReceiveResponse, HandlerTypeOK
    <3>2. handler' \in HandlerType
      BY <1>1, <2>1, <3>1 DEF ReceiveResponse, HandlerTypeOK, HandlerType, Goroutine
    <3>3. stage' \in [Messages -> Stages]
      BY <1>1, <2>1, <3>1 DEF ReceiveResponse, Stages
    <3> QED
      BY <1>1, <2>1, <3>1, <3>2, <3>3
         DEF ReceiveResponse, HandlerTypeOK, WaitGroupTypeOK, waitGroupVars, PusherTypeOK, Handles
  <2>2. CASE ReportResponse(h)
    <3>1. handler[h].msg \in Messages
      BY <1>1, <2>2 DEF ReportResponse, HandlerTypeOK, HandlerType, Goroutine
    <3>2. PusherTypeOK'
      BY <1>1, <2>2, <3>1, ReportType DEF ReportResponse, PusherTypeOK, Handles
    <3>3. handler' = [handler EXCEPT ![h] = [handler[h] EXCEPT !.pc = "done"]]
      BY <2>2 DEF ReportResponse
    <3>4. handler' \in HandlerType
      BY <1>1, <2>2, <3>1, <3>3 DEF ReportResponse, HandlerTypeOK, HandlerType, Goroutine
    <3> QED
      BY <1>1, <2>2, <3>2, <3>4 DEF ReportResponse, HandlerTypeOK, WaitGroupTypeOK, waitGroupVars
  <2>3. CASE FinishResponse(h)
    <3>1. WaitGroupTypeOK'
      BY <1>1, <2>3, WaitGroupStepType DEF FinishResponse
    <3>2. handler' \in HandlerType
      BY <1>1, <2>3 DEF FinishResponse, HandlerTypeOK, HandlerType, Goroutine
    <3>3. stage' \in [Messages -> Stages]
      BY <1>1, <2>3 DEF FinishResponse, Stages
    <3> QED
      BY <1>1, <2>3, <3>1, <3>2, <3>3 DEF FinishResponse, HandlerTypeOK, PusherTypeOK, Handles
  <2> QED
    BY <2>1, <2>2, <2>3 DEF Handles, HandleResponses
<1> QED
  BY <1>2, <1>3 DEF TypeOK, HandlerTypeOK, HandlerType, RouterBusy

-----------------------------------------------------------------------------
(* Custody of messages and tokens                                          *)

SenderCustody == At("sender") = {m \in Messages : sender[m] \in {"push", "respond"}}

ResponsesCustody ==
    IsInjective(responsesChannel) /\ ToSet(responsesChannel) = At("responsesChannel")

HandlerCustody ==
    /\ At("handler") =
         {m \in Messages : \E h \in Handlers : handler[h].pc # "receive" /\ handler[h].msg = m}
    /\ \A g, h \in Handlers :
         handler[g].pc # "receive" /\ handler[h].pc # "receive" /\ handler[g].msg = handler[h].msg
           => g = h

\* A goroutine that is about to put its token back has passed its message on.
TokenHolders ==
    \A m \in Messages :
      sender[m] = "release" => stage[m] \in {"responsesChannel", "handler", "handled"}

Custody ==
    /\ ReadCustody
    /\ RouterHas(RouterBusy)
    /\ SenderCustody
    /\ ResponsesCustody
    /\ HandlerCustody
    /\ TokenHolders

LEMMA CustodyMeans == TypeOK => (Custody <=> SingleCustody /\ TokenHolders)
<1> SUFFICES ASSUME TypeOK
             PROVE  Custody <=> SingleCustody /\ TokenHolders
  OBVIOUS
<1>1. \A m \in Messages : router.pc # "receive" <=> router.pc \in RouterBusy
  BY DEF TypeOK, Goroutine, RouterBusy
<1>2. RouterHas(RouterBusy)
        <=> At("router") = {m \in Messages : router.pc # "receive" /\ router.msg = m}
  BY <1>1 DEF RouterHas
<1> QED
  BY <1>2 DEF Custody, SingleCustody, ReadCustody, SenderCustody, ResponsesCustody,
              HandlerCustody

LEMMA InitCustody == Init => Custody /\ TokensConserved
<1> SUFFICES ASSUME Init PROVE Custody /\ TokensConserved
  OBVIOUS
<1>1. \A t : t # "unread" => At(t) = {}
  BY DEF Init, ConsumerInit, At
<1>2. ReadCustody /\ RouterHas(RouterBusy)
  BY InitReadCustody, InitRouterHas DEF Init, RouterBusy
<1>3. SenderCustody /\ ResponsesCustody /\ HandlerCustody /\ TokenHolders
  BY <1>1, EmptySet DEF Init, SenderCustody, ResponsesCustody, HandlerCustody, TokenHolders
<1>4. TokensConserved
  <2>1. {m \in Messages : sender[m] # "none"} = {}
    BY DEF Init
  <2>2. Cardinality({m \in Messages : sender[m] # "none"}) = 0
    BY <2>1, FS_EmptySet
  <2>3. tokens = ConcurrentWorkers /\ ConcurrentWorkers \in Int
    BY WorkersType DEF Init
  <2> QED
    BY <2>2, <2>3 DEF TokensConserved
<1> QED
  BY <1>2, <1>3, <1>4 DEF Custody

\* Who keeps its state and its messages keeps custody of them.
LEMMA Untouched ==
    ASSUME Custody
    PROVE  /\ UNCHANGED <<consumer, msgChan, At("consumer"), At("msgChan")>> => ReadCustody'
           /\ UNCHANGED <<router, At("router")>> => RouterHas(RouterBusy)'
           /\ UNCHANGED <<sender, At("sender")>> => SenderCustody'
           /\ UNCHANGED <<responsesChannel, At("responsesChannel")>> => ResponsesCustody'
           /\ UNCHANGED <<handler, At("handler")>> => HandlerCustody'
<1> USE DEF Custody
<1>1. UNCHANGED <<consumer, msgChan, At("consumer"), At("msgChan")>> => ReadCustody'
  BY ReadCustodyStays
<1>2. UNCHANGED <<router, At("router")>> => RouterHas(RouterBusy)'
  BY DEF RouterHas
<1>3. UNCHANGED <<sender, At("sender")>> => SenderCustody'
  BY DEF SenderCustody
<1>4. UNCHANGED <<responsesChannel, At("responsesChannel")>> => ResponsesCustody'
  BY DEF ResponsesCustody
<1>5. UNCHANGED <<handler, At("handler")>> => HandlerCustody'
  BY DEF HandlerCustody
<1> QED
  BY <1>1, <1>2, <1>3, <1>4, <1>5

\* A step that takes one message on and no token.
LEMMA TokensStay ==
    ASSUME TokensConserved, UNCHANGED <<tokens, sender>>
    PROVE  TokensConserved'
  BY DEF TokensConserved

LEMMA FCMStartCustody ==
    ASSUME TypeOK, Custody, TokensConserved, Start, UNCHANGED handlerVars
    PROVE  Custody' /\ TokensConserved'
<1>1. /\ ReadCustody' /\ RouterHas(RouterBusy)'
      /\ \A t : t \notin {"unread", "consumer", "msgChan", "router", "lost"} => At(t)' = At(t)
  BY StartCustody DEF Custody, TypeOK, RouterBusy
<1>2. SenderCustody' /\ ResponsesCustody' /\ HandlerCustody'
  BY <1>1 DEF Custody, SenderCustody, ResponsesCustody, HandlerCustody, handlerVars
<1>3. TokenHolders'
  <2> SUFFICES ASSUME NEW m \in Messages, sender'[m] = "release"
               PROVE  stage'[m] \in {"responsesChannel", "handler", "handled"}
    BY DEF TokenHolders
  <2>1. m \in At("responsesChannel") \cup At("handler") \cup At("handled")
    BY DEF Custody, TokenHolders, handlerVars, At
  <2>2. m \in At("responsesChannel")' \cup At("handler")' \cup At("handled")'
    BY <1>1, <2>1
  <2> QED
    BY <2>2 DEF At
<1>4. TokensConserved'
  BY TokensStay DEF handlerVars
<1> QED
  BY <1>1, <1>2, <1>3, <1>4 DEF Custody

LEMMA HandleMessagesCustody ==
    ASSUME TypeOK, Custody, TokensConserved, HandleMessages
    PROVE  Custody' /\ TokensConserved'
<1>1. PICK m \in Messages : m = router.msg
  BY DEF HandleMessages, Discard, Admit, AcquireToken, TypeOK, Goroutine
<1>2. stage[m] = "router"
  BY <1>1 DEF HandleMessages, Discard, Admit, AcquireToken, Custody, RouterHas, RouterBusy, At
<1>3. sender[m] = "none"
  BY <1>2 DEF Custody, SenderCustody, TokenHolders, At, TypeOK
<1>4. CASE Discard
  <2>1. /\ stage' = [stage EXCEPT ![m] = "handled"]
        /\ router' = [pc |-> "receive", msg |-> None]
        /\ UNCHANGED <<consumer, msgChan, tokens, sender, responsesChannel, handler>>
    BY <1>1, <1>4 DEF Discard, consumerVars, handlerVars
  <2>2. /\ At("router")' = At("router") \ {m}
        /\ \A t : t \notin {"router", "handled"} => At(t)' = At(t)
    BY <1>2, <2>1, Move DEF TypeOK
  <2>3. RouterHas(RouterBusy)'
    BY <1>1, <1>4, <2>1, <2>2 DEF Discard, Custody, RouterHas, RouterBusy
  <2>4. TokenHolders'
    BY <2>1, <1>3 DEF Custody, TokenHolders, TypeOK
  <2>5. ReadCustody' /\ SenderCustody' /\ ResponsesCustody' /\ HandlerCustody'
    BY <2>1, <2>2, Untouched
  <2> QED
    BY <2>1, <2>3, <2>4, <2>5, TokensStay DEF Custody
<1>5. CASE Admit
  <2>1. /\ UNCHANGED <<stage, consumer, msgChan, tokens, sender, responsesChannel, handler>>
        /\ router.pc = "handle" /\ router'.pc = "acquire" /\ router'.msg = router.msg
    BY <1>5 DEF Admit, consumerVars, handlerVars, TypeOK, Goroutine
  <2>2. \A t : At(t)' = At(t)
    BY <2>1, Stay
  <2>3. RouterHas(RouterBusy)'
    BY <2>1, <2>2 DEF Custody, RouterHas, RouterBusy
  <2>4. TokenHolders'
    BY <2>1 DEF Custody, TokenHolders
  <2>5. ReadCustody' /\ SenderCustody' /\ ResponsesCustody' /\ HandlerCustody'
    BY <2>1, <2>2 DEF Custody, ReadCustody, SenderCustody, ResponsesCustody, HandlerCustody
  <2> QED
    BY <2>1, <2>3, <2>4, <2>5, TokensStay DEF Custody
<1>6. CASE AcquireToken
  <2>1. /\ stage' = [stage EXCEPT ![m] = "sender"]
        /\ sender' = [sender EXCEPT ![m] = "push"]
        /\ router.pc = "acquire" /\ router' = [pc |-> "receive", msg |-> None]
        /\ tokens' = tokens - 1
        /\ UNCHANGED <<consumer, msgChan, responsesChannel, handler>>
    BY <1>1, <1>6 DEF AcquireToken, consumerVars
  <2>2. /\ At("router")' = At("router") \ {m}
        /\ At("sender")' = At("sender") \cup {m}
        /\ \A t : t \notin {"router", "sender"} => At(t)' = At(t)
    BY <1>2, <2>1, Move DEF TypeOK
  <2>3. RouterHas(RouterBusy)'
    BY <1>1, <2>1, <2>2 DEF Custody, RouterHas, RouterBusy
  <2>4. SenderCustody'
    BY <2>1, <2>2 DEF Custody, SenderCustody, TypeOK
  <2>5. TokenHolders'
    BY <2>1 DEF Custody, TokenHolders, TypeOK
  <2>6. TokensConserved'
    <3> DEFINE T == {n \in Messages : sender[n] # "none"}
               U == {n \in Messages : sender'[n] # "none"}
    <3>1. m \notin T /\ U = T \cup {m} /\ T \in SUBSET Messages
      BY <1>3, <2>1 DEF TypeOK
    <3>2. IsFiniteSet(T)
      BY <3>1, FS_Subset, MessagesAssumption
    <3>3. Cardinality(U) = Cardinality(T) + 1 /\ Cardinality(T) \in Nat
      BY <3>1, <3>2, FS_AddElement, FS_CardinalityType
    <3>4. tokens + Cardinality(T) = ConcurrentWorkers /\ tokens \in Int
      BY DEF TokensConserved, TypeOK
    <3>5. tokens' + Cardinality(U) = ConcurrentWorkers
      BY <2>1, <3>3, <3>4
    <3> QED
      BY <3>5 DEF TokensConserved, ConcurrentWorkers
  <2>7. /\ \A t : t \notin {"router", "sender"} => At(t)' = At(t)
        /\ UNCHANGED <<consumer, msgChan, responsesChannel, handler>>
    BY <2>1, <2>2
  <2>8. ReadCustody' /\ ResponsesCustody' /\ HandlerCustody'
    BY <2>7, Untouched
  <2> QED
    BY <2>3, <2>4, <2>5, <2>6, <2>8 DEF Custody
<1> QED
  BY <1>4, <1>5, <1>6 DEF HandleMessages

LEMMA SendsCustody ==
    ASSUME TypeOK, Custody, TokensConserved, NEW m \in Messages, Sends(m)
    PROVE  Custody' /\ TokensConserved'
<1>1. UNCHANGED <<consumer, msgChan, router, handler>>
  BY DEF Sends, sendPush, SendPush, Respond, ReleaseToken, consumerVars
<1>2. CASE SendPush(m)
  <2>1. /\ UNCHANGED <<stage, tokens, responsesChannel>>
        /\ sender[m] = "push" /\ sender' = [sender EXCEPT ![m] = "respond"]
    BY <1>2 DEF SendPush
  <2>2. \A t : At(t)' = At(t)
    BY <2>1, Stay
  <2>3. SenderCustody' /\ TokenHolders'
    BY <2>1, <2>2 DEF Custody, SenderCustody, TokenHolders, TypeOK
  <2>4. ReadCustody' /\ RouterHas(RouterBusy)' /\ ResponsesCustody' /\ HandlerCustody'
    BY <1>1, <2>1, <2>2 DEF Custody, ReadCustody, RouterHas, ResponsesCustody, HandlerCustody
  <2>5. {n \in Messages : sender'[n] # "none"} = {n \in Messages : sender[n] # "none"}
    BY <2>1 DEF TypeOK
  <2>6. TokensConserved'
    BY <2>1, <2>5 DEF TokensConserved
  <2> QED
    BY <2>3, <2>4, <2>6 DEF Custody
<1>3. CASE Respond(m)
  <2>1. /\ stage' = [stage EXCEPT ![m] = "responsesChannel"]
        /\ responsesChannel' = Append(responsesChannel, m)
        /\ sender[m] = "respond" /\ sender' = [sender EXCEPT ![m] = "release"]
        /\ UNCHANGED tokens
    BY <1>3 DEF Respond
  <2>2. stage[m] = "sender"
    BY <2>1 DEF Custody, SenderCustody, At
  <2>3. /\ At("sender")' = At("sender") \ {m}
        /\ \A t : t \notin {"sender", "responsesChannel"} => At(t)' = At(t)
    BY <2>1, <2>2, Move DEF TypeOK
  <2>4. SenderCustody'
    BY <2>1, <2>3 DEF Custody, SenderCustody, TypeOK
  <2>5. ResponsesCustody'
    BY <2>1, <2>2, ChannelGains DEF Custody, ResponsesCustody, TypeOK
  <2>6. TokenHolders'
    BY <2>1 DEF Custody, TokenHolders, TypeOK
  <2>7. \A t : t \notin {"sender", "responsesChannel"} => At(t)' = At(t)
    BY <2>3
  <2>8. ReadCustody' /\ RouterHas(RouterBusy)' /\ HandlerCustody'
    BY <1>1, <2>7, Untouched
  <2>9. {n \in Messages : sender'[n] # "none"} = {n \in Messages : sender[n] # "none"}
    BY <2>1 DEF TypeOK
  <2>10. TokensConserved'
    BY <2>1, <2>9 DEF TokensConserved
  <2> QED
    BY <2>4, <2>5, <2>6, <2>8, <2>10 DEF Custody
<1>4. CASE ReleaseToken(m)
  <2>1. /\ UNCHANGED <<stage, responsesChannel>> /\ tokens' = tokens + 1
        /\ sender[m] = "release" /\ sender' = [sender EXCEPT ![m] = "none"]
    BY <1>4 DEF ReleaseToken
  <2>2. \A t : At(t)' = At(t)
    BY <2>1, Stay
  <2>3. SenderCustody' /\ TokenHolders'
    BY <2>1, <2>2 DEF Custody, SenderCustody, TokenHolders, TypeOK
  <2>4. ReadCustody' /\ RouterHas(RouterBusy)' /\ ResponsesCustody' /\ HandlerCustody'
    BY <1>1, <2>1, <2>2 DEF Custody, ReadCustody, RouterHas, ResponsesCustody, HandlerCustody
  <2>5. TokensConserved'
    <3> DEFINE T == {n \in Messages : sender[n] # "none"}
               U == {n \in Messages : sender'[n] # "none"}
    <3>1. m \in T /\ U = T \ {m} /\ T \in SUBSET Messages
      BY <2>1 DEF TypeOK
    <3>2. IsFiniteSet(T)
      BY <3>1, FS_Subset, MessagesAssumption
    <3>3. Cardinality(T) \in Nat
      BY <3>2, FS_CardinalityType
    <3> HIDE DEF T, U
    <3>4. Cardinality(T \ {m}) = Cardinality(T) - 1
      BY <3>1, <3>2, FS_RemoveElement
    <3>5. Cardinality(U) = Cardinality(T) - 1
      BY <3>1, <3>4
    <3>6. tokens + Cardinality(T) = ConcurrentWorkers /\ tokens \in Int
      BY DEF TokensConserved, TypeOK, T
    <3>7. tokens' + Cardinality(U) = ConcurrentWorkers
      BY <2>1, <3>3, <3>5, <3>6
    <3> QED
      BY <3>7 DEF TokensConserved, ConcurrentWorkers, U
  <2> QED
    BY <2>3, <2>4, <2>5 DEF Custody
<1> QED
  BY <1>2, <1>3, <1>4 DEF Sends, sendPush

LEMMA HandlesCustody ==
    ASSUME TypeOK, Custody, TokensConserved, NEW h \in Handlers, Handles(h)
    PROVE  Custody' /\ TokensConserved'
<1>1. UNCHANGED <<consumer, msgChan, router, tokens, sender>>
  BY DEF Handles, HandleResponses, ReceiveResponse, ReportResponse, FinishResponse, consumerVars
<1>2. TokensConserved'
  BY <1>1, TokensStay
<1>3. CASE ReceiveResponse(h)
  <2> DEFINE m == Head(responsesChannel)
  <2>1. /\ responsesChannel # << >> /\ responsesChannel \in Seq(Messages)
        /\ IsInjective(responsesChannel) /\ ToSet(responsesChannel) = At("responsesChannel")
        /\ responsesChannel' = Tail(responsesChannel)
        /\ stage' = [stage EXCEPT ![m] = "handler"]
        /\ handler[h].pc = "receive"
        /\ handler' = [handler EXCEPT ![h] = [pc |-> "report", msg |-> m]]
    BY <1>3 DEF ReceiveResponse, Custody, ResponsesCustody, TypeOK
  <2>2. /\ m \in Messages /\ stage[m] = "responsesChannel"
        /\ IsInjective(responsesChannel') /\ ToSet(responsesChannel') = At("responsesChannel")'
        /\ At("handler")' = At("handler") \cup {m} /\ m \notin At("handler")
        /\ \A t : t \notin {"responsesChannel", "handler"} => At(t)' = At(t)
    BY <2>1, ChannelLoses, "responsesChannel" # "handler" DEF TypeOK
  <2> HIDE DEF m
  <2>3. ResponsesCustody'
    BY <2>2 DEF ResponsesCustody
  <2>4. HandlerCustody'
    BY <2>1, <2>2 DEF Custody, HandlerCustody, TypeOK
  <2>5. TokenHolders'
    BY <1>1, <2>1, <2>2 DEF Custody, TokenHolders, TypeOK
  <2>6. \A t : t \notin {"responsesChannel", "handler"} => At(t)' = At(t)
    BY <2>2
  <2>7. ReadCustody' /\ RouterHas(RouterBusy)' /\ SenderCustody'
    BY <1>1, <2>6, Untouched
  <2> QED
    BY <1>2, <2>3, <2>4, <2>5, <2>7 DEF Custody
<1>4. CASE ReportResponse(h)
  <2>1. /\ UNCHANGED <<stage, responsesChannel>> /\ handler[h].pc = "report"
        /\ handler' = [handler EXCEPT ![h] = [handler[h] EXCEPT !.pc = "done"]]
    BY <1>4 DEF ReportResponse
  <2>2. /\ handler'[h].pc = "done" /\ handler'[h].msg = handler[h].msg
        /\ \A g \in Handlers : g # h => handler'[g] = handler[g]
    BY <2>1 DEF TypeOK, Goroutine
  <2>3. \A g \in Handlers : /\ handler'[g].pc # "receive" <=> handler[g].pc # "receive"
                           /\ handler'[g].msg = handler[g].msg
    BY <2>1, <2>2
  <2>4. \A t : At(t)' = At(t)
    BY <2>1, Stay
  <2>5. HandlerCustody'
    BY <2>3, <2>4 DEF Custody, HandlerCustody
  <2>6. ReadCustody' /\ RouterHas(RouterBusy)' /\ SenderCustody' /\ ResponsesCustody'
        /\ TokenHolders'
    BY <1>1, <2>1, <2>4
       DEF Custody, ReadCustody, RouterHas, SenderCustody, ResponsesCustody, TokenHolders
  <2> QED
    BY <1>2, <2>5, <2>6 DEF Custody
<1>5. CASE FinishResponse(h)
  <2>1. PICK m \in Messages : m = handler[h].msg
    BY <1>5 DEF FinishResponse, TypeOK, Goroutine
  <2>2. /\ stage' = [stage EXCEPT ![m] = "handled"] /\ handler[h].pc = "done"
        /\ handler' = [handler EXCEPT ![h] = [pc |-> "receive", msg |-> None]]
        /\ UNCHANGED responsesChannel
    BY <1>5, <2>1 DEF FinishResponse
  <2>3. stage[m] = "handler"
    BY <2>1, <2>2 DEF Custody, HandlerCustody, At
  <2>4. /\ At("handler")' = At("handler") \ {m}
        /\ \A t : t \notin {"handler", "handled"} => At(t)' = At(t)
    BY <2>2, <2>3, Move DEF TypeOK
  <2>5. HandlerCustody'
    BY <2>1, <2>2, <2>4 DEF Custody, HandlerCustody, TypeOK
  <2>6. TokenHolders'
    BY <1>1, <2>2 DEF Custody, TokenHolders, TypeOK
  <2>7. /\ \A t : t \notin {"handler", "handled"} => At(t)' = At(t)
        /\ UNCHANGED <<consumer, msgChan, router, sender, responsesChannel>>
    BY <1>1, <2>2, <2>4
  <2>8. ReadCustody' /\ RouterHas(RouterBusy)' /\ SenderCustody' /\ ResponsesCustody'
    BY <2>7, Untouched
  <2> QED
    BY <1>2, <2>5, <2>6, <2>8 DEF Custody
<1> QED
  BY <1>3, <1>4, <1>5 DEF Handles, HandleResponses

\* The inductive invariant: a token is put back only if its goroutine has it, and its
\* goroutine has the message it passes on.
IInv == TypeOK /\ Custody /\ TokensConserved

LEMMA StepInvariant == IInv /\ [Next]_vars => IInv'
<1> SUFFICES ASSUME IInv, [Next]_vars PROVE IInv'
  OBVIOUS
<1> USE DEF IInv
<1>1. CASE Start /\ UNCHANGED handlerVars
  BY <1>1, FCMStartType, FCMStartCustody
<1>2. CASE HandleMessages
  BY <1>2, HandleMessagesType, HandleMessagesCustody
<1>3. ASSUME NEW m \in Messages, Sends(m)
      PROVE  IInv'
  BY <1>3, SendsType, SendsCustody
<1>4. ASSUME NEW h \in Handlers, Handles(h)
      PROVE  IInv'
  BY <1>4, HandlesType, HandlesCustody
<1>5. CASE UNCHANGED vars
  <2>1. UNCHANGED <<stage, consumer, msgChan, router, tokens, sender, responsesChannel, handler>>
    BY <1>5 DEF vars, consumerVars, pusherVars, handlerVars
  <2>2. \A t : At(t)' = At(t)
    BY <2>1, Stay
  <2>3. TypeOK'
    BY <1>5 DEF TypeOK, vars, waitGroupVars, consumerVars, pusherVars, handlerVars,
                WaitGroupTypeOK, ConsumerTypeOK, PusherTypeOK
  <2>4. Custody'
    BY <2>1, <2>2
       DEF Custody, ReadCustody, RouterHas, SenderCustody, ResponsesCustody, HandlerCustody,
           TokenHolders
  <2> QED
    BY <2>1, <2>3, <2>4, TokensStay
<1> QED
  BY <1>1, <1>2, <1>3, <1>4, <1>5 DEF Next, Step, Terminated

LEMMA Invariant == Spec => []IInv
<1>1. Init => IInv
  BY InitType, InitCustody DEF IInv
<1> QED
  BY <1>1, StepInvariant, PTL DEF Spec

\* Every reachable state of the FCM pusher is well typed; in particular no channel and
\* no number of tokens exceeds its capacity.
THEOREM TypeCorrect == Spec => []TypeOK
<1>1. IInv => TypeOK
  BY DEF IInv
<1> QED
  BY <1>1, Invariant, PTL

\* At every moment each message that was read from the broker is held by exactly one
\* goroutine or channel, although pushes run in goroutines of their own and any
\* handler takes any response.
THEOREM CustodyCorrect == Spec => []SingleCustody
<1>1. IInv => SingleCustody
  BY CustodyMeans DEF IInv
<1> QED
  BY <1>1, Invariant, PTL

\* Every token is in the channel or with the goroutine of one push, so at most
\* gcm.concurrentWorkers pushes run at a time and no path leaks a token.
THEOREM TokensCorrect == Spec => []TokensConserved
<1>1. IInv => TokensConserved
  BY DEF IInv
<1> QED
  BY <1>1, Invariant, PTL

-----------------------------------------------------------------------------
(* The wait group, the shutdown and the refinement                         *)

LEMMA FCMPusherOK == IInv => PusherOK(Stages, RouterBusy, RouterBusy)
  BY DEF IInv, TypeOK, Custody, PusherOK, RouterBusy

\* Who passes a message on, or calls Done for it, has it.
LEMMA HandlesItsOwn ==
    ASSUME TypeOK, Custody
    PROVE  /\ router.pc \in RouterBusy
                => router.msg \in Messages /\ stage[router.msg] = "router"
           /\ \A m \in Messages : sender[m] \in {"push", "respond"} => stage[m] = "sender"
           /\ responsesChannel # << >>
                => /\ Head(responsesChannel) \in Messages
                   /\ stage[Head(responsesChannel)] = "responsesChannel"
           /\ \A h \in Handlers :
                handler[h].pc # "receive"
                  => handler[h].msg \in Messages /\ stage[handler[h].msg] = "handler"
<1>1. router.pc \in RouterBusy => router.msg \in Messages /\ stage[router.msg] = "router"
  BY DEF TypeOK, Goroutine, RouterBusy, Custody, RouterHas, At
<1>2. \A m \in Messages : sender[m] \in {"push", "respond"} => stage[m] = "sender"
  BY DEF Custody, SenderCustody, At
<1>3. responsesChannel # << >>
        => /\ Head(responsesChannel) \in Messages
           /\ stage[Head(responsesChannel)] = "responsesChannel"
  BY ReceiveSet DEF TypeOK, Custody, ResponsesCustody, At
<1>4. ASSUME NEW h \in Handlers, handler[h].pc # "receive"
      PROVE  handler[h].msg \in Messages /\ stage[handler[h].msg] = "handler"
  <2>1. handler[h].msg \in Messages
    BY <1>4 DEF TypeOK, Goroutine
  <2> QED
    BY <1>4, <2>1 DEF Custody, HandlerCustody, At
<1> QED
  BY <1>1, <1>2, <1>3, <1>4

LEMMA StepIsPusherStep ==
    ASSUME IInv, Step
    PROVE  PusherStep
<1> USE HandlesItsOwn DEF IInv, HandlerStep, RouterBusy
<1>1. CASE Discard
  BY <1>1 DEF Discard, consumerVars, PusherStep
<1>2. CASE Admit
  BY <1>2 DEF Admit, consumerVars, PusherStep
<1>3. CASE AcquireToken
  BY <1>3 DEF AcquireToken, consumerVars, PusherStep
<1>4. ASSUME NEW m \in Messages, Sends(m)
      PROVE  PusherStep
  BY <1>4 DEF Sends, sendPush, SendPush, Respond, ReleaseToken, consumerVars, PusherStep
<1>5. ASSUME NEW h \in Handlers, Handles(h)
      PROVE  PusherStep
  <2>1. UNCHANGED <<consumer, stopChannel, main>>
    BY <1>5 DEF Handles, consumerVars
  <2>2. CASE ReceiveResponse(h)
    BY <2>1, <2>2 DEF ReceiveResponse, PusherStep
  <2>3. CASE ReportResponse(h)
    BY <2>1, <2>3 DEF ReportResponse, PusherStep
  <2>4. CASE FinishResponse(h)
    BY <2>1, <2>4 DEF FinishResponse, PusherStep
  <2> QED
    BY <1>5, <2>2, <2>3, <2>4 DEF Handles, HandleResponses
<1> QED
  BY <1>1, <1>2, <1>3, <1>4, <1>5 DEF Step, HandleMessages, PusherStep

LEMMA StepCountShutdown ==
    IInv /\ PendingExact /\ ShutdownOrder /\ [Next]_vars => PendingExact' /\ ShutdownOrder'
<1> SUFFICES ASSUME IInv, PendingExact, ShutdownOrder, [Next]_vars
             PROVE  PendingExact' /\ ShutdownOrder'
  OBVIOUS
<1>1. ASSUME Alive, Step
      PROVE  PendingExact' /\ ShutdownOrder'
  BY <1>1, FCMPusherOK, StepIsPusherStep, StepCount, StepShutdown
<1>2. CASE UNCHANGED vars
  BY <1>2, StayShutdown DEF vars, waitGroupVars, consumerVars, pusherVars
<1> QED
  BY <1>1, <1>2 DEF Next, Terminated

LEMMA CountShutdown == Spec => [](PendingExact /\ ShutdownOrder)
<1>1. Init => PendingExact /\ ShutdownOrder
  BY InitCount, InitShutdown DEF Init
<1> QED
  BY <1>1, StepCountShutdown, Invariant, PTL DEF Spec

\* At every moment the pending wait group counts exactly the messages that were added
\* to it and not yet handled, lost ones included, whichever of the goroutines that
\* handle responses calls Done.
THEOREM PendingCorrect == Spec => []PendingExact
  BY CountShutdown, PTL

LEMMA StepImplements ==
    IInv /\ PendingExact /\ ShutdownOrder /\ [Next]_vars => [Delivery!Next]_(Delivery!vars)
<1> SUFFICES ASSUME IInv, PendingExact, ShutdownOrder, [Next]_vars
             PROVE  [Delivery!Next]_(Delivery!vars)
  OBVIOUS
<1>1. ASSUME Alive, Step
      PROVE  [Delivery!Next]_(Delivery!vars)
  BY <1>1, FCMPusherOK, StepIsPusherStep, StepDelivers
<1>2. CASE UNCHANGED vars
  BY <1>2, StayDelivers DEF vars, consumerVars, pusherVars
<1> QED
  BY <1>1, <1>2 DEF Next, Terminated

\* The FCM pusher implements PushDelivery: however the pushes and their answers
\* overtake one another, a message is read once, settled at most once and never after
\* it was lost, and the exit means what it says.
THEOREM DeliveryCorrect == Spec => ImplementsDelivery
<1>1. Init => Delivery!Init
  BY InitDelivery DEF Init
<1> QED
  BY <1>1, StepImplements, Invariant, CountShutdown, PTL
     DEF Spec, ImplementsDelivery, Delivery!Spec

-----------------------------------------------------------------------------
(* What is reported of a message when the wait group lets go of it         *)

Counted(m, sent, acked, failed) ==
    /\ reports[m]["sent"] = sent
    /\ reports[m]["acked"] = acked
    /\ reports[m]["failed"] = failed
    /\ reports[m]["feedback"] = failed

Unpushed(m) == outcome[m] = "none" /\ Counted(m, 0, 0, 0)

Pushed(m) == outcome[m] \in {"ok", "error"} /\ Counted(m, 1, 0, 0)

Answered(m) ==
    \/ outcome[m] = "ok" /\ Counted(m, 1, 1, 0)
    \/ outcome[m] = "error" /\ Counted(m, 1, 0, 1)

\* What was reported of a message, by where it is.
Reported(m) ==
    /\ stage[m] \in {"unread", "consumer", "msgChan", "router"} => Unpushed(m)
    /\ stage[m] = "sender" => IF sender[m] = "push" THEN Unpushed(m) ELSE Pushed(m)
    /\ stage[m] = "responsesChannel" => Pushed(m)
    /\ \A h \in Handlers : handler[h].msg = m =>
         /\ handler[h].pc = "report" => Pushed(m)
         /\ handler[h].pc = "done" => Answered(m)
    /\ stage[m] = "handled" => Unpushed(m) \/ Answered(m)

AllReported == \A m \in Messages : Reported(m)

LEMMA ReportedMeans == AllReported => ReportedWhenDone
  BY DEF AllReported, Reported, Unpushed, Answered, Counted, ReportedWhenDone

LEMMA InitReported == Init => AllReported
<1> SUFFICES ASSUME Init, NEW m \in Messages PROVE Reported(m)
  BY DEF AllReported
<1>1. /\ stage[m] = "unread" /\ outcome[m] = "none"
      /\ \A k \in ReportKinds : reports[m][k] = 0
      /\ \A h \in Handlers : handler[h].pc = "receive"
  BY DEF Init, ConsumerInit, PusherInit
<1> QED
  BY <1>1 DEF Reported, Unpushed, Counted, ReportKinds

\* A step of another message is not seen by this one.
LEMMA Unseen ==
    ASSUME NEW m \in Messages, Reported(m),
           stage'[m] = stage[m], outcome'[m] = outcome[m], sender'[m] = sender[m],
           reports'[m] = reports[m],
           \A h \in Handlers : \/ handler'[h] = handler[h]
                              \/ handler'[h].msg # m
    PROVE  Reported(m)'
<1>1. /\ Unpushed(m)' <=> Unpushed(m)
      /\ Pushed(m)' <=> Pushed(m)
      /\ Answered(m)' <=> Answered(m)
  BY DEF Unpushed, Pushed, Answered, Counted
<1> QED
  BY <1>1 DEF Reported

LEMMA StartReported ==
    ASSUME IInv, AllReported, Start, UNCHANGED handlerVars
    PROVE  AllReported'
<1> SUFFICES ASSUME NEW m \in Messages PROVE Reported(m)'
  BY DEF AllReported
<1>1. Reported(m) /\ UNCHANGED <<outcome, sender, handler>>
  BY DEF AllReported, handlerVars
<1>2. /\ UNCHANGED reports
      /\ \/ stage'[m] = stage[m]
         \/ /\ stage[m] \in {"unread", "consumer", "msgChan", "router"}
            /\ stage'[m] \in {"consumer", "msgChan", "router", "lost"}
  BY FCMPusherOK, StartStages
<1>3. CASE stage'[m] = stage[m]
  BY <1>1, <1>2, <1>3, Unseen
<1>4. CASE /\ stage[m] \in {"unread", "consumer", "msgChan", "router"}
           /\ stage'[m] \in {"consumer", "msgChan", "router", "lost"}
  <2>1. Unpushed(m) /\ (Unpushed(m)' <=> Unpushed(m)) /\ (Pushed(m)' <=> Pushed(m))
        /\ (Answered(m)' <=> Answered(m))
    BY <1>1, <1>2, <1>4 DEF Reported, Unpushed, Pushed, Answered, Counted
  <2> QED
    BY <1>1, <1>4, <2>1 DEF Reported
<1> QED
  BY <1>2, <1>3, <1>4

LEMMA HandleMessagesReported ==
    ASSUME IInv, AllReported, HandleMessages
    PROVE  AllReported'
<1> SUFFICES ASSUME NEW m \in Messages PROVE Reported(m)'
  BY DEF AllReported
<1>1. Reported(m) /\ UNCHANGED <<outcome, handler, reports>>
  BY DEF AllReported, HandleMessages, Discard, Admit, AcquireToken, handlerVars
<1>2. router.msg \in Messages /\ stage[router.msg] = "router"
  BY HandlesItsOwn DEF IInv, RouterBusy, HandleMessages, Discard, Admit, AcquireToken
<1>3. CASE m # router.msg \/ Admit
  <2>1. stage'[m] = stage[m] /\ sender'[m] = sender[m]
    BY <1>2, <1>3 DEF HandleMessages, Discard, Admit, AcquireToken, handlerVars, IInv, TypeOK
  <2> QED
    BY <1>1, <2>1, Unseen
<1>4. CASE m = router.msg /\ (Discard \/ AcquireToken)
  <2>1. \/ stage'[m] = "handled"
        \/ stage'[m] = "sender" /\ sender'[m] = "push"
    BY <1>2, <1>4 DEF Discard, AcquireToken, IInv, TypeOK
  <2>2. Unpushed(m) /\ (Unpushed(m)' <=> Unpushed(m)) /\ (Pushed(m)' <=> Pushed(m))
        /\ (Answered(m)' <=> Answered(m))
    BY <1>1, <1>2, <1>4 DEF Reported, Unpushed, Pushed, Answered, Counted
  <2> QED
    BY <1>1, <2>1, <2>2 DEF Reported
<1> QED
  BY <1>3, <1>4 DEF HandleMessages

LEMMA SendsReported ==
    ASSUME IInv, AllReported, NEW n \in Messages, Sends(n)
    PROVE  AllReported'
<1> SUFFICES ASSUME NEW m \in Messages PROVE Reported(m)'
  BY DEF AllReported
<1>1. Reported(m) /\ UNCHANGED handler
  BY DEF AllReported, Sends, sendPush, SendPush, Respond, ReleaseToken
<1>2. \A h \in Handlers : handler[h].pc # "receive" => stage[handler[h].msg] = "handler"
  BY HandlesItsOwn DEF IInv
<1>3. CASE m # n
  <2>1. stage'[m] = stage[m] /\ outcome'[m] = outcome[m] /\ sender'[m] = sender[m]
    BY <1>3 DEF Sends, sendPush, SendPush, Respond, ReleaseToken, IInv, TypeOK
  <2>2. reports'[m] = reports[m]
    BY <1>3, ReportEffect DEF Sends, sendPush, SendPush, Respond, ReleaseToken, IInv, TypeOK
  <2> QED
    BY <1>1, <2>1, <2>2, Unseen
<1>4. CASE m = n /\ SendPush(n)
  <2>1. /\ stage'[m] = stage[m] /\ sender[m] = "push" /\ sender'[m] = "respond"
        /\ outcome'[m] \in {"ok", "error"}
    BY <1>4 DEF SendPush, IInv, TypeOK
  <2>2. /\ reports'[m]["sent"] = reports[m]["sent"] + 1
        /\ \A k \in {"acked", "failed", "feedback"} : reports'[m][k] = reports[m][k]
    <3>1. \A k \in ReportKinds : /\ reports[m][k] \in Nat
                                /\ reports'[m][k] = reports[m][k] + IF k \in {"sent"} THEN 1 ELSE 0
      BY <1>4, ReportEffect DEF SendPush, IInv, TypeOK, PusherTypeOK
    <3> QED
      BY <3>1 DEF ReportKinds
  <2>3. stage[m] = "sender"
    BY <2>1, HandlesItsOwn DEF IInv
  <2>4. Pushed(m)'
    BY <1>1, <2>1, <2>2, <2>3 DEF Reported, Unpushed, Pushed, Counted
  <2>5. \A h \in Handlers : handler[h].msg = m => handler[h].pc \notin {"report", "done"}
    BY <1>2, <2>3
  <2> QED
    BY <1>1, <2>1, <2>3, <2>4, <2>5 DEF Reported
<1>5. CASE m = n /\ Respond(n)
  <2>1. /\ stage'[m] = "responsesChannel" /\ sender[m] = "respond"
        /\ outcome'[m] = outcome[m] /\ reports'[m] = reports[m]
    BY <1>5 DEF Respond, IInv, TypeOK
  <2>2. stage[m] = "sender"
    BY <2>1, HandlesItsOwn DEF IInv
  <2>3. Pushed(m)'
    BY <1>1, <2>1, <2>2 DEF Reported, Pushed, Counted
  <2>4. \A h \in Handlers : handler[h].msg = m => handler[h].pc \notin {"report", "done"}
    BY <1>2, <2>2
  <2> QED
    BY <1>1, <2>1, <2>3, <2>4 DEF Reported
<1>6. CASE m = n /\ ReleaseToken(n)
  <2>1. /\ stage'[m] = stage[m] /\ outcome'[m] = outcome[m] /\ reports'[m] = reports[m]
        /\ stage[m] # "sender"
    BY <1>6 DEF ReleaseToken, IInv, Custody, TokenHolders
  <2>2. /\ Unpushed(m)' <=> Unpushed(m)
        /\ Pushed(m)' <=> Pushed(m)
        /\ Answered(m)' <=> Answered(m)
    BY <2>1 DEF Unpushed, Pushed, Answered, Counted
  <2> QED
    BY <1>1, <2>1, <2>2 DEF Reported
<1> QED
  BY <1>3, <1>4, <1>5, <1>6 DEF Sends, sendPush

LEMMA HandlesReported ==
    ASSUME IInv, AllReported, NEW h \in Handlers, Handles(h)
    PROVE  AllReported'
<1> SUFFICES ASSUME NEW m \in Messages PROVE Reported(m)'
  BY DEF AllReported
<1>1. Reported(m) /\ UNCHANGED <<outcome, sender>>
  BY DEF AllReported, Handles, HandleResponses, ReceiveResponse, ReportResponse, FinishResponse
<1>2. \A g \in Handlers :
        handler[g].pc # "receive"
          => handler[g].msg \in Messages /\ stage[handler[g].msg] = "handler"
  BY HandlesItsOwn DEF IInv
<1>3. handler \in HandlerType /\ stage \in [Messages -> Stages]
  BY DEF IInv, TypeOK, HandlerType
<1>4. \A g \in Handlers \ {h} : handler'[g] = handler[g]
  BY <1>3 DEF Handles, HandleResponses, ReceiveResponse, ReportResponse, FinishResponse,
              HandlerType
<1>5. CASE ReceiveResponse(h)
  <2>1. /\ Head(responsesChannel) \in Messages
        /\ stage[Head(responsesChannel)] = "responsesChannel"
    BY <1>5, HandlesItsOwn DEF ReceiveResponse, IInv
  <2>2. handler'[h].pc = "report" /\ handler'[h].msg = Head(responsesChannel) /\ UNCHANGED reports
    BY <1>3, <1>5 DEF ReceiveResponse, HandlerType
  <2>3. CASE m # Head(responsesChannel)
    <3>1. stage'[m] = stage[m]
      BY <1>3, <1>5, <2>1, <2>3 DEF ReceiveResponse
    <3> QED
      BY <1>1, <1>4, <2>2, <2>3, <3>1, Unseen
  <2>4. CASE m = Head(responsesChannel)
    <3>1. stage'[m] = "handler"
      BY <1>3, <1>5, <2>1, <2>4 DEF ReceiveResponse
    <3>2. Pushed(m)'
      BY <1>1, <2>1, <2>2, <2>4 DEF Reported, Pushed, Counted
    <3>3. \A g \in Handlers \ {h} : handler[g].msg = m => handler[g].pc = "receive"
      BY <1>2, <2>1, <2>4
    <3> QED
      BY <1>4, <2>2, <3>1, <3>2, <3>3 DEF Reported
  <2> QED
    BY <2>3, <2>4
<1>6. CASE ReportResponse(h)
  <2>1. /\ handler[h].pc = "report"
        /\ handler' = [handler EXCEPT ![h] = [handler[h] EXCEPT !.pc = "done"]]
        /\ UNCHANGED stage
    BY <1>6 DEF ReportResponse
  <2>2. /\ handler'[h].pc = "done" /\ handler'[h].msg = handler[h].msg
        /\ handler[h].msg \in Messages /\ stage[handler[h].msg] = "handler"
    BY <1>2, <1>3, <2>1 DEF HandlerType, Goroutine
  <2>3. CASE m # handler[h].msg
    <3>1. reports'[m] = reports[m]
      BY <1>6, <2>2, <2>3, ReportEffect DEF ReportResponse, IInv, TypeOK
    <3> QED
      BY <1>1, <1>4, <2>1, <2>2, <2>3, <3>1, Unseen
  <2>4. CASE m = handler[h].msg
    <3>1. Pushed(m)
      BY <1>1, <2>1, <2>4 DEF Reported
    <3>2. Report(m, IF outcome[m] = "error" THEN {"failed", "feedback"} ELSE {"acked"})
      BY <1>6, <2>4 DEF ReportResponse
    <3>3. /\ reports'[m]["sent"] = reports[m]["sent"]
          /\ outcome[m] = "error" => /\ reports'[m]["acked"] = reports[m]["acked"]
                                     /\ reports'[m]["failed"] = reports[m]["failed"] + 1
                                     /\ reports'[m]["feedback"] = reports[m]["feedback"] + 1
          /\ outcome[m] # "error" => /\ reports'[m]["acked"] = reports[m]["acked"] + 1
                                     /\ reports'[m]["failed"] = reports[m]["failed"]
                                     /\ reports'[m]["feedback"] = reports[m]["feedback"]
      <4>1. \A k \in ReportKinds :
              /\ reports[m][k] \in Nat
              /\ reports'[m][k] =
                   reports[m][k] + IF k \in IF outcome[m] = "error" THEN {"failed", "feedback"}
                                                                  ELSE {"acked"}
                                   THEN 1 ELSE 0
        BY <3>2, ReportEffect DEF IInv, TypeOK, PusherTypeOK
      <4> QED
        BY <4>1 DEF ReportKinds
    <3>4. Answered(m)'
      BY <1>1, <3>1, <3>3 DEF Pushed, Answered, Counted
    <3>5. \A g \in Handlers \ {h} : handler[g].msg = m => handler[g].pc = "receive"
      BY <2>1, <2>4 DEF IInv, Custody, HandlerCustody
    <3> QED
      BY <1>4, <2>1, <2>2, <2>4, <3>4, <3>5 DEF Reported
  <2> QED
    BY <2>3, <2>4
<1>7. CASE FinishResponse(h)
  <2>1. /\ handler[h].pc = "done" /\ handler'[h] = [pc |-> "receive", msg |-> None]
        /\ UNCHANGED reports
    BY <1>3, <1>7 DEF FinishResponse, HandlerType
  <2>2. handler[h].msg \in Messages /\ handler'[h].msg # m
    BY <1>2, <2>1, MessagesAssumption
  <2>3. CASE m # handler[h].msg
    <3>1. stage'[m] = stage[m]
      BY <1>3, <1>7, <2>2, <2>3 DEF FinishResponse
    <3> QED
      BY <1>1, <1>4, <2>1, <2>2, <3>1, Unseen
  <2>4. CASE m = handler[h].msg
    <3>1. stage'[m] = "handled"
      BY <1>3, <1>7, <2>2, <2>4 DEF FinishResponse
    <3>2. Answered(m) /\ Answered(m)'
      BY <1>1, <2>1, <2>4 DEF Reported, Answered, Counted
    <3>3. \A g \in Handlers \ {h} : handler[g].msg = m => handler[g].pc = "receive"
      BY <2>1, <2>4 DEF IInv, Custody, HandlerCustody
    <3> QED
      BY <1>4, <2>1, <3>1, <3>2, <3>3 DEF Reported
  <2> QED
    BY <2>3, <2>4
<1> QED
  BY <1>5, <1>6, <1>7 DEF Handles, HandleResponses

LEMMA StepReported == IInv /\ AllReported /\ [Next]_vars => AllReported'
<1> SUFFICES ASSUME IInv, AllReported, [Next]_vars PROVE AllReported'
  OBVIOUS
<1>1. CASE Step
  BY <1>1, StartReported, HandleMessagesReported, SendsReported, HandlesReported DEF Step
<1>2. CASE UNCHANGED vars
  BY <1>2, Unseen DEF AllReported, vars, pusherVars, handlerVars
<1> QED
  BY <1>1, <1>2 DEF Next, Terminated

\* The wait group lets go of a message that was pushed only after everything was
\* reported of it, so a graceful exit leaves no report behind: nothing between the
\* push and Done is skipped, done twice, or done for another handler's message.
THEOREM ReportsCorrect == Spec => []ReportedWhenDone
<1>1. Spec => []AllReported
  BY InitReported, StepReported, Invariant, PTL DEF Spec
<1> QED
  BY <1>1, ReportedMeans, PTL
=============================================================================
