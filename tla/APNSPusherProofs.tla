-------------------------- MODULE APNSPusherProofs --------------------------
(***************************************************************************)
(* Theorems about the APNs pusher, for every value of its constants: its   *)
(* types, the custody of messages, the count of the wait group, the        *)
(* shutdown, what retries and reports a message gets, that it implements   *)
(* PushDelivery, and when its retries can stall it.                        *)
(*                                                                         *)
(* The argument: with the types, SingleCustody is inductive, for a step    *)
(* either leaves every message where it is or takes one from the place     *)
(* that has it to the next.  So the goroutine that calls Done has the      *)
(* message it calls it for, every step of the handler is a HandlerStep,    *)
(* and the wait group, the shutdown and the refinement follow as           *)
(* PusherProofs has it.  What a message was sent and reported is tied to   *)
(* where it is by an invariant of its own (Progress).                      *)
(***************************************************************************)
EXTENDS APNSPusher, PusherProofs

-----------------------------------------------------------------------------
(* Types                                                                   *)

RouterBusy == {"handle", "pushing", "pushed"}

LEMMA InitType == Init => TypeOK
<1> SUFFICES ASSUME Init PROVE TypeOK
  OBVIOUS
<1>1. /\ WaitGroupTypeOK /\ ConsumerTypeOK /\ PusherTypeOK
      /\ stage \in [Messages -> Stages]
      /\ router \in Goroutine({"receive"}, RouterBusy)
  BY InitPusherType DEF Init, Stages
<1>2. QueueTypeOK
  BY QueueSizesAssumption DEF Init, QueueInit, QueueTypeOK, Goroutine
<1>3. responder \in Goroutine({"receive"}, {"handle", "resend", "report", "feedback"})
  BY DEF Init, Goroutine
<1> QED
  BY <1>1, <1>2, <1>3 DEF TypeOK, RouterBusy

LEMMA APNSStartType ==
    ASSUME TypeOK, Start, UNCHANGED <<queueVars, responder>>
    PROVE  TypeOK'
<1>1. /\ WaitGroupTypeOK' /\ ConsumerTypeOK' /\ PusherTypeOK'
      /\ stage' \in [Messages -> Stages]
      /\ router' \in Goroutine({"receive"}, RouterBusy)
  BY StartType DEF TypeOK, Stages, RouterBusy
<1>2. QueueTypeOK'
  BY DEF TypeOK, QueueTypeOK, queueVars
<1> QED
  BY <1>1, <1>2 DEF TypeOK, RouterBusy

\* Push keeps the type of the queue, whoever calls it.
LEMMA PushType ==
    ASSUME QueueTypeOK, stage \in [Messages -> Stages], NEW m \in Messages, Push(m)
    PROVE  QueueTypeOK' /\ stage' \in [Messages -> Stages]
<1>1. pushChannel' \in Seq(Messages) /\ Len(pushChannel') <= PushQueueSize
  BY SendType, QueueSizesAssumption DEF QueueTypeOK, Push
<1> QED
  BY <1>1 DEF QueueTypeOK, Push, Stages

LEMMA HandleMessagesType ==
    ASSUME TypeOK, HandleMessages
    PROVE  TypeOK'
<1> USE DEF TypeOK, ConsumerTypeOK, PusherTypeOK, Goroutine, Stages, consumerVars
<1>1. CASE Discard
  <2>1. WaitGroupTypeOK'
    BY <1>1, WaitGroupStepType DEF Discard
  <2> QED
    BY <1>1, <2>1 DEF Discard, QueueTypeOK, queueVars
<1>2. CASE SendNotification
  <2>1. router.msg \in Messages /\ router' = [pc |-> "pushing", msg |-> router.msg]
    BY <1>2 DEF SendNotification
  <2>2. QueueTypeOK'
    BY <1>2, <2>1 DEF SendNotification, QueueTypeOK
  <2> QED
    BY <1>2, <2>1, <2>2 DEF SendNotification, WaitGroupTypeOK, waitGroupVars
<1>3. CASE PushNotification
  <2>1. router.msg \in Messages /\ router' = [pc |-> "pushed", msg |-> router.msg]
    BY <1>3 DEF PushNotification
  <2>2. QueueTypeOK' /\ stage' \in [Messages -> Stages]
    BY <1>3, <2>1, PushType DEF PushNotification
  <2> QED
    BY <1>3, <2>1, <2>2 DEF PushNotification, WaitGroupTypeOK, waitGroupVars
<1>4. CASE ReportSent
  <2>1. reports' \in [Messages -> [ReportKinds -> Nat]]
    BY <1>4, ReportType DEF ReportSent
  <2> QED
    BY <1>4, <2>1 DEF ReportSent, WaitGroupTypeOK, waitGroupVars, QueueTypeOK, queueVars
<1> QED
  BY <1>1, <1>2, <1>3, <1>4 DEF HandleMessages

LEMMA PushWorkersType ==
    ASSUME TypeOK, PushWorkers
    PROVE  TypeOK'
<1>1. PICK w \in Workers : pushWorker(w)
  BY DEF PushWorkers
<1>2. QueueTypeOK /\ stage \in [Messages -> Stages]
  BY DEF TypeOK
<1>3. QueueTypeOK' /\ stage' \in [Messages -> Stages]
  <2> USE <1>2 DEF QueueTypeOK, Goroutine, Stages
  <2>1. CASE WorkerTake(w)
    <3>1. /\ Head(pushChannel) \in Messages
          /\ pushChannel' \in Seq(Messages)
          /\ Len(pushChannel') <= PushQueueSize
      BY <2>1, ReceiveType, QueueSizesAssumption DEF WorkerTake
    <3>2. worker' \in [Workers -> Goroutine({"idle"}, {"push", "respond"})]
      BY <2>1, <3>1 DEF WorkerTake
    <3>3. stage' \in [Messages -> Stages]
      BY <2>1, <3>1 DEF WorkerTake
    <3> QED
      BY <2>1, <3>1, <3>2, <3>3 DEF WorkerTake
  <2>2. CASE WorkerAnswer(w)
    <3>1. worker[w].msg \in Messages
      BY <2>2 DEF WorkerAnswer
    <3>2. worker' = [worker EXCEPT ![w] = [worker[w] EXCEPT !.pc = "respond"]]
      BY <2>2 DEF WorkerAnswer
    <3>3. worker' \in [Workers -> Goroutine({"idle"}, {"push", "respond"})]
      BY <3>1, <3>2, SMTT(20)
    <3>4. reason' \in [Messages -> Reasons \cup {None}]
      BY <2>2 DEF WorkerAnswer
    <3> QED
      BY <2>2, <3>3, <3>4 DEF WorkerAnswer
  <2>3. CASE WorkerError(w)
    BY <2>3 DEF WorkerError
  <2>4. CASE WorkerRespond(w)
    <3>1. worker[w].msg \in Messages
      BY <2>4 DEF WorkerRespond
    <3>2. responseChannel' \in Seq(Messages) /\ Len(responseChannel') <= ResponseChannelSize
      BY <2>4, <3>1, SendType, QueueSizesAssumption DEF WorkerRespond
    <3> QED
      BY <2>4, <3>1, <3>2 DEF WorkerRespond
  <2> QED
    BY <1>1, <2>1, <2>2, <2>3, <2>4 DEF pushWorker
<1> QED
  BY <1>3 DEF TypeOK, PushWorkers, WaitGroupTypeOK, ConsumerTypeOK, PusherTypeOK,
              waitGroupVars, consumerVars, pusherVars

LEMMA HandleResponsesType ==
    ASSUME TypeOK, HandleResponses
    PROVE  TypeOK'
<1> USE DEF TypeOK, ConsumerTypeOK, PusherTypeOK, Goroutine, Stages, consumerVars
<1>1. CASE ReceiveResponse
  <2>1. /\ Head(responseChannel) \in Messages
        /\ responseChannel' \in Seq(Messages)
        /\ Len(responseChannel') <= ResponseChannelSize
    BY <1>1, ReceiveType, QueueSizesAssumption DEF ReceiveResponse, QueueTypeOK
  <2>2. QueueTypeOK' /\ stage' \in [Messages -> Stages]
    BY <1>1, <2>1 DEF ReceiveResponse, QueueTypeOK
  <2> QED
    BY <1>1, <2>1, <2>2 DEF ReceiveResponse, WaitGroupTypeOK, waitGroupVars, pusherVars
<1>2. CASE Retry
  <2>1. responder.msg \in Messages /\ responder' = [pc |-> "resend", msg |-> responder.msg]
    BY <1>2 DEF Retry
  <2>2. QueueTypeOK'
    BY <1>2, <2>1 DEF Retry, QueueTypeOK
  <2> QED
    BY <1>2, <2>1, <2>2 DEF Retry, WaitGroupTypeOK, waitGroupVars, pusherVars
<1>3. CASE Resend
  <2>1. QueueTypeOK' /\ stage' \in [Messages -> Stages]
    BY <1>3, PushType DEF Resend
  <2> QED
    BY <1>3, <2>1 DEF Resend, WaitGroupTypeOK, waitGroupVars, pusherVars
<1>4. CASE FinishResponse
  <2>1. WaitGroupTypeOK'
    BY <1>4, WaitGroupStepType DEF FinishResponse
  <2>2. responder' = [pc |-> "report", msg |-> responder.msg]
    BY <1>4 DEF FinishResponse
  <2> QED
    BY <1>4, <2>1, <2>2 DEF FinishResponse, QueueTypeOK, queueVars, pusherVars
<1>5. CASE ReportSuccess
  <2>1. reports' \in [Messages -> [ReportKinds -> Nat]]
    BY <1>5, ReportType DEF ReportSuccess
  <2> QED
    BY <1>5, <2>1 DEF ReportSuccess, WaitGroupTypeOK, waitGroupVars, QueueTypeOK, queueVars
<1>6. CASE ReportFailure
  <2>1. reports' \in [Messages -> [ReportKinds -> Nat]]
    BY <1>6, ReportType DEF ReportFailure
  <2>2. responder' = [pc |-> "feedback", msg |-> responder.msg]
    BY <1>6 DEF ReportFailure
  <2> QED
    BY <1>6, <2>1, <2>2 DEF ReportFailure, WaitGroupTypeOK, waitGroupVars, QueueTypeOK, queueVars
<1>7. CASE SendFeedback
  <2>1. reports' \in [Messages -> [ReportKinds -> Nat]]
    BY <1>7, ReportType DEF SendFeedback
  <2> QED
    BY <1>7, <2>1 DEF SendFeedback, WaitGroupTypeOK, waitGroupVars, QueueTypeOK, queueVars
<1> QED
  BY <1>1, <1>2, <1>3, <1>4, <1>5, <1>6, <1>7 DEF HandleResponses

\* Channels stay within their capacities, a goroutine has a message exactly at
\* the control points where the code does, and all state has its type.
THEOREM TypeCorrect == Spec => []TypeOK
<1>1. TypeOK /\ [Next]_vars => TypeOK'
  <2> SUFFICES ASSUME TypeOK, [Next]_vars PROVE TypeOK'
    OBVIOUS
  <2>1. CASE Start /\ UNCHANGED <<queueVars, responder>>
    BY <2>1, APNSStartType
  <2>2. CASE HandleMessages
    BY <2>2, HandleMessagesType
  <2>3. CASE PushWorkers
    BY <2>3, PushWorkersType
  <2>4. CASE HandleResponses
    BY <2>4, HandleResponsesType
  <2>5. CASE UNCHANGED vars
    BY <2>5 DEF vars, TypeOK, WaitGroupTypeOK, ConsumerTypeOK, PusherTypeOK, QueueTypeOK,
                waitGroupVars, consumerVars, pusherVars, queueVars
  <2> QED
    BY <2>1, <2>2, <2>3, <2>4, <2>5 DEF Next, Step, Terminated
<1> QED
  BY <1>1, InitType, PTL DEF Spec

-----------------------------------------------------------------------------
(* Custody                                                                 *)

LEMMA InitCustody == Init => SingleCustody
<1> SUFFICES ASSUME Init PROVE SingleCustody
  OBVIOUS
<1>1. \A t : t # "unread" => At(t) = {}
  BY DEF Init, ConsumerInit, At
<1> QED
  BY <1>1, EmptySet
     DEF Init, ConsumerInit, PusherInit, QueueInit, SingleCustody, ConsumerCustody,
         RouterCustody, WorkerCustody, ResponderCustody, Carries

\* A step of the handler that moves no message.
LEMMA StayCustody ==
    ASSUME TypeOK, SingleCustody, 
           UNCHANGED <<stage, consumer, msgChan, pushChannel, responseChannel>>,
           router' = router \/ SendNotification \/ ReportSent,
           worker' = worker \/ \E w \in Workers : WorkerAnswer(w),
           responder' = responder \/ Retry \/ ReportSuccess \/ ReportFailure \/ SendFeedback
    PROVE  SingleCustody'
<1>1. \A t : At(t)' = At(t)
  BY Stay
<1>2. /\ Carries(msgChan, "msgChan")'
      /\ Carries(pushChannel, "pushChannel")'
      /\ Carries(responseChannel, "responseChannel")'
  BY <1>1 DEF SingleCustody, Carries
<1>3. ConsumerCustody'
  BY <1>1 DEF SingleCustody, ConsumerCustody
<1>4. RouterCustody'
  <2>1. \/ UNCHANGED router
        \/ /\ router.pc \in {"handle", "pushing"} /\ router'.pc \in {"handle", "pushing"}
           /\ router'.msg = router.msg
        \/ router.pc = "pushed" /\ router'.pc = "receive"
    BY DEF TypeOK, Goroutine, SendNotification, ReportSent
  <2> QED
    BY <1>1, <2>1 DEF SingleCustody, RouterCustody
<1>5. WorkerCustody'
  <2>1. ASSUME NEW v \in Workers, WorkerAnswer(v)
        PROVE  \A w \in Workers : /\ worker'[w].pc # "idle" <=> worker[w].pc # "idle"
                                 /\ worker'[w].msg = worker[w].msg
    <3>1. worker \in [Workers -> Goroutine({"idle"}, {"push", "respond"})]
      BY DEF TypeOK, QueueTypeOK
    <3>2. /\ worker[v].pc = "push"
          /\ worker' = [worker EXCEPT ![v] = [worker[v] EXCEPT !.pc = "respond"]]
      BY <2>1 DEF WorkerAnswer
    <3> QED
      BY <3>1, <3>2 DEF Goroutine
  <2>2. \A w \in Workers : /\ worker'[w].pc # "idle" <=> worker[w].pc # "idle"
                           /\ worker'[w].msg = worker[w].msg
    BY <2>1
  <2> QED
    BY <1>1, <2>2 DEF SingleCustody, WorkerCustody
<1>6. ResponderCustody'
  <2>1. \/ UNCHANGED responder
        \/ /\ responder.pc \in {"handle", "resend"} /\ responder'.pc \in {"handle", "resend"}
           /\ responder'.msg = responder.msg
        \/ responder.pc \notin {"handle", "resend"} /\ responder'.pc \notin {"handle", "resend"}
    BY DEF TypeOK, Goroutine, Retry, ReportSuccess, ReportFailure, SendFeedback
  <2> QED
    BY <1>1, <2>1 DEF SingleCustody, ResponderCustody
<1> QED
  BY <1>2, <1>3, <1>4, <1>5, <1>6 DEF SingleCustody

\* What a step from stage a to stage b leaves alone.
LEMMA Untouched ==
    ASSUME SingleCustody, NEW a, NEW b, \A t : t \notin {a, b} => At(t)' = At(t)
    PROVE  /\ "consumer" \notin {a, b} /\ UNCHANGED consumer => ConsumerCustody'
           /\ "msgChan" \notin {a, b} /\ UNCHANGED msgChan => Carries(msgChan, "msgChan")'
           /\ "router" \notin {a, b} /\ UNCHANGED router => RouterCustody'
           /\ "pushChannel" \notin {a, b} /\ UNCHANGED pushChannel
                => Carries(pushChannel, "pushChannel")'
           /\ "worker" \notin {a, b} /\ UNCHANGED worker => WorkerCustody'
           /\ "responseChannel" \notin {a, b} /\ UNCHANGED responseChannel
                => Carries(responseChannel, "responseChannel")'
           /\ "responder" \notin {a, b} /\ UNCHANGED responder => ResponderCustody'
<1> USE DEF SingleCustody
<1>1. "consumer" \notin {a, b} /\ UNCHANGED consumer => ConsumerCustody'
  BY DEF ConsumerCustody
<1>2. "msgChan" \notin {a, b} /\ UNCHANGED msgChan => Carries(msgChan, "msgChan")'
  BY DEF Carries
<1>3. "router" \notin {a, b} /\ UNCHANGED router => RouterCustody'
  BY DEF RouterCustody
<1>4. "pushChannel" \notin {a, b} /\ UNCHANGED pushChannel
        => Carries(pushChannel, "pushChannel")'
  BY DEF Carries
<1>5. "worker" \notin {a, b} /\ UNCHANGED worker => WorkerCustody'
  BY DEF WorkerCustody
<1>6. "responseChannel" \notin {a, b} /\ UNCHANGED responseChannel
        => Carries(responseChannel, "responseChannel")'
  BY DEF Carries
<1>7. "responder" \notin {a, b} /\ UNCHANGED responder => ResponderCustody'
  BY DEF ResponderCustody
<1> QED
  BY <1>1, <1>2, <1>3, <1>4, <1>5, <1>6, <1>7

LEMMA APNSStartCustody ==
    ASSUME TypeOK, SingleCustody, Start, UNCHANGED <<queueVars, responder>>
    PROVE  SingleCustody'
<1>1. ReadCustody /\ RouterHas({"handle", "pushing"})
  BY DEF SingleCustody, ConsumerCustody, Carries, RouterCustody, ReadCustody, RouterHas
<1>2. /\ ReadCustody' /\ RouterHas({"handle", "pushing"})'
      /\ \A t : t \notin {"unread", "consumer", "msgChan", "router", "lost"} => At(t)' = At(t)
  BY <1>1, StartCustody DEF TypeOK
<1>3. ConsumerCustody' /\ Carries(msgChan, "msgChan")' /\ RouterCustody'
  BY <1>2 DEF ConsumerCustody, Carries, RouterCustody, ReadCustody, RouterHas
<1>4. /\ Carries(pushChannel, "pushChannel")' /\ WorkerCustody'
      /\ Carries(responseChannel, "responseChannel")' /\ ResponderCustody'
  BY <1>2 DEF SingleCustody, Carries, WorkerCustody, ResponderCustody, queueVars
<1> QED
  BY <1>3, <1>4 DEF SingleCustody

LEMMA DiscardCustody ==
    ASSUME TypeOK, SingleCustody, Discard
    PROVE  SingleCustody'
<1>1. PICK m \in Messages : m = router.msg
  BY DEF Discard, TypeOK, Goroutine
<1>2. /\ stage[m] = "router" /\ stage' = [stage EXCEPT ![m] = "handled"]
      /\ router.pc = "handle" /\ router' = [pc |-> "receive", msg |-> None]
      /\ UNCHANGED <<consumer, msgChan, pushChannel, worker, responseChannel, responder>>
  BY <1>1 DEF Discard, SingleCustody, RouterCustody, At, consumerVars, queueVars
<1>3. /\ At("router")' = At("router") \ {m}
      /\ \A t : t \notin {"router", "handled"} => At(t)' = At(t)
  BY <1>2, Move DEF TypeOK
<1>4. RouterCustody'
  BY <1>1, <1>2, <1>3 DEF SingleCustody, RouterCustody
<1> QED
  BY <1>2, <1>3, <1>4, Untouched DEF SingleCustody

LEMMA PushNotificationCustody ==
    ASSUME TypeOK, SingleCustody, PushNotification
    PROVE  SingleCustody'
<1>1. PICK m \in Messages : m = router.msg
  BY DEF PushNotification, TypeOK, Goroutine
<1>2. /\ stage[m] = "router" /\ stage' = [stage EXCEPT ![m] = "pushChannel"]
      /\ router.pc = "pushing" /\ router'.pc = "pushed"
      /\ pushChannel' = Append(pushChannel, m)
      /\ UNCHANGED <<consumer, msgChan, worker, responseChannel, responder>>
  BY <1>1 DEF PushNotification, Push, SingleCustody, RouterCustody, At, consumerVars,
              TypeOK, Goroutine
<1>3. /\ At("router")' = At("router") \ {m}
      /\ At("pushChannel")' = At("pushChannel") \cup {m}
      /\ \A t : t \notin {"router", "pushChannel"} => At(t)' = At(t)
  BY <1>2, Move DEF TypeOK
<1>4. RouterCustody'
  BY <1>1, <1>2, <1>3 DEF SingleCustody, RouterCustody
<1>5. Carries(pushChannel, "pushChannel")'
  BY <1>2, ChannelGains DEF SingleCustody, Carries, TypeOK, QueueTypeOK
<1> QED
  BY <1>2, <1>3, <1>4, <1>5, Untouched DEF SingleCustody

LEMMA WorkerTakeCustody ==
    ASSUME TypeOK, SingleCustody, NEW w \in Workers, WorkerTake(w),
           UNCHANGED <<consumerVars, pusherVars, responder>>
    PROVE  SingleCustody'
<1>1. PICK m \in Messages : m = Head(pushChannel)
  BY ReceiveType DEF WorkerTake, TypeOK, QueueTypeOK
<1>2. /\ IsInjective(Tail(pushChannel)) /\ ToSet(Tail(pushChannel)) = At("pushChannel") \ {m}
      /\ m \in At("pushChannel")
  BY <1>1, ReceiveSet DEF WorkerTake, SingleCustody, Carries, TypeOK, QueueTypeOK
<1>3. /\ stage[m] = "pushChannel" /\ stage' = [stage EXCEPT ![m] = "worker"]
      /\ worker[w].pc = "idle" /\ worker' = [worker EXCEPT ![w] = [pc |-> "push", msg |-> m]]
      /\ pushChannel' = Tail(pushChannel)
      /\ UNCHANGED <<consumer, msgChan, router, responseChannel, responder>>
  BY <1>1, <1>2 DEF WorkerTake, At, consumerVars, pusherVars
<1>4. /\ At("pushChannel")' = At("pushChannel") \ {m}
      /\ At("worker")' = At("worker") \cup {m} /\ m \notin At("worker")
      /\ \A t : t \notin {"pushChannel", "worker"} => At(t)' = At(t)
  BY <1>3, Move DEF TypeOK
<1>5. Carries(pushChannel, "pushChannel")'
  BY <1>2, <1>3, <1>4 DEF Carries
<1>6. WorkerCustody'
  <2>1. /\ worker'[w] = [pc |-> "push", msg |-> m]
        /\ \A v \in Workers \ {w} : worker'[v] = worker[v]
    BY <1>3 DEF TypeOK, QueueTypeOK
  <2> QED
    BY <1>3, <1>4, <2>1 DEF SingleCustody, WorkerCustody
<1> QED
  BY <1>3, <1>4, <1>5, <1>6, Untouched DEF SingleCustody

LEMMA WorkerErrorCustody ==
    ASSUME TypeOK, SingleCustody, NEW w \in Workers, WorkerError(w),
           UNCHANGED <<consumerVars, pusherVars, responder>>
    PROVE  SingleCustody'
<1>1. PICK m \in Messages : m = worker[w].msg
  BY DEF WorkerError, TypeOK, QueueTypeOK, Goroutine
<1>2. /\ stage[m] = "worker" /\ stage' = [stage EXCEPT ![m] = "lost"]
      /\ worker[w].pc # "idle" /\ worker' = [worker EXCEPT ![w] = [pc |-> "idle", msg |-> None]]
      /\ UNCHANGED <<consumer, msgChan, router, pushChannel, responseChannel, responder>>
  BY <1>1 DEF WorkerError, SingleCustody, WorkerCustody, At, consumerVars, pusherVars
<1>3. /\ At("worker")' = At("worker") \ {m}
      /\ \A t : t \notin {"worker", "lost"} => At(t)' = At(t)
  BY <1>2, Move DEF TypeOK
<1>4. WorkerCustody'
  <2>1. /\ worker'[w] = [pc |-> "idle", msg |-> None]
        /\ \A v \in Workers \ {w} : worker'[v] = worker[v]
    BY <1>2 DEF TypeOK, QueueTypeOK
  <2> QED
    BY <1>1, <1>2, <1>3, <2>1 DEF SingleCustody, WorkerCustody
<1> QED
  BY <1>2, <1>3, <1>4, Untouched DEF SingleCustody

LEMMA WorkerRespondCustody ==
    ASSUME TypeOK, SingleCustody, NEW w \in Workers, WorkerRespond(w),
           UNCHANGED <<consumerVars, pusherVars, responder>>
    PROVE  SingleCustody'
<1>1. PICK m \in Messages : m = worker[w].msg
  BY DEF WorkerRespond, TypeOK, QueueTypeOK, Goroutine
<1>2. /\ stage[m] = "worker" /\ stage' = [stage EXCEPT ![m] = "responseChannel"]
      /\ worker[w].pc # "idle" /\ worker' = [worker EXCEPT ![w] = [pc |-> "idle", msg |-> None]]
      /\ responseChannel' = Append(responseChannel, m)
      /\ UNCHANGED <<consumer, msgChan, router, pushChannel, responder>>
  BY <1>1 DEF WorkerRespond, SingleCustody, WorkerCustody, At, consumerVars, pusherVars
<1>3. /\ At("worker")' = At("worker") \ {m}
      /\ At("responseChannel")' = At("responseChannel") \cup {m}
     
      /\ \A t : t \notin {"worker", "responseChannel"} => At(t)' = At(t)
  BY <1>2, Move DEF TypeOK
<1>4. WorkerCustody'
  <2>1. /\ worker'[w] = [pc |-> "idle", msg |-> None]
        /\ \A v \in Workers \ {w} : worker'[v] = worker[v]
    BY <1>2 DEF TypeOK, QueueTypeOK
  <2> QED
    BY <1>1, <1>2, <1>3, <2>1 DEF SingleCustody, WorkerCustody
<1>5. Carries(responseChannel, "responseChannel")'
  BY <1>2, ChannelGains DEF SingleCustody, Carries, TypeOK, QueueTypeOK
<1> QED
  BY <1>2, <1>3, <1>4, <1>5, Untouched DEF SingleCustody

LEMMA ReceiveResponseCustody ==
    ASSUME TypeOK, SingleCustody, ReceiveResponse
    PROVE  SingleCustody'
<1>1. PICK m \in Messages : m = Head(responseChannel)
  BY ReceiveType DEF ReceiveResponse, TypeOK, QueueTypeOK
<1>2. /\ IsInjective(Tail(responseChannel))
      /\ ToSet(Tail(responseChannel)) = At("responseChannel") \ {m}
      /\ m \in At("responseChannel")
  BY <1>1, ReceiveSet DEF ReceiveResponse, SingleCustody, Carries, TypeOK, QueueTypeOK
<1>3. /\ stage[m] = "responseChannel" /\ stage' = [stage EXCEPT ![m] = "responder"]
      /\ responder.pc = "receive" /\ responder' = [pc |-> "handle", msg |-> m]
      /\ responseChannel' = Tail(responseChannel)
      /\ UNCHANGED <<consumer, msgChan, router, pushChannel, worker>>
  BY <1>1, <1>2 DEF ReceiveResponse, At, consumerVars, pusherVars
<1>4. /\ At("responseChannel")' = At("responseChannel") \ {m}
      /\ At("responder")' = At("responder") \cup {m}
      /\ \A t : t \notin {"responseChannel", "responder"} => At(t)' = At(t)
  BY <1>3, Move DEF TypeOK
<1>5. Carries(responseChannel, "responseChannel")'
  BY <1>2, <1>3, <1>4 DEF Carries
<1>6. ResponderCustody'
  BY <1>3, <1>4 DEF SingleCustody, ResponderCustody
<1> QED
  BY <1>3, <1>4, <1>5, <1>6, Untouched DEF SingleCustody

LEMMA ResendCustody ==
    ASSUME TypeOK, SingleCustody, Resend
    PROVE  SingleCustody'
<1>1. PICK m \in Messages : m = responder.msg
  BY DEF Resend, TypeOK, Goroutine
<1>2. /\ stage[m] = "responder" /\ stage' = [stage EXCEPT ![m] = "pushChannel"]
      /\ responder.pc = "resend" /\ responder' = [pc |-> "receive", msg |-> None]
      /\ pushChannel' = Append(pushChannel, m)
      /\ UNCHANGED <<consumer, msgChan, router, worker, responseChannel>>
  BY <1>1 DEF Resend, Push, SingleCustody, ResponderCustody, At, consumerVars, pusherVars
<1>3. /\ At("responder")' = At("responder") \ {m}
      /\ At("pushChannel")' = At("pushChannel") \cup {m}
      /\ \A t : t \notin {"responder", "pushChannel"} => At(t)' = At(t)
  BY <1>2, Move DEF TypeOK
<1>4. ResponderCustody'
  BY <1>1, <1>2, <1>3 DEF SingleCustody, ResponderCustody
<1>5. Carries(pushChannel, "pushChannel")'
  BY <1>2, ChannelGains DEF SingleCustody, Carries, TypeOK, QueueTypeOK
<1> QED
  BY <1>2, <1>3, <1>4, <1>5, Untouched DEF SingleCustody

LEMMA FinishResponseCustody ==
    ASSUME TypeOK, SingleCustody, FinishResponse
    PROVE  SingleCustody'
<1>1. PICK m \in Messages : m = responder.msg
  BY DEF FinishResponse, TypeOK, Goroutine
<1>2. /\ stage[m] = "responder" /\ stage' = [stage EXCEPT ![m] = "handled"]
      /\ responder.pc = "handle" /\ responder'.pc = "report"
      /\ UNCHANGED <<consumer, msgChan, router, pushChannel, worker, responseChannel>>
  BY <1>1 DEF FinishResponse, SingleCustody, ResponderCustody, At, consumerVars, pusherVars,
              queueVars, TypeOK, Goroutine
<1>3. /\ At("responder")' = At("responder") \ {m}
      /\ \A t : t \notin {"responder", "handled"} => At(t)' = At(t)
  BY <1>2, Move DEF TypeOK
<1>4. ResponderCustody'
  BY <1>1, <1>2, <1>3 DEF SingleCustody, ResponderCustody
<1> QED
  BY <1>2, <1>3, <1>4, Untouched DEF SingleCustody

LEMMA HandleMessagesCustody ==
    ASSUME TypeOK, SingleCustody, HandleMessages
    PROVE  SingleCustody'
<1>1. CASE Discard
  BY <1>1, DiscardCustody
<1>2. CASE SendNotification
  BY <1>2, StayCustody DEF SendNotification, consumerVars
<1>3. CASE PushNotification
  BY <1>3, PushNotificationCustody
<1>4. CASE ReportSent
  BY <1>4, StayCustody DEF ReportSent, consumerVars, queueVars
<1> QED
  BY <1>1, <1>2, <1>3, <1>4 DEF HandleMessages

LEMMA PushWorkersCustody ==
    ASSUME TypeOK, SingleCustody, PushWorkers
    PROVE  SingleCustody'
<1>1. PICK w \in Workers : pushWorker(w)
  BY DEF PushWorkers
<1>2. UNCHANGED <<consumerVars, pusherVars, responder>>
  BY DEF PushWorkers
<1>3. CASE WorkerTake(w)
  BY <1>2, <1>3, WorkerTakeCustody
<1>4. CASE WorkerAnswer(w)
  BY <1>2, <1>4, StayCustody DEF WorkerAnswer, consumerVars, pusherVars
<1>5. CASE WorkerError(w)
  BY <1>2, <1>5, WorkerErrorCustody
<1>6. CASE WorkerRespond(w)
  BY <1>2, <1>6, WorkerRespondCustody
<1> QED
  BY <1>1, <1>3, <1>4, <1>5, <1>6 DEF pushWorker

LEMMA HandleResponsesCustody ==
    ASSUME TypeOK, SingleCustody, HandleResponses
    PROVE  SingleCustody'
<1>1. CASE ReceiveResponse
  BY <1>1, ReceiveResponseCustody
<1>2. CASE Resend
  BY <1>2, ResendCustody
<1>3. CASE FinishResponse
  BY <1>3, FinishResponseCustody
<1>4. CASE Retry
  BY <1>4, StayCustody DEF Retry, consumerVars, pusherVars
<1>5. CASE ReportSuccess \/ ReportFailure \/ SendFeedback
  BY <1>5, StayCustody DEF ReportSuccess, ReportFailure, SendFeedback, consumerVars, queueVars
<1> QED
  BY <1>1, <1>2, <1>3, <1>4, <1>5 DEF HandleResponses

LEMMA StepCustody == TypeOK /\ SingleCustody /\ [Next]_vars => SingleCustody'
<1> SUFFICES ASSUME TypeOK, SingleCustody, [Next]_vars PROVE SingleCustody'
  OBVIOUS
<1>1. CASE Step
  BY <1>1, APNSStartCustody, HandleMessagesCustody, PushWorkersCustody, HandleResponsesCustody
     DEF Step
<1>2. CASE UNCHANGED vars
  BY <1>2, StayCustody DEF vars, consumerVars, pusherVars, queueVars
<1> QED
  BY <1>1, <1>2 DEF Next, Terminated

\* At every moment each message that was read from the broker is held by exactly
\* one goroutine or channel of the pusher, or is handled, or is lost.
THEOREM CustodyCorrect == Spec => []SingleCustody
  BY InitCustody, StepCustody, TypeCorrect, PTL DEF Spec

-----------------------------------------------------------------------------
(* The wait group, the shutdown and the refinement                         *)

LEMMA APNSPusherOK ==
    ASSUME TypeOK, SingleCustody
    PROVE  PusherOK(Stages, RouterBusy, {"handle", "pushing"})
  BY DEF TypeOK, SingleCustody, ConsumerCustody, Carries, RouterCustody, PusherOK, RouterBusy,
         ReadCustody, RouterHas

\* Who calls Done, or passes a message on, has it.
LEMMA HandlesItsOwn ==
    ASSUME TypeOK, SingleCustody
    PROVE  /\ router.pc \in {"handle", "pushing"}
                => router.msg \in Messages /\ stage[router.msg] = "router"
           /\ responder.pc \in {"handle", "resend"}
                => responder.msg \in Messages /\ stage[responder.msg] = "responder"
           /\ \A w \in Workers :
                worker[w].pc # "idle"
                  => worker[w].msg \in Messages /\ stage[worker[w].msg] = "worker"
           /\ pushChannel # << >>
                => Head(pushChannel) \in Messages /\ stage[Head(pushChannel)] = "pushChannel"
           /\ responseChannel # << >>
                => /\ Head(responseChannel) \in Messages
                   /\ stage[Head(responseChannel)] = "responseChannel"
<1>1. router.pc \in {"handle", "pushing"}
        => router.msg \in Messages /\ stage[router.msg] = "router"
  BY DEF TypeOK, Goroutine, SingleCustody, RouterCustody, At
<1>2. responder.pc \in {"handle", "resend"}
        => responder.msg \in Messages /\ stage[responder.msg] = "responder"
  BY DEF TypeOK, Goroutine, SingleCustody, ResponderCustody, At
<1>3. ASSUME NEW w \in Workers, worker[w].pc # "idle"
      PROVE  worker[w].msg \in Messages /\ stage[worker[w].msg] = "worker"
  <2>1. worker[w].msg \in Messages
    BY <1>3 DEF TypeOK, QueueTypeOK, Goroutine
  <2> QED
    BY <1>3, <2>1 DEF SingleCustody, WorkerCustody, At
<1>4. pushChannel # << >>
        => Head(pushChannel) \in Messages /\ stage[Head(pushChannel)] = "pushChannel"
  BY ReceiveSet DEF TypeOK, QueueTypeOK, SingleCustody, Carries, At
<1>5. responseChannel # << >>
        => /\ Head(responseChannel) \in Messages
           /\ stage[Head(responseChannel)] = "responseChannel"
  BY ReceiveSet DEF TypeOK, QueueTypeOK, SingleCustody, Carries, At
<1> QED
  BY <1>1, <1>2, <1>3, <1>4, <1>5

LEMMA StepIsPusherStep ==
    ASSUME TypeOK, SingleCustody, Step
    PROVE  PusherStep
<1> USE HandlesItsOwn DEF HandlerStep
<1>1. CASE Discard
  BY <1>1 DEF Discard, consumerVars, PusherStep
<1>2. CASE PushNotification
  BY <1>2 DEF PushNotification, Push, consumerVars, PusherStep
<1>3. CASE SendNotification \/ ReportSent \/ Retry \/ ReportSuccess \/ ReportFailure
             \/ SendFeedback
  BY <1>3 DEF SendNotification, ReportSent, Retry, ReportSuccess, ReportFailure, SendFeedback,
              consumerVars, pusherVars, PusherStep
<1>4. CASE ReceiveResponse
  BY <1>4 DEF ReceiveResponse, consumerVars, pusherVars, PusherStep
<1>5. CASE Resend
  BY <1>5 DEF Resend, Push, consumerVars, pusherVars, PusherStep
<1>6. CASE FinishResponse
  BY <1>6 DEF FinishResponse, consumerVars, pusherVars, PusherStep
<1>7. CASE PushWorkers
  <2>1. PICK w \in Workers : pushWorker(w)
    BY <1>7 DEF PushWorkers
  <2>2. UNCHANGED <<waitGroupVars, consumer, stopChannel, main>>
    BY <1>7 DEF PushWorkers, consumerVars, pusherVars
  <2>3. CASE WorkerTake(w)
    BY <2>2, <2>3 DEF WorkerTake, PusherStep
  <2>4. CASE WorkerAnswer(w)
    BY <2>2, <2>4 DEF WorkerAnswer, PusherStep
  <2>5. CASE WorkerError(w)
    BY <2>2, <2>5 DEF WorkerError, PusherStep
  <2>6. CASE WorkerRespond(w)
    BY <2>2, <2>6 DEF WorkerRespond, PusherStep
  <2> QED
    BY <2>1, <2>3, <2>4, <2>5, <2>6 DEF pushWorker
<1> QED
  BY <1>1, <1>2, <1>3, <1>4, <1>5, <1>6, <1>7
     DEF Step, HandleMessages, HandleResponses, PusherStep

LEMMA StepCountShutdown ==
    TypeOK /\ SingleCustody /\ PendingExact /\ ShutdownOrder /\ [Next]_vars
      => PendingExact' /\ ShutdownOrder'
<1> SUFFICES ASSUME TypeOK, SingleCustody, PendingExact, ShutdownOrder, [Next]_vars
             PROVE  PendingExact' /\ ShutdownOrder'
  OBVIOUS
<1>1. ASSUME Alive, Step
      PROVE  PendingExact' /\ ShutdownOrder'
  BY <1>1, APNSPusherOK, StepIsPusherStep, StepCount, StepShutdown
<1>2. CASE UNCHANGED vars
  BY <1>2, StayShutdown DEF vars, waitGroupVars, consumerVars, pusherVars
<1> QED
  BY <1>1, <1>2 DEF Next, Terminated

LEMMA CountShutdown == Spec => [](PendingExact /\ ShutdownOrder)
<1>1. Init => PendingExact /\ ShutdownOrder
  BY InitCount, InitShutdown DEF Init
<1> QED
  BY <1>1, StepCountShutdown, TypeCorrect, CustodyCorrect, PTL DEF Spec

\* At every moment the pending wait group counts exactly the messages that were
\* added to it and not yet handled, lost ones included: Done is called exactly
\* once for each message that is handled.
THEOREM PendingCorrect == Spec => []PendingExact
  BY CountShutdown, PTL

\* The shutdown keeps its order: stopChannel is closed before the wait group is
\* waited on, and once it is found to be zero the consumer can make at most one
\* message more pending.
THEOREM ShutdownCorrect == Spec => []ShutdownOrder
  BY CountShutdown, PTL

\* A graceful exit leaves at most one of the messages that were read behind,
\* however many there are, however small the channels and however many workers.
THEOREM GracefulExitCorrect == Spec => []GracefulExitLosesAtMostOne
  BY ShutdownCorrect, OrderBoundsLoss, PTL

LEMMA StepImplements ==
    TypeOK /\ SingleCustody /\ PendingExact /\ ShutdownOrder /\ [Next]_vars
      => [Delivery!Next]_(Delivery!vars)
<1> SUFFICES ASSUME TypeOK, SingleCustody, PendingExact, ShutdownOrder, [Next]_vars
             PROVE  [Delivery!Next]_(Delivery!vars)
  OBVIOUS
<1>1. ASSUME Alive, Step
      PROVE  [Delivery!Next]_(Delivery!vars)
  BY <1>1, APNSPusherOK, StepIsPusherStep, StepDelivers
<1>2. CASE UNCHANGED vars
  BY <1>2, StayDelivers DEF vars, consumerVars, pusherVars
<1> QED
  BY <1>1, <1>2 DEF Next, Terminated

\* The APNs pusher implements PushDelivery: whatever the retries, the two goroutines
\* that push and the answers out of order, a message is read once, settled at most
\* once and never after it was lost, and the exit means what it says.
THEOREM DeliveryCorrect == Spec => ImplementsDelivery
<1>1. Init => Delivery!Init
  BY InitDelivery DEF Init
<1> QED
  BY <1>1, StepImplements, TypeCorrect, CustodyCorrect, CountShutdown, PTL
     DEF Spec, ImplementsDelivery, Delivery!Spec

-----------------------------------------------------------------------------
(* Retries and reports                                                     *)

Reporting(m) == responder.pc \in {"report", "feedback"} /\ responder.msg = m

Untried(m) ==
    \/ stage[m] \in {"unread", "consumer", "msgChan"}
    \/ router.pc = "handle" /\ router.msg = m

Tried(m) ==
    \/ stage[m] \in {"pushChannel", "worker", "responseChannel", "responder"}
    \/ router.pc \in {"pushing", "pushed"} /\ router.msg = m
    \/ Reporting(m)

Unsent(m) ==
    \/ stage[m] \in {"unread", "consumer", "msgChan", "router"}
    \/ router.pc = "pushed" /\ router.msg = m

\* How often a message was sent, by where it is: never before the router has
\* handled it, and at least once from then on.
Progress(m) ==
    /\ Untried(m) => attempts[m] = 0
    /\ Tried(m) => attempts[m] > 0
    /\ router.pc = "pushed" /\ router.msg = m
         => stage[m] \notin {"unread", "consumer", "msgChan", "router"}
    /\ Reporting(m) => stage[m] = "handled"
    /\ responder.pc = "report" /\ responder.msg = m /\ reason[m] = TooManyRequests
         => attempts[m] >= MaxRetryAttempts

\* The router reports a message as sent once, after it was pushed.
SentOnce(m) ==
    /\ reports[m]["sent"] <= IF attempts[m] = 0 THEN 0 ELSE 1
    /\ Unsent(m) => reports[m]["sent"] = 0

\* RetriesBounded and ReportsExact say this of each message.
Retried(m) ==
    /\ attempts[m] <= IF MaxRetryAttempts = 0 THEN 1 ELSE MaxRetryAttempts
    /\ reports[m]["failed"] > 0 /\ reason[m] = TooManyRequests
         => attempts[m] >= MaxRetryAttempts

Answered(m) ==
    /\ reports[m]["acked"] + reports[m]["failed"] =
         IF /\ stage[m] = "handled" /\ attempts[m] > 0
            /\ ~(responder.pc = "report" /\ responder.msg = m)
         THEN 1 ELSE 0
    /\ reports[m]["feedback"] =
         reports[m]["failed"] -
           IF responder.pc = "feedback" /\ responder.msg = m THEN 1 ELSE 0

Accounted(m) == Progress(m) /\ SentOnce(m) /\ Retried(m) /\ Answered(m)

AllAccounted == \A m \in Messages : Accounted(m)

LEMMA AccountedMeans == AllAccounted => RetriesBounded /\ ReportsExact
<1> SUFFICES ASSUME AllAccounted PROVE RetriesBounded /\ ReportsExact
  OBVIOUS
<1>1. RetriesBounded
  BY DEF AllAccounted, Accounted, Retried, RetriesBounded
<1>2. ReportsExact
  BY DEF AllAccounted, Accounted, SentOnce, Answered, ReportsExact
<1> QED
  BY <1>1, <1>2

LEMMA InitAccounted == Init => AllAccounted
  BY MaxRetryAssumption
     DEF Init, ConsumerInit, PusherInit, QueueInit, AllAccounted, Accounted, Progress, SentOnce,
         Retried, Answered, Reporting, Untried, Tried, Unsent, ReportKinds

\* The types of what is said of one message.
LEMMA MessageType ==
    ASSUME TypeOK, NEW m \in Messages
    PROVE  /\ attempts[m] \in Nat
           /\ stage[m] \in Stages
           /\ \A k \in ReportKinds : reports[m][k] \in Nat
  BY DEF TypeOK, QueueTypeOK, PusherTypeOK

\* A step of another message is not seen by this one.
LEMMA Unseen ==
    ASSUME NEW m \in Messages, Accounted(m),
           stage'[m] = stage[m], attempts'[m] = attempts[m], reports'[m] = reports[m],
           reason'[m] = reason[m],
           \/ UNCHANGED router
           \/ router.msg # m /\ router'.msg # m,
           \/ UNCHANGED responder
           \/ responder.msg # m /\ responder'.msg # m
    PROVE  Accounted(m)'
<1>1. Progress(m)'
  BY DEF Accounted, Progress, Reporting, Untried, Tried
<1>2. SentOnce(m)'
  BY DEF Accounted, SentOnce, Unsent
<1>3. Retried(m)' /\ Answered(m)'
  BY DEF Accounted, Retried, Answered
<1> QED
  BY <1>1, <1>2, <1>3 DEF Accounted

\* A step that takes a message from a stage to another of the same kind, and leaves
\* alone what was sent and reported of it, or forgets it before it was sent.
LEMMA PassedOn ==
    ASSUME TypeOK, NEW m \in Messages, Accounted(m), NEW s,
           stage' = [stage EXCEPT ![m] = s],
           UNCHANGED <<attempts, reports, reason>>,
           stage[m] # "handled", s # "handled",
           \/ /\ stage[m] \in {"unread", "consumer"} /\ s \in {"consumer", "msgChan"}
              /\ UNCHANGED <<router, responder>>
           \/ /\ stage[m] = "msgChan" /\ s = "router" /\ UNCHANGED responder
              /\ router'.pc = "handle" /\ router'.msg = m
           \/ /\ stage[m] = "router" /\ s = "lost" /\ UNCHANGED responder
              /\ router'.pc = "receive"
           \/ /\ stage[m] = "router" /\ s = "pushChannel" /\ UNCHANGED responder
              /\ router.pc = "pushing" /\ router.msg = m
              /\ router'.pc = "pushed" /\ router'.msg = m
           \/ /\ stage[m] \in {"pushChannel", "worker"}
              /\ s \in {"worker", "responseChannel", "lost"}
              /\ UNCHANGED <<router, responder>>
           \/ /\ stage[m] = "responseChannel" /\ s = "responder" /\ UNCHANGED router
              /\ responder'.pc = "handle"
           \/ /\ stage[m] = "responder" /\ s = "pushChannel" /\ UNCHANGED router
              /\ responder'.pc = "receive"
    PROVE  Accounted(m)'
<1>1. stage'[m] = s
  BY DEF TypeOK
<1>2. Progress(m)'
  BY <1>1 DEF Accounted, Progress, Reporting, Untried, Tried
<1>3. SentOnce(m)'
  BY <1>1 DEF Accounted, SentOnce, Unsent
<1>4. Retried(m)'
  BY DEF Accounted, Retried
<1>5. Answered(m)'
  BY <1>1 DEF Accounted, Answered, Progress, Reporting, Untried, Tried
<1> QED
  BY <1>2, <1>3, <1>4, <1>5 DEF Accounted

LEMMA StartAccounted ==
    ASSUME TypeOK, SingleCustody, AllAccounted, Start, UNCHANGED <<queueVars, responder>>
    PROVE  AllAccounted'
<1> SUFFICES ASSUME NEW m \in Messages PROVE Accounted(m)'
  BY DEF AllAccounted
<1>1. Accounted(m) /\ UNCHANGED <<attempts, reason, responder>>
  BY DEF AllAccounted, queueVars
<1>2. PusherOK(Stages, RouterBusy, {"handle", "pushing"})
  BY APNSPusherOK
<1>3. CASE RouteReceive
  <2>1. Head(msgChan) \in Messages /\ stage[Head(msgChan)] = "msgChan"
    BY <1>2, <1>3, StartMessages
  <2>2. router.msg = None /\ UNCHANGED reports
    BY <1>3 DEF RouteReceive, TypeOK, Goroutine
  <2>3. CASE m = Head(msgChan)
    BY <1>1, <1>3, <2>1, <2>2, <2>3, PassedOn DEF RouteReceive
  <2>4. CASE m # Head(msgChan)
    BY <1>1, <1>3, <2>1, <2>2, <2>4, Unseen, MessagesAssumption DEF RouteReceive, TypeOK
  <2> QED
    BY <2>3, <2>4
<1>4. CASE RouteUnknownGame
  <2>1. router.msg \in Messages /\ stage[router.msg] = "router" /\ UNCHANGED reports
    BY <1>2, <1>4, StartMessages DEF RouteUnknownGame
  <2>2. CASE m = router.msg
    BY <1>1, <1>4, <2>1, <2>2, PassedOn DEF RouteUnknownGame
  <2>3. CASE m # router.msg
    BY <1>1, <1>4, <2>1, <2>3, Unseen, MessagesAssumption DEF RouteUnknownGame, TypeOK
  <2> QED
    BY <2>2, <2>3
<1>5. ASSUME NEW n \in Messages, ReadMessage(n), UNCHANGED pusherVars
      PROVE  Accounted(m)'
  <2>1. CASE m = n
    BY <1>1, <1>5, <2>1, PassedOn DEF ReadMessage, pusherVars
  <2>2. CASE m # n
    BY <1>1, <1>5, <2>2, Unseen DEF ReadMessage, pusherVars, TypeOK
  <2> QED
    BY <2>1, <2>2
<1>6. CASE SendToChannel /\ UNCHANGED pusherVars
  <2>1. consumer.msg \in Messages /\ stage[consumer.msg] = "consumer"
    BY <1>2, <1>6, StartMessages
  <2>2. CASE m = consumer.msg
    BY <1>1, <1>6, <2>1, <2>2, PassedOn DEF SendToChannel, pusherVars
  <2>3. CASE m # consumer.msg
    BY <1>1, <1>6, <2>1, <2>3, Unseen DEF SendToChannel, pusherVars, TypeOK
  <2> QED
    BY <2>2, <2>3
<1>7. CASE \/ (Subscribe \/ CheckStop \/ ReadNothing \/ AddPending) /\ UNCHANGED pusherVars
           \/ CancelContext \/ StopConsuming \/ GracefulShutdown \/ AwaitPending
           \/ ExitGraceful \/ ExitTimeout \/ Panic
  <2>1. UNCHANGED <<stage, router, reports>>
    BY <1>7 DEF Subscribe, CheckStop, ReadNothing, AddPending, CancelContext, StopConsuming,
                GracefulShutdown, AwaitPending, ExitGraceful, ExitTimeout, Panic, pusherVars
  <2> QED
    BY <1>1, <2>1, Unseen
<1> QED
  BY <1>3, <1>4, <1>5, <1>6, <1>7 DEF Start, routeMessages, ConsumeLoop, receiveMessage

LEMMA HandleMessagesAccounted ==
    ASSUME TypeOK, SingleCustody, AllAccounted, HandleMessages
    PROVE  AllAccounted'
<1> SUFFICES ASSUME NEW m \in Messages PROVE Accounted(m)'
  BY DEF AllAccounted
<1>1. Accounted(m) /\ UNCHANGED <<reason, responder>>
  BY DEF AllAccounted, HandleMessages, Discard, SendNotification, PushNotification, Push,
         ReportSent, queueVars
<1>2. router.msg \in Messages /\ (router.pc # "pushed" => stage[router.msg] = "router")
  BY DEF HandleMessages, Discard, SendNotification, PushNotification, ReportSent, TypeOK,
         Goroutine, SingleCustody, RouterCustody, At
<1>3. CASE m # router.msg
  <2>1. stage'[m] = stage[m] /\ attempts'[m] = attempts[m]
    BY <1>3 DEF HandleMessages, Discard, SendNotification, PushNotification, Push, ReportSent,
                queueVars, TypeOK, QueueTypeOK
  <2>2. reports'[m] = reports[m]
    BY <1>2, <1>3, ReportEffect
       DEF HandleMessages, Discard, SendNotification, PushNotification, ReportSent, TypeOK
  <2>3. router'.msg # m
    BY <1>2, <1>3, MessagesAssumption
       DEF HandleMessages, Discard, SendNotification, PushNotification, ReportSent, TypeOK,
           Goroutine
  <2> QED
    BY <1>1, <1>3, <2>1, <2>2, <2>3, Unseen
<1>4. CASE m = router.msg /\ Discard
  <2>1. /\ stage'[m] = "handled" /\ router.pc = "handle" /\ router'.pc = "receive"
        /\ UNCHANGED <<attempts, reports>> /\ stage[m] = "router"
    BY <1>2, <1>4 DEF Discard, queueVars, TypeOK
  <2>2. attempts[m] = 0 /\ ~Reporting(m)
    BY <1>1, <1>4, <2>1 DEF Accounted, Progress, Untried, Tried, Reporting
  <2>3. Progress(m)'
    BY <1>1, <1>4, <2>1, <2>2 DEF Accounted, Progress, Reporting, Untried, Tried
  <2>4. SentOnce(m)'
    BY <1>1, <2>1 DEF Accounted, SentOnce, Unsent
  <2>5. Retried(m)' /\ Answered(m)'
    BY <1>1, <2>1, <2>2 DEF Accounted, Retried, Answered
  <2> QED
    BY <2>3, <2>4, <2>5 DEF Accounted
<1>5. CASE m = router.msg /\ SendNotification
  <2>1. /\ attempts'[m] = attempts[m] + 1 /\ router.pc = "handle" /\ router'.pc = "pushing"
        /\ UNCHANGED <<stage, reports>> /\ stage[m] = "router"
    BY <1>2, <1>5 DEF SendNotification, TypeOK, QueueTypeOK, Goroutine
  <2>2. attempts[m] = 0 /\ attempts'[m] = 1 /\ ~Reporting(m)
    BY <1>1, <1>5, <2>1 DEF Accounted, Progress, Untried, Tried, Reporting
  <2>3. Progress(m)'
    BY <1>1, <2>1, <2>2 DEF Accounted, Progress, Reporting, Untried, Tried
  <2>4. SentOnce(m)'
    BY <1>1, <2>1, <2>2 DEF Accounted, SentOnce, Unsent
  <2>5. Answered(m)'
    BY <1>1, <2>1, <2>2 DEF Accounted, Answered
  <2>6. Retried(m)'
    <3>1. reports[m]["failed"] = 0
      BY <1>1, <2>1, MessageType DEF Accounted, Answered, ReportKinds
    <3> QED
      BY <2>1, <2>2, <3>1, MaxRetryAssumption DEF Retried
  <2> QED
    BY <2>3, <2>4, <2>5, <2>6 DEF Accounted
<1>6. CASE m = router.msg /\ PushNotification
  <2>1. /\ router.pc = "pushing" /\ router'.pc = "pushed" /\ router'.msg = m
        /\ stage' = [stage EXCEPT ![m] = "pushChannel"] /\ stage[m] = "router"
        /\ UNCHANGED <<attempts, reports>>
    BY <1>2, <1>6 DEF PushNotification, Push, TypeOK, Goroutine
  <2> QED
    BY <1>1, <1>6, <2>1, PassedOn
<1>7. CASE m = router.msg /\ ReportSent
  <2>1. /\ router.pc = "pushed" /\ router'.pc = "receive" /\ UNCHANGED <<stage, attempts>>
        /\ reports'[m]["sent"] = reports[m]["sent"] + 1
        /\ \A k \in {"acked", "failed", "feedback"} : reports'[m][k] = reports[m][k]
    BY <1>7, ReportEffect, MessageType DEF ReportSent, queueVars, ReportKinds, TypeOK
  <2>2. /\ attempts[m] > 0 /\ reports[m]["sent"] = 0
        /\ stage[m] \notin {"unread", "consumer", "msgChan", "router"}
    BY <1>1, <1>7, <2>1 DEF Accounted, Progress, SentOnce, Untried, Tried, Unsent
  <2>3. Progress(m)'
    BY <1>1, <2>1, <2>2 DEF Accounted, Progress, Reporting, Untried, Tried
  <2>4. SentOnce(m)'
    BY <2>1, <2>2, MessageType DEF SentOnce, Unsent
  <2>5. Retried(m)' /\ Answered(m)'
    BY <1>1, <2>1 DEF Accounted, Retried, Answered
  <2> QED
    BY <2>3, <2>4, <2>5 DEF Accounted
<1> QED
  BY <1>3, <1>4, <1>5, <1>6, <1>7 DEF HandleMessages

LEMMA PushWorkersAccounted ==
    ASSUME TypeOK, SingleCustody, AllAccounted, PushWorkers
    PROVE  AllAccounted'
<1> SUFFICES ASSUME NEW m \in Messages PROVE Accounted(m)'
  BY DEF AllAccounted
<1>1. PICK w \in Workers : pushWorker(w)
  BY DEF PushWorkers
<1>2. Accounted(m) /\ UNCHANGED <<attempts, reports, router, responder>>
  BY <1>1 DEF AllAccounted, PushWorkers, pusherVars, pushWorker, WorkerTake, WorkerAnswer,
              WorkerError, WorkerRespond
<1>3. CASE WorkerTake(w)
  <2>1. Head(pushChannel) \in Messages /\ stage[Head(pushChannel)] = "pushChannel"
    BY <1>3, HandlesItsOwn DEF WorkerTake
  <2>2. UNCHANGED reason /\ stage' = [stage EXCEPT ![Head(pushChannel)] = "worker"]
    BY <1>3 DEF WorkerTake
  <2>3. CASE m = Head(pushChannel)
    BY <1>2, <2>1, <2>2, <2>3, PassedOn
  <2>4. CASE m # Head(pushChannel)
    BY <1>2, <2>1, <2>2, <2>4, Unseen DEF TypeOK
  <2> QED
    BY <2>3, <2>4
<1>4. CASE WorkerAnswer(w)
  <2>1. worker[w].msg \in Messages /\ stage[worker[w].msg] = "worker"
    BY <1>4, HandlesItsOwn DEF WorkerAnswer
  <2>2. UNCHANGED stage /\ (m # worker[w].msg => reason'[m] = reason[m])
    BY <1>4 DEF WorkerAnswer, TypeOK, QueueTypeOK
  <2>3. CASE m # worker[w].msg
    BY <1>2, <2>2, <2>3, Unseen
  <2>4. CASE m = worker[w].msg
    <3>1. Progress(m)'
      BY <1>2, <2>1, <2>2, <2>4 DEF Accounted, Progress, Reporting, Untried, Tried
    <3>2. SentOnce(m)' /\ Answered(m)'
      BY <1>2, <2>2 DEF Accounted, SentOnce, Unsent, Answered
    <3>3. reports[m]["failed"] = 0
      BY <1>2, <2>1, <2>4, MessageType DEF Accounted, Answered, ReportKinds
    <3>4. Retried(m)'
      BY <1>2, <3>3 DEF Accounted, Retried
    <3> QED
      BY <3>1, <3>2, <3>4 DEF Accounted
  <2> QED
    BY <2>3, <2>4
<1>5. CASE WorkerError(w) \/ WorkerRespond(w)
  <2>1. worker[w].msg \in Messages /\ stage[worker[w].msg] = "worker"
    BY <1>5, HandlesItsOwn DEF WorkerError, WorkerRespond
  <2>2. PICK s \in {"lost", "responseChannel"} : stage' = [stage EXCEPT ![worker[w].msg] = s]
    BY <1>5 DEF WorkerError, WorkerRespond
  <2>3. UNCHANGED reason
    BY <1>5 DEF WorkerError, WorkerRespond
  <2>4. CASE m = worker[w].msg
    BY <1>2, <2>1, <2>2, <2>3, <2>4, PassedOn
  <2>5. CASE m # worker[w].msg
    BY <1>2, <2>1, <2>2, <2>3, <2>5, Unseen DEF TypeOK
  <2> QED
    BY <2>4, <2>5
<1> QED
  BY <1>1, <1>3, <1>4, <1>5 DEF pushWorker

LEMMA HandleResponsesAccounted ==
    ASSUME TypeOK, SingleCustody, AllAccounted, HandleResponses
    PROVE  AllAccounted'
<1> SUFFICES ASSUME NEW m \in Messages PROVE Accounted(m)'
  BY DEF AllAccounted
<1>1. Accounted(m) /\ UNCHANGED <<router, reason>>
  BY DEF AllAccounted, HandleResponses, ReceiveResponse, Retry, Resend, Push, FinishResponse,
         ReportSuccess, ReportFailure, SendFeedback, queueVars, pusherVars
<1>2. CASE ReceiveResponse
  <2>1. /\ Head(responseChannel) \in Messages
        /\ stage[Head(responseChannel)] = "responseChannel"
    BY <1>2, HandlesItsOwn DEF ReceiveResponse
  <2>2. /\ responder.msg = None /\ responder' = [pc |-> "handle", msg |-> Head(responseChannel)]
        /\ stage' = [stage EXCEPT ![Head(responseChannel)] = "responder"]
        /\ UNCHANGED <<attempts, reports>>
    BY <1>2 DEF ReceiveResponse, pusherVars, TypeOK, Goroutine
  <2>3. CASE m = Head(responseChannel)
    BY <1>1, <2>1, <2>2, <2>3, PassedOn
  <2>4. CASE m # Head(responseChannel)
    BY <1>1, <2>1, <2>2, <2>4, Unseen, MessagesAssumption DEF TypeOK
  <2> QED
    BY <2>3, <2>4
<1>3. ASSUME ~ReceiveResponse
      PROVE  /\ responder.msg \in Messages
             /\ responder.pc \in {"handle", "resend"} => stage[responder.msg] = "responder"
  BY <1>3, HandlesItsOwn
     DEF HandleResponses, Retry, Resend, FinishResponse, ReportSuccess, ReportFailure,
         SendFeedback, TypeOK, Goroutine
<1>4. CASE ~ReceiveResponse /\ m # responder.msg
  <2>1. stage'[m] = stage[m] /\ attempts'[m] = attempts[m]
    BY <1>4 DEF HandleResponses, Retry, Resend, Push, FinishResponse, ReportSuccess,
                ReportFailure, SendFeedback, queueVars, TypeOK, QueueTypeOK
  <2>2. reports'[m] = reports[m]
    BY <1>3, <1>4, ReportEffect
       DEF HandleResponses, Retry, Resend, FinishResponse, ReportSuccess, ReportFailure,
           SendFeedback, pusherVars, TypeOK
  <2>3. responder'.msg # m
    BY <1>3, <1>4, MessagesAssumption
       DEF HandleResponses, Retry, Resend, FinishResponse, ReportSuccess, ReportFailure,
           SendFeedback, TypeOK, Goroutine
  <2> QED
    BY <1>1, <1>4, <2>1, <2>2, <2>3, Unseen
<1>5. CASE ~ReceiveResponse /\ m = responder.msg /\ Retry
  <2>1. /\ stage[m] = "responder" /\ responder.pc = "handle" /\ responder'.pc = "resend"
        /\ attempts[m] < MaxRetryAttempts /\ attempts'[m] = attempts[m] + 1
        /\ UNCHANGED <<stage, reports>>
    BY <1>3, <1>5 DEF Retry, MayRetry, pusherVars, TypeOK, QueueTypeOK, Goroutine
  <2>2. attempts[m] \in Nat /\ attempts[m] > 0 /\ reports[m]["failed"] = 0
    BY <1>1, <2>1, MessageType DEF Accounted, Progress, Tried, Answered, ReportKinds
  <2>3. Progress(m)'
    BY <1>1, <2>1, <2>2 DEF Accounted, Progress, Reporting, Untried, Tried
  <2>4. SentOnce(m)'
    BY <1>1, <2>1, <2>2 DEF Accounted, SentOnce, Unsent
  <2>5. Retried(m)'
    BY <2>1, <2>2, MaxRetryAssumption DEF Retried
  <2>6. Answered(m)'
    BY <1>1, <2>1 DEF Accounted, Answered
  <2> QED
    BY <2>3, <2>4, <2>5, <2>6 DEF Accounted
<1>6. CASE ~ReceiveResponse /\ m = responder.msg /\ Resend
  <2>1. /\ stage[m] = "responder" /\ responder'.pc = "receive"
        /\ stage' = [stage EXCEPT ![m] = "pushChannel"]
        /\ UNCHANGED <<attempts, reports>>
    BY <1>3, <1>6 DEF Resend, Push, pusherVars
  <2> QED
    BY <1>1, <2>1, PassedOn
<1>7. CASE ~ReceiveResponse /\ m = responder.msg /\ FinishResponse
  <2>1. /\ stage[m] = "responder" /\ stage'[m] = "handled"
        /\ responder.pc = "handle" /\ responder'.pc = "report" /\ responder'.msg = m
        /\ reason[m] = TooManyRequests => ~(attempts[m] < MaxRetryAttempts)
        /\ UNCHANGED <<attempts, reports>>
    BY <1>3, <1>7 DEF FinishResponse, MayRetry, pusherVars, queueVars, TypeOK, Goroutine
  <2>2. Progress(m)'
    BY <1>1, <2>1, MessageType, MaxRetryAssumption DEF Accounted, Progress, Reporting, Untried, Tried
  <2>3. SentOnce(m)'
    BY <1>1, <2>1 DEF Accounted, SentOnce, Unsent
  <2>4. Retried(m)' /\ Answered(m)'
    BY <1>1, <2>1 DEF Accounted, Retried, Answered
  <2> QED
    BY <2>2, <2>3, <2>4 DEF Accounted
<1>8. CASE ~ReceiveResponse /\ m = responder.msg /\ (ReportSuccess \/ ReportFailure)
  <2>1. /\ responder.pc = "report" /\ UNCHANGED <<stage, attempts>>
        /\ reports'[m]["sent"] = reports[m]["sent"]
        /\ reports'[m]["feedback"] = reports[m]["feedback"]
        /\ \/ /\ responder'.pc = "receive"
              /\ reports'[m]["acked"] = reports[m]["acked"] + 1
              /\ reports'[m]["failed"] = reports[m]["failed"]
           \/ /\ responder'.pc = "feedback" /\ responder'.msg = m
              /\ reports'[m]["acked"] = reports[m]["acked"]
              /\ reports'[m]["failed"] = reports[m]["failed"] + 1
    <3>1. \A k \in ReportKinds : reports[m][k] \in Nat
      BY MessageType
    <3>2. CASE ReportSuccess
      BY <1>8, <3>1, <3>2, ReportEffect DEF ReportSuccess, queueVars, ReportKinds, TypeOK
    <3>3. CASE ReportFailure
      BY <1>8, <3>1, <3>3, ReportEffect DEF ReportFailure, queueVars, ReportKinds, TypeOK, Goroutine
    <3> QED
      BY <1>8, <3>2, <3>3
  <2>2. /\ stage[m] = "handled" /\ attempts[m] > 0
        /\ reason[m] = TooManyRequests => attempts[m] >= MaxRetryAttempts
    BY <1>1, <1>8, <2>1 DEF Accounted, Progress, Reporting, Untried, Tried
  <2>3. \A k \in ReportKinds : reports[m][k] \in Nat
    BY MessageType
  <2>4. reports[m]["acked"] = 0 /\ reports[m]["failed"] = 0 /\ reports[m]["feedback"] = 0
    BY <1>1, <1>8, <2>1, <2>3 DEF Accounted, Answered, ReportKinds
  <2>5. Progress(m)'
    BY <1>1, <1>8, <2>1, <2>2 DEF Accounted, Progress, Reporting, Untried, Tried
  <2>6. SentOnce(m)'
    BY <1>1, <2>1 DEF Accounted, SentOnce, Unsent
  <2>7. Retried(m)'
    BY <1>1, <2>1, <2>2 DEF Accounted, Retried
  <2>8. Answered(m)'
    BY <2>1, <2>2, <2>4 DEF Answered
  <2> QED
    BY <2>5, <2>6, <2>7, <2>8 DEF Accounted
<1>9. CASE ~ReceiveResponse /\ m = responder.msg /\ SendFeedback
  <2>1. /\ responder.pc = "feedback" /\ responder'.pc = "receive" /\ UNCHANGED <<stage, attempts>>
        /\ reports'[m]["feedback"] = reports[m]["feedback"] + 1
        /\ \A k \in {"sent", "acked", "failed"} : reports'[m][k] = reports[m][k]
    BY <1>9, ReportEffect, MessageType DEF SendFeedback, queueVars, ReportKinds, TypeOK
  <2>2. Progress(m)'
    BY <1>1, <1>9, <2>1 DEF Accounted, Progress, Reporting, Untried, Tried
  <2>3. SentOnce(m)'
    BY <1>1, <2>1 DEF Accounted, SentOnce, Unsent
  <2>4. Retried(m)'
    BY <1>1, <2>1 DEF Accounted, Retried
  <2>5. Answered(m)'
    <3>1. \A k \in ReportKinds : reports[m][k] \in Nat
      BY MessageType
    <3> QED
      BY <1>1, <1>9, <2>1, <3>1 DEF Accounted, Answered, ReportKinds
  <2> QED
    BY <2>2, <2>3, <2>4, <2>5 DEF Accounted
<1> QED
  BY <1>2, <1>4, <1>5, <1>6, <1>7, <1>8, <1>9 DEF HandleResponses

LEMMA StepAccounted ==
    TypeOK /\ SingleCustody /\ AllAccounted /\ [Next]_vars => AllAccounted'
<1> SUFFICES ASSUME TypeOK, SingleCustody, AllAccounted, [Next]_vars PROVE AllAccounted'
  OBVIOUS
<1>1. CASE Step
  BY <1>1, StartAccounted, HandleMessagesAccounted, PushWorkersAccounted,
     HandleResponsesAccounted
     DEF Step
<1>2. CASE UNCHANGED vars
  BY <1>2, Unseen DEF AllAccounted, vars, pusherVars, queueVars
<1> QED
  BY <1>1, <1>2 DEF Next, Terminated

LEMMA AccountedCorrect == Spec => []AllAccounted
  BY InitAccounted, StepAccounted, TypeCorrect, CustodyCorrect, PTL DEF Spec

\* No notification is sent more often than the limit allows, although the attempt is
\* counted by two goroutines, and none that failed with 429 was given up early.
THEOREM RetriesCorrect == Spec => []RetriesBounded
  BY AccountedCorrect, AccountedMeans, PTL

\* However its retries, its answers and the late report of the router interleave, a
\* message is counted once as sent and once as acked or failed, with its feedback.
THEOREM ReportsCorrect == Spec => []ReportsExact
  BY AccountedCorrect, AccountedMeans, PTL

-----------------------------------------------------------------------------
(* How many messages a stalled pusher has                                  *)

\* The responder waits for room in pushChannel to send a retry, every worker for
\* room in responseChannel to hand over an answer: only the responder empties the
\* one and only the workers empty the other, so none of them ever runs again.
Stalled ==
    /\ responder.pc = "resend" /\ Len(pushChannel) >= PushQueueSize
    /\ \A w \in Workers : worker[w].pc = "respond"
    /\ Len(responseChannel) >= ResponseChannelSize

\* Retries can stall the pusher for ever only when more notifications are in
\* flight than the two channels and the workers have room for: a deployment that
\* reads fewer at a time from its topics cannot get there, whatever APNs answers
\* and however the push errors, discards and retries interleave.
NoCircularWait ==
    Stalled
      => Cardinality(InFlight)
           > PushQueueSize + ResponseChannelSize + Cardinality(Workers)

\* A channel has as many messages as its length says.
LEMMA ChannelCount ==
    ASSUME NEW c \in Seq(Messages), NEW s, Carries(c, s)
    PROVE  IsFiniteSet(At(s)) /\ Cardinality(At(s)) = Len(c)
<1>1. IsFiniteSet(1 .. Len(c)) /\ Cardinality(1 .. Len(c)) = Len(c)
  <2>1. Len(c) \in Nat
    OBVIOUS
  <2>2. 1 \in Int /\ Len(c) \in Int
    BY <2>1
  <2>3. /\ IsFiniteSet(1 .. Len(c))
        /\ Cardinality(1 .. Len(c)) = IF 1 > Len(c) THEN 0 ELSE Len(c) - 1 + 1
    BY <2>2, FS_Interval, Zenon
  <2> QED
    BY <2>1, <2>3
<1>2. c \in [1 .. Len(c) -> At(s)]
  BY DEF Carries, ToSet
<1>3. c \in Bijection(1 .. Len(c), At(s))
  BY <1>2 DEF Carries, ToSet, Bijection, Injection, Surjection, IsInjective
<1> QED
  BY <1>1, <1>3, FS_Bijection DEF ExistsBijection

\* Workers that are all busy have one message each.
LEMMA WorkerCount ==
    ASSUME TypeOK, WorkerCustody, \A w \in Workers : worker[w].pc # "idle"
    PROVE  IsFiniteSet(At("worker")) /\ Cardinality(At("worker")) = Cardinality(Workers)
<1> DEFINE has == [w \in Workers |-> worker[w].msg]
<1>1. \A w \in Workers : worker[w].msg \in Messages
  BY DEF TypeOK, QueueTypeOK, Goroutine
<1>2. has \in [Workers -> At("worker")]
  BY <1>1 DEF WorkerCustody
<1>3. has \in Bijection(Workers, At("worker"))
  BY <1>2 DEF WorkerCustody, Bijection, Injection, Surjection, IsInjective
<1> QED
  BY <1>3, WorkersAssumption, FS_Bijection DEF ExistsBijection

LEMMA DisjointCount ==
    ASSUME NEW S, IsFiniteSet(S), NEW T, IsFiniteSet(T), S \cap T = {}
    PROVE  /\ IsFiniteSet(S \cup T)
           /\ Cardinality(S \cup T) = Cardinality(S) + Cardinality(T)
<1>1. Cardinality(S) \in Nat /\ Cardinality(T) \in Nat /\ Cardinality(S \cap T) = 0
  BY FS_CardinalityType, FS_EmptySet
<1>2. /\ IsFiniteSet(S \cup T)
      /\ Cardinality(S \cup T) = Cardinality(S) + Cardinality(T) - Cardinality(S \cap T)
  BY FS_Union, Zenon
<1> QED
  BY <1>1, <1>2

\* Both channels are full, every worker has a message and the responder one more,
\* and by SingleCustody these are all different.
LEMMA StalledCount == TypeOK /\ SingleCustody => NoCircularWait
<1> SUFFICES ASSUME TypeOK, SingleCustody, Stalled
             PROVE  Cardinality(InFlight)
                      > PushQueueSize + ResponseChannelSize + Cardinality(Workers)
  BY DEF NoCircularWait
<1> DEFINE pushing == At("pushChannel")
           answering == At("responseChannel")
           working == At("worker")
           m == responder.msg
           queued == pushing \cup answering
           held == queued \cup working
<1>1. /\ IsFiniteSet(pushing) /\ Cardinality(pushing) = Len(pushChannel)
      /\ IsFiniteSet(answering) /\ Cardinality(answering) = Len(responseChannel)
  BY ChannelCount DEF TypeOK, QueueTypeOK, SingleCustody
<1>2. IsFiniteSet(working) /\ Cardinality(working) = Cardinality(Workers)
  BY WorkerCount DEF SingleCustody, Stalled
<1>3. m \in Messages /\ stage[m] = "responder"
  BY HandlesItsOwn DEF Stalled
<1>4. /\ pushing \cap answering = {}
      /\ queued \cap working = {}
      /\ m \notin held
  BY <1>3 DEF At
<1>5. held \cup {m} \subseteq InFlight
  BY <1>3 DEF At, InFlight
<1>6. /\ Len(pushChannel) \in Nat /\ Len(pushChannel) >= PushQueueSize
      /\ Len(responseChannel) \in Nat /\ Len(responseChannel) >= ResponseChannelSize
      /\ Cardinality(Workers) \in Nat
  BY WorkersAssumption, FS_CardinalityType DEF TypeOK, QueueTypeOK, Stalled
<1>7. IsFiniteSet(InFlight) /\ Cardinality(InFlight) \in Nat
  BY MessagesAssumption, FS_Subset, FS_CardinalityType DEF InFlight
<1> HIDE DEF pushing, answering, working, m
<1>8. /\ IsFiniteSet(queued)
      /\ Cardinality(queued) = Len(pushChannel) + Len(responseChannel)
  BY <1>1, <1>4, DisjointCount
<1> HIDE DEF queued
<1>9. /\ IsFiniteSet(held)
      /\ Cardinality(held) = Cardinality(queued) + Cardinality(Workers)
  BY <1>2, <1>4, <1>8, DisjointCount
<1> HIDE DEF held
<1>10. Cardinality(held \cup {m}) = Cardinality(held) + 1
  BY <1>4, <1>9, FS_AddElement
<1>11. Cardinality(held \cup {m}) <= Cardinality(InFlight)
  BY <1>5, <1>7, FS_Subset
<1> QED
  BY <1>6, <1>7, <1>8, <1>9, <1>10, <1>11, QueueSizesAssumption

\* The responder and all the workers are never blocked on each other's channels as
\* long as no more messages are in flight than both channels and the workers have
\* room for.
THEOREM CircularCorrect == Spec => []NoCircularWait
  BY StalledCount, TypeCorrect, CustodyCorrect, PTL
=============================================================================
