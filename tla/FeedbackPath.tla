---------------------------- MODULE FeedbackPath ----------------------------
(***************************************************************************)
(* The way of an invalid token: from the provider's answer, through the    *)
(* message handler and extensions/kafka_producer.go of a pusher, Kafka,    *)
(* and the subscription and Broker of the feedback listener, to the DELETE *)
(* in the table of a game and platform.                                    *)
(*                                                                         *)
(* A message stands for the device token it carries, and is in the table   *)
(* that its topic names.  FeedbackListener has the goroutines, channels    *)
(* and buffer of the listener; here it is alive and only what it decides   *)
(* is told.                                                                *)
(***************************************************************************)
EXTENDS Games

CONSTANTS
    PlainNames,          \* names without - and _, which the listener subscribes to
    Answers,             \* each provider's answers to consider, but for Accepted
    ProduceChannelSize,  \* of the Kafka client
    InvalidTokenEnabled  \* feedbackListeners.broker.invalidTokenEnabled

Accepted == "accepted"

ASSUME FeedbackAssumption ==
    /\ PlainNames \subseteq Games
    /\ Answers \in [Providers -> SUBSET STRING]
    /\ \A p \in Providers : Answers[p] \cap {"none", Accepted} = {}
    /\ ProduceChannelSize \in Nat \ {0}
    /\ InvalidTokenEnabled \in BOOLEAN

VARIABLES
    answer,    \* what the provider said of each token
    feedback,  \* where the feedback on each token is
    deleted    \* pairs of a token and a table that it was deleted from

feedbackVars == <<answer, feedback, deleted>>
vars == <<gamesVars, feedbackVars>>

TypeOK ==
    /\ GamesTypeOK
    /\ answer \in [Messages -> {"none", Accepted} \cup Answers[provider]]
    /\ feedback \in [Messages ->
           {"none", "produceChannel", "kafka", "undelivered",
            "token", "ignored", "deleted", "undeleted"}]
    /\ deleted \subseteq Messages \X Topics
    /\ \A m \in Messages :
         /\ answer[m] # "none" <=> at[m] = "answered"
         /\ feedback[m] # "none" => answer[m] \notin {"none", Accepted}

Init ==
    /\ GamesInit
    /\ answer = [m \in Messages |-> "none"]
    /\ feedback = [m \in Messages |-> "none"]
    /\ deleted = {}

MoveFeedback(m, to) == feedback' = [feedback EXCEPT ![m] = to]

-----------------------------------------------------------------------------
(* The pusher                                                              *)

\* A response of APNs, or the return of Send.
Answer(m) ==
    /\ phase = "running"
    /\ at[m] = "push"
    /\ \E a \in {Accepted} \cup Answers[provider] : answer' = [answer EXCEPT ![m] = a]
    /\ Move(m, "answered")
    /\ UNCHANGED <<provider, phase, topics, handlers, msgChan, feedback, deleted>>

\* Mutant of translateError: the key is named as Firebase names it.
translateErrorAsFirebase(err) ==
    CASE err = "Unregistered" -> "UNREGISTERED"
      [] err = "InvalidArgument" -> "INVALID_ARGUMENT"
      [] OTHER -> "UNKNOWN"

\* The Key of the PushError for an error of the Firebase client.
translateError(err) ==
    CASE err = "InvalidArgument" -> "INVALID_JSON"
      [] err = "Unregistered" -> "DEVICE_UNREGISTERED"
      [] err = "SenderIDMismatch" -> "SENDER_ID_MISMATCH"
      [] err = "QuotaExceeded" -> "DEVICE_MESSAGE_RATE_EXCEEDED"
      [] err = "Unavailable" -> "UNAVAILABLE"
      [] err = "Internal" -> "INTERNAL_SERVER_ERROR"
      [] err = "ThirdPartyAuthError" -> "THIRD_PARTY_AUTH_ERROR"
      [] OTHER -> "UNKNOWN"

\* The APNs handler writes the response with its Reason, the FCM handler a
\* FeedbackResponse with its Error.
valueOf(m) ==
    IF provider = "apns"
      THEN [Reason |-> answer[m], Error |-> ""]
      ELSE [Reason |-> "", Error |-> translateError(answer[m])]

\* The name of the feedback topic has the handler's game and, from the APNs handler,
\* always apns; from the FCM handler the platform of the message.
feedbackTopic(m) ==
    [game |-> HomeOf[m].game, platform |-> IF provider = "apns" THEN "apns" ELSE HomeOf[m].platform]

\* Mutant of SendFeedback: a success is reported as well.
SendFeedbackAlways(m) ==
    /\ phase = "running"
    /\ at[m] = "answered"
    /\ feedback[m] = "none"
    /\ Cardinality({n \in Messages : feedback[n] = "produceChannel"}) < ProduceChannelSize
    /\ MoveFeedback(m, "produceChannel")
    /\ UNCHANGED <<gamesVars, answer, deleted>>

\* SendFeedback waits for room in the channel of the Kafka client.
SendFeedback(m) ==
    /\ phase = "running"
    /\ at[m] = "answered"
    /\ answer[m] # Accepted
    /\ feedback[m] = "none"
    /\ Cardinality({n \in Messages : feedback[n] = "produceChannel"}) < ProduceChannelSize
    /\ MoveFeedback(m, "produceChannel")
    /\ UNCHANGED <<gamesVars, answer, deleted>>

\* listenForKafkaResponses logs an error and that is all.  Nothing is delivered
\* after the exit of the pusher, which does not flush its producer.
Deliver(m) ==
    /\ phase = "running"
    /\ feedback[m] = "produceChannel"
    /\ MoveFeedback(m, "kafka") \/ MoveFeedback(m, "undelivered")
    /\ UNCHANGED <<gamesVars, answer, deleted>>

-----------------------------------------------------------------------------
(* The listener                                                            *)

\* The topics of feedbackListeners.queue.topics.
subscribed(topic) == topic.game \in PlainNames /\ topic.platform \in {"apns", "gcm"}

InvalidReasons == {"BadDeviceToken", "Unregistered", "TopicDisallowed", "DeviceTokenNotForTopic"}

\* Mutant of routesToken: the value is read the same way for both platforms.
routesTokenOfAny(topic, value) ==
    /\ InvalidTokenEnabled
    /\ \/ value.Reason \in InvalidReasons
       \/ value.Error \in {"DEVICE_UNREGISTERED", "BAD_REGISTRATION"}

\* A feedback of another platform is confirmed and no more.
routesToken(topic, value) ==
    /\ InvalidTokenEnabled
    /\ \/ topic.platform = "apns" /\ value.Reason \in InvalidReasons
       \/ topic.platform = "gcm" /\ value.Error \in {"DEVICE_UNREGISTERED", "BAD_REGISTRATION"}

BrokerRoute(m) ==
    LET topic == feedbackTopic(m)
    IN  /\ feedback[m] = "kafka"
        /\ subscribed(topic)
        /\ MoveFeedback(m, IF routesToken(topic, valueOf(m)) THEN "token" ELSE "ignored")
        /\ UNCHANGED <<gamesVars, answer, deleted>>

\* There is no retry on an error.
deleteToken(m) ==
    /\ feedback[m] = "token"
    /\ \/ /\ MoveFeedback(m, "deleted")
          /\ deleted' = deleted \cup {<<m, feedbackTopic(m)>>}
       \/ /\ MoveFeedback(m, "undeleted")
          /\ UNCHANGED deleted
    /\ UNCHANGED <<gamesVars, answer>>

Listen(m) == BrokerRoute(m) \/ deleteToken(m)

-----------------------------------------------------------------------------

Push(m) == Answer(m) \/ SendFeedback(m) \/ Deliver(m)

Next ==
    \/ RunGames /\ UNCHANGED feedbackVars
    \/ \E m \in Messages : Push(m) \/ Listen(m)

Spec == Init /\ [][Next]_vars

\* The goroutines of a pusher and of the listener run, the provider answers, and
\* Kafka and the database do, with a success or an error.  Nothing says when a
\* message is read or when a pusher exits.
Fairness ==
    /\ WF_vars(routeMessages /\ UNCHANGED feedbackVars)
    /\ \A m \in Messages :
         /\ WF_vars(Answer(m))
         /\ SF_vars(SendFeedback(m))
         /\ WF_vars(Deliver(m))
         /\ WF_vars(Listen(m))

FairSpec == Spec /\ Fairness

-----------------------------------------------------------------------------
(* Properties                                                              *)

SaidInvalid(m) == answer[m] \in InvalidReasons

\* A token is deleted from the table it is in only if the provider of that table has
\* said it is invalid, and is never looked for in the table of another game, although
\* a pusher may read the topics of the other provider and ask the wrong one.
OnlyInvalidDeleted ==
    \A m \in Messages, table \in Topics :
      <<m, table>> \in deleted =>
        /\ table.game = HomeOf[m].game
        /\ table = HomeOf[m] => table.platform = provider /\ SaidInvalid(m)

\* The end of the way, or an error or exit that the code accepts.
Settled(m) ==
    \/ <<m, HomeOf[m]>> \in deleted
    \/ feedback[m] \in {"undelivered", "undeleted"}
    \/ phase \in Ended

\* A token that its own provider has called unregistered is deleted in the end, if its
\* game has a plain name and its platform is apns or gcm: the handler, the producer,
\* the subscription, the broker and the table agree on games, platforms and errors.
InvalidTokenDeleted ==
    <>[](\A m \in Messages :
           /\ answer[m] = "Unregistered"
           /\ HomeOf[m].platform = provider
           /\ HomeOf[m].game \in PlainNames
           => Settled(m))

\* Every token that FCM has called unregistered is deleted in the end.  (The tokens of
\* iOS devices are not: the listener does not read their feedback, and would not look
\* at it.)
UnregisteredTokenDeleted ==
    <>[](\A m \in Messages :
           /\ provider = "gcm"
           /\ answer[m] = "Unregistered"
           /\ HomeOf[m].platform # "apns"
           => Settled(m))
=============================================================================
