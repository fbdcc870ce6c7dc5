------------------------- MODULE FeedbackPathProofs -------------------------
(***************************************************************************)
(* For any games, messages, answers and sizes: the pusher serves the games *)
(* it is configured for, and no token is deleted that its provider did not *)
(* call invalid.                                                           *)
(***************************************************************************)
EXTENDS FeedbackPath, TLAPS

\* msgChan has the messages that are at msgChan, each once, so the router never
\* gets a message that was answered already.
QueueExact ==
    \A i \in 1 .. Len(msgChan) :
      /\ at[msgChan[i]] = "msgChan"
      /\ \A j \in 1 .. Len(msgChan) : msgChan[i] = msgChan[j] => i = j

\* A pusher that runs has all its handlers.
HandlersComplete == phase = "running" => Apps[provider] \subseteq handlers

\* What is on its way to the database was routed there by what the provider said.
RoutedByAnswer ==
    /\ \A m \in Messages :
         feedback[m] \in {"token", "deleted", "undeleted"} =>
           routesToken(feedbackTopic(m), valueOf(m))
    /\ \A m \in Messages, table \in Topics :
         <<m, table>> \in deleted => table = feedbackTopic(m) /\ feedback[m] = "deleted"

IInv ==
    /\ TypeOK
    /\ QueueExact
    /\ HandlersComplete
    /\ ConfiguredGamesServed
    /\ RoutedByAnswer

-----------------------------------------------------------------------------

\* The topic of a feedback is one of a game and platform.
LEMMA FeedbackTopicType ==
    ASSUME NEW m \in Messages
    PROVE  feedbackTopic(m) \in Topics /\ feedbackTopic(m).game = HomeOf[m].game
BY NamesAssumption DEF feedbackTopic, Topics, Platforms

\* The Kafka client's message queue of the router: what is received is the head,
\* which was at msgChan, and the rest stays in order.
LEMMA ReceiveHead ==
    ASSUME NEW c \in Seq(Messages), c # << >>
    PROVE  /\ Head(c) \in Messages
           /\ Tail(c) \in Seq(Messages)
           /\ Len(Tail(c)) = Len(c) - 1
           /\ Head(c) = c[1]
           /\ \A i \in 1 .. Len(Tail(c)) : Tail(c)[i] = c[i + 1] /\ i + 1 \in 1 .. Len(c)
           /\ 1 \in 1 .. Len(c)
OBVIOUS

\* What is sent to msgChan comes last.
LEMMA SendLast ==
    ASSUME NEW c \in Seq(Messages), NEW m \in Messages
    PROVE  /\ Append(c, m) \in Seq(Messages)
           /\ Len(Append(c, m)) = Len(c) + 1
           /\ Append(c, m)[Len(c) + 1] = m
           /\ \A i \in 1 .. Len(c) : Append(c, m)[i] = c[i]
           /\ Len(c) \in Nat
OBVIOUS

\* A token that the broker routes was called invalid, and by the provider of the
\* platform that its feedback topic names.
LEMMA RoutedIsInvalid ==
    ASSUME NEW m \in Messages, provider \in Providers,
           routesToken(feedbackTopic(m), valueOf(m))
    PROVE  feedbackTopic(m).platform = provider /\ SaidInvalid(m)
<1>1. CASE provider = "apns"
  BY <1>1 DEF routesToken, feedbackTopic, valueOf, SaidInvalid
<1>2. CASE provider = "gcm"
  <2>1. valueOf(m).Reason = "" /\ valueOf(m).Error = translateError(answer[m])
    BY <1>2 DEF valueOf
  <2>2. valueOf(m).Reason \notin InvalidReasons
    BY <2>1 DEF InvalidReasons
  <2>3. /\ feedbackTopic(m).platform = "gcm"
        /\ valueOf(m).Error \in {"DEVICE_UNREGISTERED", "BAD_REGISTRATION"}
    BY <2>2, Zenon DEF routesToken
  <2>4. answer[m] = "Unregistered"
    BY <2>1, <2>3 DEF translateError
  <2> QED
    BY <1>2, <2>3, <2>4 DEF SaidInvalid, InvalidReasons
<1> QED
  BY <1>1, <1>2 DEF Providers

\* The invariant says what is promised of deletions.
LEMMA OnlyInvalidFollows ==
    IInv => OnlyInvalidDeleted
<1> SUFFICES ASSUME IInv,
                    NEW m \in Messages, NEW table \in Topics, <<m, table>> \in deleted
             PROVE  /\ table.game = HomeOf[m].game
                    /\ table = HomeOf[m] => table.platform = provider /\ SaidInvalid(m)
  BY DEF OnlyInvalidDeleted
<1>1. table = feedbackTopic(m) /\ feedback[m] = "deleted"
  BY DEF IInv, RoutedByAnswer
<1>2. routesToken(feedbackTopic(m), valueOf(m))
  BY <1>1 DEF IInv, RoutedByAnswer
<1>3. feedbackTopic(m).platform = provider /\ SaidInvalid(m)
  BY <1>2, RoutedIsInvalid DEF IInv, TypeOK, GamesTypeOK
<1> QED
  BY <1>1, <1>3, FeedbackTopicType

-----------------------------------------------------------------------------

\* The first state, before anything is read.
LEMMA InitIInv ==
    Init => IInv
<1> SUFFICES ASSUME Init PROVE IInv
  OBVIOUS
<1>1. TypeOK
  BY GamesSizesAssumption DEF Init, GamesInit, TypeOK, GamesTypeOK, Ended
<1>2. QueueExact
  BY DEF Init, GamesInit, QueueExact
<1>3. HandlersComplete /\ ConfiguredGamesServed
  BY DEF Init, GamesInit, HandlersComplete, ConfiguredGamesServed
<1>4. RoutedByAnswer
  BY DEF Init, GamesInit, RoutedByAnswer
<1> QED
  BY <1>1, <1>2, <1>3, <1>4 DEF IInv

\* The construction of the pusher: Start is taken with all the handlers.
LEMMA ConstructIInv ==
    ASSUME IInv, Construct, UNCHANGED feedbackVars
    PROVE  IInv'
<1>1. /\ UNCHANGED <<provider, at, msgChan, answer, feedback, deleted>>
      /\ topics' \subseteq Topics
      /\ handlers' \subseteq Apps[provider]
      /\ phase' \in {"handlers", "consumer", "running", "failed"}
      /\ phase' = "running" => Apps[provider] \subseteq handlers'
  <2>1. CASE configureReporters
    BY <2>1 DEF configureReporters, Advance, feedbackVars, IInv, TypeOK, GamesTypeOK
  <2>2. CASE NewKafkaConsumer
    <3>1. Configured \cup ownTopics \subseteq Topics
      BY NamesAssumption DEF ownTopics
    <3> QED
      BY <2>2, <3>1 DEF NewKafkaConsumer, Advance, feedbackVars, IInv, TypeOK, GamesTypeOK
  <2>3. CASE createMessageHandler
    BY <2>3 DEF createMessageHandler, Advance, feedbackVars, IInv, TypeOK, GamesTypeOK
  <2>4. CASE Start
    BY <2>4 DEF Start, Advance, feedbackVars, IInv, TypeOK, GamesTypeOK
  <2> QED
    BY <2>1, <2>2, <2>3, <2>4 DEF Construct
<1>2. TypeOK'
  BY <1>1 DEF IInv, TypeOK, GamesTypeOK, Ended
<1>3. QueueExact'
  BY <1>1 DEF IInv, QueueExact
<1>4. HandlersComplete' /\ ConfiguredGamesServed'
  BY <1>1 DEF IInv, HandlersComplete, ConfiguredGamesServed
<1>5. RoutedByAnswer'
  BY <1>1 DEF IInv, RoutedByAnswer, routesToken, feedbackTopic, valueOf
<1> QED
  BY <1>2, <1>3, <1>4, <1>5 DEF IInv

\* A message that moves between the router and a push, outside msgChan, keeps what
\* is known of the others.
LEMMA MoveIInv ==
    ASSUME IInv, NEW m \in Messages,
           NEW to \in {"lost", "discarded", "admitted", "push"},
           at[m] \in {"router", "admitted"},
           to = "lost" => HomeOf[m].game \notin Apps[provider],
           Move(m, to),
           UNCHANGED <<provider, phase, topics, handlers, msgChan, feedbackVars>>
    PROVE  IInv'
<1>1. /\ at' \in [Messages -> {"unread", "msgChan", "router", "admitted", "lost",
                              "discarded", "push", "answered"}]
      /\ \A n \in Messages : n # m => at'[n] = at[n]
      /\ at'[m] = to
  BY DEF Move, IInv, TypeOK, GamesTypeOK
<1>2. TypeOK'
  BY <1>1 DEF IInv, TypeOK, GamesTypeOK, feedbackVars
<1>3. QueueExact'
  BY <1>1 DEF IInv, QueueExact, TypeOK, GamesTypeOK
<1>4. HandlersComplete' /\ ConfiguredGamesServed'
  BY <1>1 DEF IInv, HandlersComplete, ConfiguredGamesServed
<1>5. RoutedByAnswer'
  BY DEF IInv, RoutedByAnswer, routesToken, feedbackTopic, valueOf, feedbackVars
<1> QED
  BY <1>2, <1>3, <1>4, <1>5 DEF IInv

\* The consumer appends a message it read, or panics on a topic that it cannot parse.
LEMMA ReadMessageIInv ==
    ASSUME IInv, NEW m \in Messages, ReadMessage(m), UNCHANGED feedbackVars
    PROVE  IInv'
<1>1. UNCHANGED <<provider, topics, handlers, answer, feedback, deleted>> /\ at[m] = "unread"
  BY DEF ReadMessage, feedbackVars
<1>2. RoutedByAnswer'
  BY <1>1 DEF IInv, RoutedByAnswer, routesToken, feedbackTopic, valueOf
<1>3. CASE Parses(HomeOf[m])
  <2>1. /\ Len(msgChan) < ChannelSize
        /\ msgChan' = Append(msgChan, m)
        /\ at' = [at EXCEPT ![m] = "msgChan"]
        /\ phase' = phase
    BY <1>3 DEF ReadMessage, Move
  <2>2. msgChan \in Seq(Messages) /\ at \in [Messages -> {"unread", "msgChan", "router",
            "admitted", "lost", "discarded", "push", "answered"}]
    BY DEF IInv, TypeOK, GamesTypeOK
  <2>3. msgChan' \in Seq(Messages) /\ Len(msgChan') <= ChannelSize
    BY <2>1, <2>2, SendLast, GamesSizesAssumption
  <2>4. TypeOK'
    BY <1>1, <2>1, <2>2, <2>3 DEF IInv, TypeOK, GamesTypeOK
  <2>5. QueueExact'
    <3>1. \A i \in 1 .. Len(msgChan) : msgChan[i] \in Messages /\ msgChan[i] # m
      BY <1>1, <2>2 DEF IInv, QueueExact
    <3>2. \A i \in 1 .. Len(msgChan) : msgChan'[i] = msgChan[i]
      BY <2>1, <2>2, SendLast
    <3>3. Len(msgChan) \in Nat /\ Len(msgChan') = Len(msgChan) + 1 /\ msgChan'[Len(msgChan) + 1] = m
      BY <2>1, <2>2, SendLast
    <3>4. \A i \in 1 .. Len(msgChan') : i \in 1 .. Len(msgChan) \/ i = Len(msgChan) + 1
      BY <3>3
    <3>5. at'[m] = "msgChan" /\ \A i \in 1 .. Len(msgChan) : at'[msgChan[i]] = "msgChan"
      BY <2>1, <2>2, <3>1 DEF IInv, QueueExact
    <3> QED
      BY <3>1, <3>2, <3>3, <3>4, <3>5 DEF IInv, QueueExact
  <2>6. HandlersComplete' /\ ConfiguredGamesServed'
    <3>1. \A n \in Messages : at'[n] = "lost" => at[n] = "lost"
      BY <2>1, <2>2
    <3> QED
      BY <1>1, <2>1, <3>1 DEF IInv, HandlersComplete, ConfiguredGamesServed
  <2> QED
    BY <1>2, <2>4, <2>5, <2>6 DEF IInv
<1>4. CASE ~Parses(HomeOf[m])
  <2>1. phase' = "panicked" /\ UNCHANGED <<at, msgChan>>
    BY <1>4 DEF ReadMessage, Advance
  <2>2. TypeOK' /\ QueueExact'
    BY <1>1, <2>1 DEF IInv, TypeOK, GamesTypeOK, Ended, QueueExact
  <2>3. HandlersComplete' /\ ConfiguredGamesServed'
    BY <1>1, <2>1 DEF IInv, HandlersComplete, ConfiguredGamesServed
  <2> QED
    BY <1>2, <2>2, <2>3 DEF IInv
<1> QED
  BY <1>3, <1>4

\* The router takes the message that has been longest in msgChan.
LEMMA ReceiveIInv ==
    ASSUME IInv, Receive, UNCHANGED feedbackVars
    PROVE  IInv'
<1> DEFINE m == Head(msgChan)
<1>1. /\ msgChan # << >>
      /\ msgChan' = Tail(msgChan)
      /\ at' = [at EXCEPT ![m] = "router"]
      /\ UNCHANGED <<provider, phase, topics, handlers, answer, feedback, deleted>>
  BY DEF Receive, Move, feedbackVars
<1>2. msgChan \in Seq(Messages) /\ at \in [Messages -> {"unread", "msgChan", "router",
          "admitted", "lost", "discarded", "push", "answered"}]
  BY DEF IInv, TypeOK, GamesTypeOK
<1>3. /\ m \in Messages
      /\ msgChan' \in Seq(Messages)
      /\ Len(msgChan') = Len(msgChan) - 1
      /\ m = msgChan[1]
      /\ \A i \in 1 .. Len(msgChan') :
           msgChan'[i] = msgChan[i + 1] /\ i + 1 \in 1 .. Len(msgChan)
      /\ 1 \in 1 .. Len(msgChan)
  BY <1>1, <1>2, ReceiveHead
<1>4. at[m] = "msgChan"
  BY <1>3 DEF IInv, QueueExact
<1>5. Len(msgChan') <= ChannelSize
  BY <1>2, <1>3, GamesSizesAssumption DEF IInv, TypeOK, GamesTypeOK
<1>6. TypeOK'
  BY <1>1, <1>2, <1>3, <1>4, <1>5 DEF IInv, TypeOK, GamesTypeOK
<1>7. QueueExact'
  <2>1. \A i \in 1 .. Len(msgChan') : msgChan'[i] \in Messages /\ msgChan'[i] # m
    <3> SUFFICES ASSUME NEW i \in 1 .. Len(msgChan')
                 PROVE  msgChan'[i] \in Messages /\ msgChan'[i] # m
      OBVIOUS
    <3>1. msgChan'[i] = msgChan[i + 1] /\ i + 1 \in 1 .. Len(msgChan) /\ i + 1 # 1
      BY <1>3
    <3> QED
      BY <1>2, <1>3, <3>1 DEF IInv, QueueExact
  <2>2. \A i \in 1 .. Len(msgChan') : at'[msgChan'[i]] = "msgChan"
    BY <1>1, <1>2, <1>3, <2>1 DEF IInv, QueueExact
  <2>3. \A i, j \in 1 .. Len(msgChan') : msgChan'[i] = msgChan'[j] => i = j
    <3> SUFFICES ASSUME NEW i \in 1 .. Len(msgChan'), NEW j \in 1 .. Len(msgChan'),
                        msgChan'[i] = msgChan'[j]
                 PROVE  i = j
      OBVIOUS
    <3>1. i + 1 = j + 1
      BY <1>3 DEF IInv, QueueExact
    <3> QED
      BY <3>1
  <2> QED
    BY <2>2, <2>3 DEF QueueExact
<1>8. HandlersComplete' /\ ConfiguredGamesServed'
  BY <1>1, <1>2, <1>4 DEF IInv, HandlersComplete, ConfiguredGamesServed
<1>9. RoutedByAnswer'
  BY <1>1 DEF IInv, RoutedByAnswer, routesToken, feedbackTopic, valueOf
<1> QED
  BY <1>6, <1>7, <1>8, <1>9 DEF IInv

\* What the pusher and the router do.
LEMMA RunGamesIInv ==
    ASSUME IInv, RunGames, UNCHANGED feedbackVars
    PROVE  IInv'
<1>1. CASE Construct
  BY <1>1, ConstructIInv
<1>2. ASSUME NEW m \in Messages, ReadMessage(m) PROVE IInv'
  BY <1>2, ReadMessageIInv
<1>3. CASE Receive
  BY <1>3, ReceiveIInv
<1>4. ASSUME NEW m \in Messages, GameNotFound(m) PROVE IInv'
  <2>1. HomeOf[m].game \notin Apps[provider]
    BY <1>4 DEF GameNotFound, IInv, HandlersComplete
  <2> QED
    BY <1>4, <2>1, MoveIInv DEF GameNotFound
<1>5. ASSUME NEW m \in Messages, HandleMessages(m) PROVE IInv'
  BY <1>5, MoveIInv DEF HandleMessages
<1>6. ASSUME NEW m \in Messages, StartPush(m) PROVE IInv'
  BY <1>6, MoveIInv DEF StartPush
<1>7. CASE Exit
  <2>1. phase' = "exited" /\ UNCHANGED <<provider, topics, handlers, at, msgChan, answer, feedback, deleted>>
    BY <1>7 DEF Exit, Advance, feedbackVars
  <2>2. TypeOK' /\ QueueExact' /\ HandlersComplete' /\ ConfiguredGamesServed'
    BY <2>1 DEF IInv, TypeOK, GamesTypeOK, Ended, QueueExact, HandlersComplete, ConfiguredGamesServed
  <2>3. RoutedByAnswer'
    BY <2>1 DEF IInv, RoutedByAnswer, routesToken, feedbackTopic, valueOf
  <2> QED
    BY <2>2, <2>3 DEF IInv
<1> QED
  BY <1>1, <1>2, <1>3, <1>4, <1>5, <1>6, <1>7 DEF RunGames, routeMessages

\* The answer of a provider comes once, before there is a feedback.
LEMMA AnswerIInv ==
    ASSUME IInv, NEW m \in Messages, Answer(m)
    PROVE  IInv'
<1>1. PICK a \in {Accepted} \cup Answers[provider] : answer' = [answer EXCEPT ![m] = a]
  BY DEF Answer
<1>2. /\ at[m] = "push"
      /\ at' = [at EXCEPT ![m] = "answered"]
      /\ UNCHANGED <<provider, phase, topics, handlers, msgChan, feedback, deleted>>
  BY DEF Answer, Move
<1>3. answer[m] = "none" /\ feedback[m] = "none" /\ a # "none"
  BY <1>2, FeedbackAssumption DEF IInv, TypeOK, GamesTypeOK, Accepted
<1>4. /\ \A n \in Messages : n # m => answer'[n] = answer[n] /\ at'[n] = at[n]
      /\ answer'[m] = a /\ at'[m] = "answered"
  BY <1>1, <1>2 DEF IInv, TypeOK, GamesTypeOK
<1>5. TypeOK'
  <2>1. GamesTypeOK'
    BY <1>2 DEF IInv, TypeOK, GamesTypeOK
  <2>2. answer' \in [Messages -> {"none", Accepted} \cup Answers[provider]]
    BY <1>1 DEF IInv, TypeOK
  <2> QED
    BY <1>2, <1>3, <1>4, <2>1, <2>2 DEF IInv, TypeOK
<1>6. QueueExact'
  BY <1>2, <1>4 DEF IInv, QueueExact, TypeOK, GamesTypeOK
<1>7. HandlersComplete' /\ ConfiguredGamesServed'
  BY <1>2, <1>4 DEF IInv, HandlersComplete, ConfiguredGamesServed
<1>8. RoutedByAnswer'
  BY <1>2, <1>3, <1>4 DEF IInv, RoutedByAnswer, routesToken, feedbackTopic, valueOf
<1> QED
  BY <1>5, <1>6, <1>7, <1>8 DEF IInv

\* A feedback moves; to the deletion only if the broker routes it there.
LEMMA FeedbackIInv ==
    ASSUME IInv, NEW m \in Messages,
           NEW to \in {"produceChannel", "kafka", "undelivered", "token", "ignored",
                       "deleted", "undeleted"},
           MoveFeedback(m, to),
           UNCHANGED <<gamesVars, answer>>,
           answer[m] \notin {"none", Accepted},
           feedback[m] # "deleted",
           to \in {"token", "deleted", "undeleted"} => routesToken(feedbackTopic(m), valueOf(m)),
           \/ deleted' = deleted
           \/ to = "deleted" /\ deleted' = deleted \cup {<<m, feedbackTopic(m)>>}
    PROVE  IInv'
<1>1. UNCHANGED <<provider, phase, topics, handlers, at, msgChan, answer>>
  BY DEF gamesVars
<1>2. /\ feedback' \in [Messages -> {"none", "produceChannel", "kafka", "undelivered",
                                   "token", "ignored", "deleted", "undeleted"}]
      /\ \A n \in Messages : n # m => feedback'[n] = feedback[n]
      /\ feedback'[m] = to
  BY DEF MoveFeedback, IInv, TypeOK
<1>3. TypeOK'
  <2>1. deleted' \subseteq Messages \X Topics
    BY FeedbackTopicType DEF IInv, TypeOK
  <2> QED
    BY <1>1, <1>2, <2>1 DEF IInv, TypeOK, GamesTypeOK
<1>4. QueueExact' /\ HandlersComplete' /\ ConfiguredGamesServed'
  BY <1>1 DEF IInv, QueueExact, HandlersComplete, ConfiguredGamesServed
<1>5. \A n \in Messages :
        /\ feedbackTopic(n)' = feedbackTopic(n)
        /\ routesToken(feedbackTopic(n), valueOf(n))' <=> routesToken(feedbackTopic(n), valueOf(n))
  BY <1>1 DEF routesToken, feedbackTopic, valueOf
<1>6. ASSUME NEW n \in Messages, feedback'[n] \in {"token", "deleted", "undeleted"}
      PROVE  routesToken(feedbackTopic(n), valueOf(n))'
  BY <1>2, <1>5, <1>6 DEF IInv, RoutedByAnswer
<1>7. ASSUME NEW n \in Messages, NEW table \in Topics, <<n, table>> \in deleted'
      PROVE  table = feedbackTopic(n)' /\ feedback'[n] = "deleted"
  BY <1>2, <1>5, <1>7 DEF IInv, RoutedByAnswer
<1> QED
  BY <1>3, <1>4, <1>6, <1>7 DEF IInv, RoutedByAnswer

\* Every step keeps the invariant.
LEMMA StepIInv ==
    IInv /\ [Next]_vars => IInv'
<1> SUFFICES ASSUME IInv, [Next]_vars PROVE IInv'
  OBVIOUS
<1>1. CASE RunGames /\ UNCHANGED feedbackVars
  BY <1>1, RunGamesIInv
<1>2. ASSUME NEW m \in Messages, Answer(m) PROVE IInv'
  BY <1>2, AnswerIInv
<1>3. ASSUME NEW m \in Messages, SendFeedback(m) PROVE IInv'
  <2>1. answer[m] \notin {"none", Accepted}
    BY <1>3 DEF SendFeedback, IInv, TypeOK
  <2> QED
    BY <1>3, <2>1, FeedbackIInv DEF SendFeedback
<1>4. ASSUME NEW m \in Messages, Deliver(m) PROVE IInv'
  <2>1. answer[m] \notin {"none", Accepted}
    BY <1>4 DEF Deliver, IInv, TypeOK
  <2> QED
    BY <1>4, <2>1, FeedbackIInv DEF Deliver
<1>5. ASSUME NEW m \in Messages, BrokerRoute(m) PROVE IInv'
  <2>1. answer[m] \notin {"none", Accepted}
    BY <1>5 DEF BrokerRoute, IInv, TypeOK
  <2>2. CASE routesToken(feedbackTopic(m), valueOf(m))
    BY <1>5, <2>1, <2>2, FeedbackIInv DEF BrokerRoute
  <2>3. CASE ~routesToken(feedbackTopic(m), valueOf(m))
    BY <1>5, <2>1, <2>3, FeedbackIInv DEF BrokerRoute
  <2> QED
    BY <2>2, <2>3
<1>6. ASSUME NEW m \in Messages, deleteToken(m) PROVE IInv'
  <2>1. answer[m] \notin {"none", Accepted} /\ routesToken(feedbackTopic(m), valueOf(m))
    BY <1>6 DEF deleteToken, IInv, TypeOK, RoutedByAnswer
  <2> QED
    BY <1>6, <2>1, FeedbackIInv DEF deleteToken
<1>7. CASE UNCHANGED vars
  <2>1. UNCHANGED <<provider, phase, topics, handlers, at, msgChan, answer, feedback, deleted>>
    BY <1>7 DEF vars, gamesVars, feedbackVars
  <2>2. TypeOK' /\ QueueExact' /\ HandlersComplete' /\ ConfiguredGamesServed'
    BY <2>1 DEF IInv, TypeOK, GamesTypeOK, QueueExact, HandlersComplete, ConfiguredGamesServed
  <2>3. RoutedByAnswer'
    BY <2>1 DEF IInv, RoutedByAnswer, routesToken, feedbackTopic, valueOf
  <2> QED
    BY <2>2, <2>3 DEF IInv
<1> QED
  BY <1>1, <1>2, <1>3, <1>4, <1>5, <1>6, <1>7 DEF Next, Push, Listen

\* So it holds in every state of a behaviour.
LEMMA Invariance ==
    Spec => []IInv
<1> QED
  BY InitIInv, StepIInv, PTL DEF Spec

-----------------------------------------------------------------------------

\* The states of the pusher, its router and the feedback path have their types; a
\* feedback is only that of an answer.
THEOREM TypeCorrect == Spec => []TypeOK
<1>1. IInv => TypeOK
  BY DEF IInv
<1> QED
  BY <1>1, Invariance, PTL

\* For any games, configuration and topics: the router finds the handler of every
\* configured game, for no message is read before all of them exist.
THEOREM ServedCorrect == Spec => []ConfiguredGamesServed
<1>1. IInv => ConfiguredGamesServed
  BY DEF IInv
<1> QED
  BY <1>1, Invariance, PTL

\* For any answers of the providers: a token is deleted from its own table only if the
\* provider of that table called it invalid, and never from that of another game.
THEOREM DeletionCorrect == Spec => []OnlyInvalidDeleted
BY OnlyInvalidFollows, Invariance, PTL
=============================================================================
