------------------------------- MODULE Games -------------------------------
(***************************************************************************)
(* The construction of a pusher (pusher/apns.go, pusher/gcm.go,            *)
(* pusher/reporters.go) and its several games behind one router            *)
(* (pusher/pusher.go, extensions/common.go).  A pusher has one provider,   *)
(* APNs or FCM; it shares Kafka and the configuration file with others.    *)
(*                                                                         *)
(* The goroutines of one game are in APNSPusher and FCMPusher, the wait    *)
(* group and the shutdown in Pusher.  Here a message has a topic, and a    *)
(* game has room for a bounded number of pushes.                           *)
(***************************************************************************)
EXTENDS Integers, FiniteSets, Sequences

CONSTANTS
    Messages,
    Games,          \* the names of the games
    ParsableNames,  \* those of word characters, with single - or _ in between
    HomeOf,         \* the game and platform in the name of a message's topic
    Apps,           \* the games configured for each provider
    Configured,     \* the topics that queue.topics matches
    ChannelSize,    \* queue.channelSize
    PushCapacity    \* pushes a game can have under way

Providers == {"apns", "gcm"}
Platforms == {"apns", "gcm", "ios"}
Topics == [game : Games, platform : Platforms]

ASSUME NamesAssumption ==
    /\ HomeOf \in [Messages -> Topics]
    /\ Apps \in [Providers -> SUBSET Games]
    /\ Configured \subseteq Topics
ASSUME GamesSizesAssumption == {ChannelSize, PushCapacity} \subseteq Nat \ {0}

VARIABLES
    provider,  \* the pusher's
    phase,     \* how far its construction is, or how it ended
    topics,    \* what its consumer subscribes to
    handlers,  \* the games it has a MessageHandler for
    at,        \* where each message is
    msgChan

gamesVars == <<provider, phase, topics, handlers, at, msgChan>>

Ended == {"failed", "panicked", "exited"}

GamesTypeOK ==
    /\ provider \in Providers
    /\ phase \in {"reporters", "consumer", "handlers", "running"} \cup Ended
    /\ topics \subseteq Topics
    /\ handlers \subseteq Apps[provider]
    /\ at \in [Messages ->
             {"unread", "msgChan", "router", "admitted", "lost",
              "discarded", "push", "answered"}]
    /\ msgChan \in Seq(Messages) /\ Len(msgChan) <= ChannelSize

GamesInit ==
    /\ provider \in Providers
    /\ phase = "reporters"
    /\ topics = {}
    /\ handlers = {}
    /\ at = [m \in Messages |-> "unread"]
    /\ msgChan = << >>

Advance(to) == phase' = to

Move(m, to) == at' = [at EXCEPT ![m] = to]

-----------------------------------------------------------------------------
(* Construction                                                            *)

\* The stats and feedback reporters; one that is unknown or fails ends it.
configureReporters ==
    /\ phase = "reporters"
    /\ Advance("consumer") \/ Advance("failed")
    /\ UNCHANGED <<provider, topics, handlers, at, msgChan>>

\* A pusher reads the topics of its games besides those of queue.topics.  The FCM
\* pusher also sends to iOS devices.
ownTopics ==
    {t \in Topics : /\ t.game \in Apps[provider]
                    /\ t.platform \in IF provider = "gcm" THEN {"gcm", "ios"} ELSE {"apns"}}

NewKafkaConsumer ==
    /\ phase = "consumer"
    /\ \/ Advance("handlers") /\ topics' = Configured \cup ownTopics
       \/ Advance("failed") /\ UNCHANGED topics
    /\ UNCHANGED <<provider, handlers, at, msgChan>>

\* Mutant of createMessageHandler: a game that cannot be initialised is passed over.
createMessageHandlerOrSkip ==
    /\ phase = "handlers"
    /\ \E g \in Apps[provider] \ handlers :
         \/ handlers' = handlers \cup {g} /\ UNCHANGED phase
         \/ Advance("running") /\ UNCHANGED handlers
    /\ UNCHANGED <<provider, topics, at, msgChan>>

\* One game after the other; an error ends the process, which is panicked by its
\* command, or ended by Fatalf for lack of credentials.
createMessageHandler ==
    /\ phase = "handlers"
    /\ \E g \in Apps[provider] \ handlers :
         \/ handlers' = handlers \cup {g} /\ UNCHANGED phase
         \/ Advance("failed") /\ UNCHANGED handlers
    /\ UNCHANGED <<provider, topics, at, msgChan>>

Start ==
    /\ phase = "handlers"
    /\ Apps[provider] \subseteq handlers
    /\ Advance("running")
    /\ UNCHANGED <<provider, topics, handlers, at, msgChan>>

Construct ==
    configureReporters \/ NewKafkaConsumer \/ createMessageHandler \/ Start

-----------------------------------------------------------------------------
(* Routing                                                                 *)

\* topicRegex, greedy and anchored at the start, finds the last platform of the
\* name, which is the one that ends it but for -single, -massive or -feedbacks; so
\* the game is exact.  A name it does not match leaves no submatch to index.
Parses(topic) == topic.game \in ParsableNames

ReadMessage(m) ==
    /\ phase = "running"
    /\ at[m] = "unread"
    /\ HomeOf[m] \in topics
    /\ IF Parses(HomeOf[m])
         THEN /\ Len(msgChan) < ChannelSize
              /\ msgChan' = Append(msgChan, m)
              /\ Move(m, "msgChan")
              /\ UNCHANGED phase
         ELSE Advance("panicked") /\ UNCHANGED <<provider, at, msgChan>>
    /\ UNCHANGED <<provider, topics, handlers>>

\* The router has one message in hand.
Receive ==
    /\ phase = "running"
    /\ \A m \in Messages : at[m] \notin {"router", "admitted"}
    /\ msgChan # << >>
    /\ msgChan' = Tail(msgChan)
    /\ Move(Head(msgChan), "router")
    /\ UNCHANGED <<provider, phase, topics, handlers>>

GameNotFound(m) ==
    /\ phase = "running"
    /\ at[m] = "router"
    /\ HomeOf[m].game \notin handlers
    /\ Move(m, "lost")
    /\ UNCHANGED <<provider, phase, topics, handlers, msgChan>>

\* Mutant of UnderWay: a push keeps its room when it has been answered.
UnderWayOrAnswered(g) ==
    {m \in Messages : at[m] \in {"push", "answered"} /\ HomeOf[m].game = g}

UnderWay(g) == {m \in Messages : at[m] = "push" /\ HomeOf[m].game = g}

\* The handler of the game is called whatever the platform of the topic, and
\* discards the message or goes on with it.
HandleMessages(m) ==
    /\ phase = "running"
    /\ at[m] = "router"
    /\ HomeOf[m].game \in handlers
    /\ Move(m, "discarded") \/ Move(m, "admitted")
    /\ UNCHANGED <<provider, phase, topics, handlers, msgChan>>

\* The handler keeps the router while it has no room for a push.
StartPush(m) ==
    /\ phase = "running"
    /\ at[m] = "admitted"
    /\ Cardinality(UnderWay(HomeOf[m].game)) < PushCapacity
    /\ Move(m, "push")
    /\ UNCHANGED <<provider, phase, topics, handlers, msgChan>>

routeMessages ==
    \/ Receive
    \/ \E m \in Messages : GameNotFound(m) \/ HandleMessages(m) \/ StartPush(m)

\* A signal may end a pusher at any time, gracefully or not.
Exit ==
    /\ phase = "running"
    /\ Advance("exited")
    /\ UNCHANGED <<provider, topics, handlers, at, msgChan>>

RunGames ==
    \/ Construct
    \/ \E m \in Messages : ReadMessage(m)
    \/ routeMessages
    \/ Exit

-----------------------------------------------------------------------------
(* Properties                                                              *)

\* No message of a configured game is dropped for want of a handler, whatever other
\* topics the pusher reads: it starts with all its handlers or not at all, and reads
\* nothing before.
ConfiguredGamesServed ==
    \A m \in Messages : at[m] = "lost" => HomeOf[m].game \notin Apps[provider]

\* While every push is answered, one game with no room for another push does not
\* hold up the messages of the other games for ever, although one goroutine routes
\* all of them and waits for that room.
EveryMessageRouted ==
    <>[](phase \in Ended \/ \A m \in Messages : at[m] \notin {"msgChan", "router", "admitted"})
=============================================================================
