# Verification of topfreegames/pusher

Pusher is a Go service. It reads push notifications from Kafka, sends them to
APNs or to FCM, and reports to statsd and to a Kafka feedback topic what became
of them. A second program, the feedback listener, reads that topic and deletes
invalid device tokens from PostgreSQL. This directory holds TLA+ models of the
two programs, the TLC instances that check them, and proofs that hold for every
number of messages, workers and processes and every channel size.

Source paths below are relative to `src/`.

## 1. The system

### Components

| Component | Source | State | Operations | Modelled |
|---|---|---|---|---|
| Queue (Kafka consumer) | `extensions/kafka_consumer.go` | `msgChan`, `stopChannel`, the pending wait group, its offsets | `ConsumeLoop`, `receiveMessage`, `StopConsuming`, `Pause`, `Resume`, `Cleanup` | `KafkaConsumer`; commits, group, `Pause`, `Resume`, `Cleanup` in `Offsets` |
| Pusher | `pusher/pusher.go`, `pusher/common.go` | the main and the routing goroutine | `Start`, `routeMessages`, `GracefulShutdown`, `WaitTimeout` | `Pusher`; several games in `Games` |
| APNs push queue | `extensions/apns/apns_push_queue.go` | `pushChannel`, `responseChannel`, clients, workers | `pushWorker`, `Push`, `Close` | `APNSPushQueue` |
| APNs message handler | `extensions/apns/apns_message_handler.go` | attempts per notification | `HandleMessages`, `HandleResponses`, `handleAPNSResponse` | `APNSPusher`; its checks in `Admission`, its feedback in `FeedbackPath` |
| FCM message handler | `extensions/firebase/message_handler.go` | token channel, `responsesChannel`, senders | `HandleMessages`, `sendPush`, `HandleResponses` | `FCMPusher`; its checks in `Admission`, its feedback in `FeedbackPath` |
| FCM client | `extensions/firebase/client/` | none | `SendPush` | `FeedbackPath` (errors, not the message it builds) |
| Rate limiter | `extensions/rate_limiter.go` | counters in Redis, by device and minute | `Allow` | `RateLimiter`, `Admission`; a choice of its verdict in the pushers |
| Deduplication | `extensions/dedup_messages.go` | keys with a TTL in Redis | `IsUnique` | `Admission` |
| Feedback producer | `extensions/kafka_producer.go` | the channel of the Kafka client | `SendFeedback`, `listenForKafkaResponses` | `FeedbackPath` |
| Stats reporters | `extensions/datadog_statsd.go`, `extensions/common.go` | none | `Handle...` | counters of what is reported |
| Construction | `pusher/apns.go`, `pusher/gcm.go`, `pusher/reporters.go` | topics, handlers | `NewAPNSPusher`, `NewGCMPusher`, `createMessageHandlerForApps` | `Games` |
| Feedback listener | `feedback/listener.go`, `feedback/kafka_consumer.go` | as the queue | `Start`, `flushStats`, `Cleanup`, `gracefulShutdown`; `ConsumeLoop`, `StopConsuming` | `FeedbackListener` on `KafkaConsumer`; commits in `Offsets` |
| Feedback broker | `feedback/broker.go` | `InvalidTokenOutChan` | `processMessages`, `route...`, `confirmMessage`, `Stop` | `FeedbackListener`; what it routes in `FeedbackPath` |
| Invalid token handler | `feedback/invalid_token.go` | buffer, flush ticker | `processMessages`, `deleteTokens`, `Stop` | `FeedbackListener` |
| Timeout heap | `extensions/timeout_heap.go` | a heap of deadlines | add, expire | no: no code uses it |
| PostgreSQL | `extensions/pg.go` | connection | `WaitForConnection` | no: it connects before anything runs |
| Commands, configuration, types | `cmd/`, `config/`, `util/`, `structs/`, `interfaces/`, `errors/` | none at run time | | no: their result is the `CONSTANTS` |

### How they interact

```
Kafka --ReadMessage--> ConsumeLoop --msgChan--> routeMessages --call--> HandleMessages
                       wg.Add(1)                                        |  early return: wg.Done
   APNs:  HandleMessages --pushChannel--> pushWorker --responseChannel--> HandleResponses
                              ^                                           | wg.Done, then reports
                              +------------- retry on 429 ----------------+
   FCM:   HandleMessages --token, go--> sendPush --responsesChannel--> HandleResponses
                                                                          reports, then wg.Done
   main:  signal --> close(stopChannel) --> wg.Wait, at most gracefulShutdownTimeout --> exit

Feedback listener:
Kafka --ReadMessage--> ConsumeLoop --msgChan--> Broker --InvalidTokenOutChan--> InvalidTokenHandler
                       wg.Add(1)                wg.Done                         buffer --DELETE--> PostgreSQL
   main:  signal --> Cleanup: stop consumer, close it, stop broker (closes InvalidTokenOutChan),
                     stop token handler --> wg.Wait, at most gracefulShutdownTimeout --> exit

Between the two programs, and between processes of one program:
HandleResponses --SendFeedback--> Kafka (push-<game>-<platform>-feedbacks) --> ConsumeLoop of the listener
HandleMessages --SET NX, GET, INCR--> Redis, shared by all processes of a platform
Kafka group: one process has a partition; it commits what was read, by a timer
```

Every arrow with a channel is bounded and blocks when full. The only shared
counter in a process is the pending wait group, which the consumer increments,
every handler goroutine decrements and the shutdown waits on.

### What makes it correct, and what is hard

* **Consumer.** A message is counted before anybody can finish it; after the stop
  the consumer reads at most the message of the `ReadMessage` already under way.
  Hard: the stop is looked at before a read that takes up to 100 ms.
* **Offsets.** A message is marked for commit when it is read. What a crash, a timeout
  or a late read can lose is bounded; a message is read again only if its partition
  changed hands without a commit. Hard: group, timer, shutdown and restarts interleave.
* **Construction and router.** A pusher has a handler for every configured game or does
  not start; each message goes to one handler, once. Hard: the handler runs in
  the router's goroutine, so a full push queue stops all routing.
* **Admission.** A message ends once; quota is spent on what is sent; one message of a
  content is unique in each time to live. Hard: the checks read and write a Redis that
  other processes use, and the two platforms have them in a different order.
* **Feedback path.** The token that its provider calls invalid, and no other, is deleted
  from its own table. Hard: two programs, five components and a topic name must agree on
  games, platforms and error names, and no test has more than one of them.
* **APNs queue and handler.** A notification is in one place at a time; it is sent
  at most `maxRetryAttempts` times; each message counts once as sent and once as
  acked or failed; `Done` is called once. Hard: the response goroutine is also a
  sender of `pushChannel`.
* **FCM handler.** Tokens are conserved; reports come before `Done`. Hard: a
  goroutine per push, several response handlers, a bounded response channel.
* **Shutdown.** The wait group reaches zero when every message was handled, and a
  graceful exit means so. Hard: `Add` runs concurrently with `Wait`.
* **Feedback listener.** Each feedback message is confirmed once; a token it reports
  is deleted or its deletion fails, once; a full channel or buffer, or the lock of the
  buffer, stops nothing for ever. Hard: the order in which `Cleanup` stops and closes
  what other goroutines still use.
* **Rate limiter.** A device gets about the limit of messages in a minute, and never
  less. Hard: the count is read and incremented in two Redis commands, other
  processes do the same, and the minute may end in between.

The hazards, each with its line and the properties that watch it, are in
`PROJECT.json`.

## 2. The modules

| Module | Models | Composed of |
|---|---|---|
| `WaitGroup` | `sync.WaitGroup`, external: the counter, one waiter, the misuse panics | |
| `KafkaConsumer` | the goroutine of `ConsumeLoop` | `WaitGroup` |
| `Pusher` | `routeMessages`, `Start`, `GracefulShutdown`, `WaitTimeout`; the properties of the shutdown | `KafkaConsumer` |
| `APNSPushQueue` | workers and channels | `Pusher` |
| `APNSPusher` | the APNs handler; the whole APNs process and its `Spec` | `APNSPushQueue` |
| `FCMPusher` | the FCM handler; the whole FCM process and its `Spec` | `Pusher` |
| `PushDelivery` | abstract: what either process promises about messages and its exit | |
| `FeedbackListener` | broker, token handler and main goroutine of the feedback listener; its `Spec` | `KafkaConsumer` |
| `RateLimiter` | `Allow` in several processes, one device, one Redis | |
| `Offsets` | one partition, the members of its consumer group, commits, crashes and restarts, for either program | |
| `Admission` | the checks of both `HandleMessages` in several processes, with Redis | `RateLimiter` |
| `Games` | the construction of a pusher, its games and its router | |
| `FeedbackPath` | from the answer of a provider to the `DELETE`; its `Spec` | `Games` |
| `MCAPNSPusher`, `MCFCMPusher`, `MCFeedbackListener`, `MCRateLimiter`, `MCOffsets`, `MCAdmission`, `MCFeedbackPath` | small instances for TLC | |
| `KafkaConsumerProofs` | lemmas on channels, moves of messages, the wait group and `ConsumeLoop` | `KafkaConsumer` |
| `PusherProofs` | what `Start` and any handler preserve: the count, the shutdown, the refinement | `Pusher`, `KafkaConsumerProofs` |
| `APNSPusherProofs` | the theorems of the APNs pusher | `APNSPusher`, `PusherProofs` |
| `FCMPusherProofs` | the theorems of the FCM pusher | `FCMPusher`, `PusherProofs` |
| `FeedbackListenerProofs` | the theorems of the feedback listener | `FeedbackListener`, `KafkaConsumerProofs` |
| `AdmissionProofs` | the theorems of the rate limiter and of the checks that call it | `Admission` |
| `OffsetsProofs` | the theorems of the commits | `Offsets` |
| `FeedbackPathProofs` | the theorems of the router and the feedback path | `FeedbackPath` |

### Correspondence

* **Goroutines.** A goroutine is a record of a control point `pc` and the message
  it has in hand: `consumer`, `router`, `worker[w]`, `responder`, `handler[h]`. An
  FCM sender belongs to one message, so `sender[m]` is its control point. `main`
  is the goroutine of `Start` and names how the process ended; `waiter` is the
  goroutine that `WaitTimeout` starts. The control points are the places where
  another goroutine can see the difference: before and after a channel operation,
  a wait group call, a report, a call of the push service.
* **Messages.** A member of `Messages` is one delivery of the broker. Its content
  is abstracted; every decision the content, Redis or the clock takes part in
  (`Discard` against `SendNotification` or `Admit`; known or unknown game) is open.
  `stage[m]` records which goroutine or channel has the message. The actions set
  it where the code hands the message on, and no guard but that of `ReadMessage`
  (a message is read once) looks at it: all other guards read program state.
  `SingleCustody` shows that both views agree.
* **Channels** are sequences with the capacity of the `make` call. Capacity zero
  (a rendezvous) is not modelled; no configuration of the repository uses it.
* **The wait group** is nil when `handleAllMessagesBeforeExiting` is false; then
  `PendingAdd` and `waitGroupDone` do nothing and the process exits at once
  (`unwaited`).
* **The wait group's panics** follow the library: `Done` below zero, and a waiter
  that was released and finds the counter non-zero. `WakeUp` is the separate
  step in which the released waiter looks again.
* **Reports** are counters by message: `sent`, `acked`, `failed`, `feedback`.
* **Client pool.** Taking an APNs client and putting it back are two adjacent lines
  and leave the pool as it was, so `WorkerTake` includes them. With a pool of one
  or more clients they never block for long.
* **The feedback listener's consumer** has the control of the pusher's, so it is the
  same module: `stopChannel` stands for its `consumerContext`, and `ctxDone`, for the
  two channels nobody closes, stays `FALSE`. After `Close` of the Kafka consumer a read
  returns no message (`Consume`).
* **Tokens.** `token[m]` is what became of the token that message `m` reports, if it
  reports one (an open choice of `Route`). A flush runs under `BufferLock`; the token
  handler is the only goroutine that takes it but `flushStats`, so `handler = "flush"`
  is the lock, and `untried` the tables whose `DELETE` is still to come, in any order
  (Go iterates a map in a random order).
* **The rate limiter's time** is a minute, a second and the time to live of each key,
  all advanced by `Tick`. `call[p]` has the control points between the clock, the `GET`
  and the transaction, and the age of the call. `allowed` and `failedOpen` are history:
  no guard reads `allowed`, and `failedOpen` only bounds the number of errors.
* **Offsets.** `member[p]` is what process `p` knows of its own consumer and `owner`,
  `committed` what the coordinator knows; they differ between an eviction and its
  notice, when the process goes on with what it has fetched. `held[p]` is every message
  between `ReadMessage` and `Done`, wherever `Pusher` or `FeedbackListener` has it.
  `program` is chosen once: the pusher never closes its consumer; the listener does,
  before it waits (`Cleanup`). `reads`, `exits`, `interruptions` are history.
* **Admission.** All messages are of one device and one content, the case in which
  processes meet in Redis; messages of different devices share no key. `handling[p]`
  is the place in `HandleMessages`. What a payload says (it parses, it has a
  content, it has expired) is a choice. `RateLimit` is each step of `Allow` in
  `RateLimiter`, and its last one goes on as the handler does.
* **Games and the feedback path.** `HomeOf[m]` is the topic of message `m`, which the
  producers of messages name after the game and platform of the token, and so the table
  that has the token. A topic is a record of game and platform: its suffix (`-single`,
  `-massive`, `-feedbacks`) is neither read nor told apart. `ParsableNames` and
  `PlainNames` are the names that the two regular expressions take: `topicRegex`
  and the listener's subscription. A provider answers what it likes, also
  `Unregistered` to a token of the other platform.
* **The process ends** with `main` in an exit state; nothing moves after that.
  `Terminated` stutters there, so TLC's deadlock check stays on and would report
  any live state without a step.

## 3. Runs

All channels have one slot (the token buffer two), so every blocking send and every full channel
happens with few messages.

| Run | Instance | Shows |
|---|---|---|
| `APNSPusherSafety` | 3 messages, 2 workers, 3 reasons, 2 attempts (1.1 million states under symmetry) | the invariants below and `ImplementsDelivery` |
| `APNSPusherLiveness` | 3 messages, 1 worker | `EveryMessageAccounted`, `ShutdownDrains` |
| `FCMPusher` | 3 messages, 2 tokens and handlers | the FCM invariants, `ImplementsDelivery`, `EveryMessageAccounted`, `ShutdownDrains` |
| `FeedbackListener` | 3 messages, tokens in 2 tables, buffer of 2 | the invariants of the feedback listener, `EveryTokenTried`, `ShutdownDrains` |
| `RateLimiterSafety` | 2 processes, limit 1, minutes of 2 seconds, hours of 3 minutes, one error a minute, 4 minutes | `RateBounded`, `RefusedOverLimit` |
| `Offsets` | 2 processes, a log of 2, capacity 2, 2 stops, crashes or evictions, either program | `LossBounded`, `DuplicatesPaid`, `EveryMessageSettled` |
| `Admission` | 2 processes, 4 messages, limit 1, keys that live 2 seconds, either platform | `QuotaAccounted`, `UniqueOncePerTtl` |
| `FeedbackPath` | 4 games, 5 tokens on 3 platforms, either provider, room for 1 push in each game | `ConfiguredGamesServed`, `OnlyInvalidDeleted`, `EveryMessageRouted`, `InvalidTokenDeleted` |
| `LateAdd` | 2 messages, 1 worker | finding, see below |
| `RetryStall` | 4 messages, 1 worker | finding, see below |
| `SendOnClosed` | as `FeedbackListener` | finding, see below |
| `IosTokenKept` | 2 tokens of one game, Android and iOS | finding, see below |

Properties, in words:

* `SingleCustody`: every message read is in exactly one channel or goroutine.
* `PendingExact`: the wait group is the number of messages added and not handled.
* `ShutdownOrder`, `GracefulExitLosesAtMostOne`: the order of the shutdown and what
  it guarantees. The second follows from the first (a lemma of the proof says so);
  it is the one a user cares about.
* `RetriesBounded`, `ReportsExact`: retries stop at the limit and not earlier, and do
  not show in the counters (`apns_message_handler.go:315`: "retries are transparent
  and are not counted as sent or received messages").
* `TokensConserved`, `ReportedWhenDone`: the semaphore of `sendPush`; reports come
  before `Done`.
* `ImplementsDelivery`: both processes refine `PushDelivery` under the mapping
  `deliveryOf`, `processOf`, `readingOf` of `Pusher`: a message is read once, then
  settled or lost for good; after the stop at most one read succeeds; a graceful
  exit leaves at most one message behind.
* `EveryMessageAccounted`, `ShutdownDrains`: liveness.
* `TokenCustody`: a token is in the channel or in the buffer, once, until its table is
  tried, and is tried once, whichever `DELETE` of the flush fails.
* `EveryTokenTried`: liveness of the feedback listener.
* `RateBounded`: at most `RpmLimit + 2N - 1` allowed calls in a minute with `N` processes,
  not counting those that met a Redis error: `N - 1` for the race for the last one, and
  `N` for calls that read the clock at the end of the minute and Redis after it. TLC
  finds the bound reached.
* `RefusedOverLimit`: a refused call had the limit allowed before it in its minute.
* `LossBounded`: of the messages behind the committed offset that nobody handled and
  nobody has, each graceful exit cost at most one and each other end of a process at
  most what it could hold. Rebalances, evictions and restarts cost none.
* `DuplicatesPaid`: a message is read once more for each time its partition changed
  hands without a commit, and never otherwise.
* `EveryMessageSettled`: liveness of `Offsets`: every message of the log is handled,
  is one that an exit took, or lies before the point where `auto.offset.reset` began.
* `QuotaAccounted`: every message taken ends in one way or is on its way; every call
  that `Allow` has allowed belongs to a message sent, on its way or, with APNs only,
  found expired afterwards (`apns_message_handler.go:278`).
* `UniqueOncePerTtl`: Redis calls one message of a content unique, then none until
  the key has lived its time, and then one again.
* `ConfiguredGamesServed`: the message of a configured game always finds its handler. The
  router does not check that it has them all (`pusher.go:98`): a pusher whose construction
  fails half-way must end, and it reads nothing before it is complete.
* `OnlyInvalidDeleted`: a token is deleted from its own table only if the provider of
  that table called it invalid. With the default `queue.topics` (`config/default.yaml:37`)
  a pusher also reads the topics of the other platform and sends their messages to its
  own provider. It is then told that foreign tokens are unregistered, and the listener
  acts on it, but in the table of the asker's platform, where the token is not.
* `EveryMessageRouted`: liveness of the router over several games, while every push is
  answered. `RetryStall` is a case where one is not, and then the router, which
  all games share, stops for all of them.
* `InvalidTokenDeleted`: liveness of the feedback path.

**Why the bounds are enough.** Two workers are the least that can race; three
messages fill one channel, one goroutine and leave one to interfere; one retry
(two attempts) takes the retry path and reaches its limit. The third reason
stands for every failure that is not retried: `handleAPNSResponse` treats them
alike but for the metadata of the feedback. The feedback listener needs a third
message so that a buffer of two fills while a token waits in the channel, and two
tables so that one `DELETE` can fail and the next be tried. The rate limiter's clock
goes once around its hour, so the key of a minute is met again; two seconds are the
least that make a call end in another minute than it began. `Offsets` needs two
processes to change hands, two messages so that one can be committed while another is
held, and two faults so that an eviction or a crash can follow a stop; a third process or
message adds states of the same kind. Four messages in `Admission` are two for each
process, so that a call meets what an earlier one left and the key expires in between.
The games of `FeedbackPath` are one of each kind: on both platforms, on Android only,
with a separator in its name (parsed, but outside the listener's default pattern)
and with a name that the parser does not take apart. Symmetry is used for safety only. The
liveness runs use `LivenessSpec`, which reads the messages in one order (they
differ in their names only) and never cancels the context (as both commands do).
In the feedback listener only the two messages of one table are put in order.

**Fairness** (`Fairness` in each module). Each goroutine is weakly fair: the Go
scheduler runs whatever can run. A blocked channel send is strongly fair, because
Go queues blocked senders first come, first served. A push to the service
returns, and so does a `DELETE`. The token handler's `select` and its mutex are
strongly fair: Go chooses at random among what is ready, and a waiter that starves
for a millisecond gets the mutex next. In `Offsets` the group assigns a free
partition and tells a former owner, a process that runs reads and handles, a stopped one
ends (by its timeout at the latest) and is restarted, and the caller of `Pause` calls
`Resume` (both are methods of the consumer that nothing in the repository calls); reading is strongly fair, because the partition may move in between. In
`FeedbackPath` the goroutines of the pusher and the listener run, and providers, Kafka and
the database answer, with a success or an error; a send to the channel of the Kafka
client is a blocked send. Nothing obliges a message to be read or a pusher to be built. Nothing obliges the broker to deliver, a signal to come, the context to be
cancelled, or the shutdown timer to fire: these stay possible and are never assumed.

**Liveness of the APNs pusher holds only below a bound.** With `N` messages in
flight and `N <= PushQueueSize + ResponseChannelSize + |Workers|` (three in the
run) the retrying responder always finds room in the end. With one more it need not:
that is the finding of `RetryStall`. That responder and workers do not block one another
below the bound is proved for every size (`CircularCorrect` in section 4).

### Findings

What a comment, a log line or a document says, and TLC refutes:

1. `LateAdd`: `ReadMessage` may be under way at the stop, and the `Add` of its message
   (`kafka_consumer.go:272`) can come between the last `Done` and the return of `Wait`:
   a panic.
2. `RetryStall`: the responder, blocked in `Push` of a retry
   (`apns_message_handler.go:326`), the workers, blocked on `responseChannel`, and the
   router wait on one another for ever. With the default sizes this takes
   more than 210 messages in flight and an answer of 429.
3. `SendOnClosed`: `Broker.Stop` closes `InvalidTokenOutChan` (`feedback/broker.go:112`)
   while the broker may be about to send on it, or blocked in the send: a panic.
4. `IosTokenKept`: the FCM pusher also sends to iOS devices (`pusher/gcm.go:85`) and reports
   their feedback on `push-<game>-ios-feedbacks`. The default subscription of the listener
   (`config/default.yaml:80`) does not match that topic, and the switch of the broker
   (`feedback/broker.go:124`) has no case for it: such a token is never deleted.

What the passing runs say of limits the code accepts:

* A graceful exit can leave behind the message of the `ReadMessage` that was under way
  at the stop, and no other (`GracefulExitLosesAtMostOne`).
* The APNs handler calls `Done` before it reports (`apns_message_handler.go:341`), so a
  graceful exit can lose the reports the responder still has in hand, and no others
  (`ReportsExact`). The FCM handler has the other order (`ReportedWhenDone`).
* `Cleanup` of the feedback listener stops the broker before it waits for the messages
  only the broker confirms (`feedback/listener.go:211`); one left in its channel costs
  the whole timeout, and nothing else does (`ShutdownDrains`).
* A message of an unknown game (`pusher.go:100`) or a push without a response
  (`apns_push_queue.go:143`) is never taken out of the wait group, so the shutdown runs into
  its timeout: the exception of the pushers' `ShutdownDrains`.
* Tokens in the buffer at the exit are not deleted (`feedback/invalid_token.go:168`), and the
  feedback that is still in the Kafka client at the exit is not sent
  (`kafka_producer.go:144`). The next push to the token reports it again.
* Processes that read the same count are all allowed (`rate_limiter.go:85`); `RateBounded` is
  the limit they keep together.
* Messages are committed when they are read, so a process that ends without having
  handled what it holds loses it; the listener commits even on its regular exit, before
  its queue is drained (`LossBounded`).
* The APNs handler spends a device's quota on messages that then turn out to be expired
  (`QuotaAccounted`).
* `BAD_REGISTRATION`, which the broker looks for, is no key of `translateError`: tokens that
  FCM calls an invalid argument stay. Nothing in the repository says they should go.
* A game with `-` or `_` in its name is parsed everywhere but lies outside the default
  subscription of the listener. `InvalidTokenDeleted` is about plain names.
* A topic name that the parser does not take apart panics the consumer
  (`extensions/common.go:43`), and as the message was read but perhaps not committed, maybe
  again after the restart.

## 4. Proofs

`tlapm` proves of the two pushers and the feedback listener, for every finite `Messages`,
`Workers` and `Handlers`, all positive sizes, every retry limit and both settings of the
wait group; of the
rate limiter and the checks of `HandleMessages`, for every finite non-empty `Processes`, every
limit, clock and time to live (`ProcessesAssumption`, `LimitAssumption`, `ClockAssumption`,
`AdmissionAssumption`); of the consumer group, for
every finite `Processes`, any log, capacity and number of faults, and both settings of
`offsetResetStrategy` (`ProcessesAssumption`, `CapacityAssumption`, `ResetAssumption`,
`BoundsAssumption`); and of the router and the feedback path, for any messages, games,
topics, answers and sizes (`NamesAssumption`, `GamesSizesAssumption`,
`FeedbackAssumption`):

| Theorem | Module | States |
|---|---|---|
| `TypeCorrect` | `APNSPusherProofs` | `Spec => []TypeOK` |
| `CustodyCorrect` | `APNSPusherProofs` | `Spec => []SingleCustody` |
| `PendingCorrect` | `APNSPusherProofs` | `Spec => []PendingExact` |
| `ShutdownCorrect` | `APNSPusherProofs` | `Spec => []ShutdownOrder` |
| `GracefulExitCorrect` | `APNSPusherProofs` | `Spec => []GracefulExitLosesAtMostOne` |
| `DeliveryCorrect` | `APNSPusherProofs` | `Spec => ImplementsDelivery`, that is `Delivery!Spec` |
| `RetriesCorrect` | `APNSPusherProofs` | `Spec => []RetriesBounded` |
| `ReportsCorrect` | `APNSPusherProofs` | `Spec => []ReportsExact` |
| `CircularCorrect` | `APNSPusherProofs` | `Spec => []NoCircularWait` |
| `TypeCorrect` | `FCMPusherProofs` | `Spec => []TypeOK`, of the FCM pusher |
| `CustodyCorrect` | `FCMPusherProofs` | `Spec => []SingleCustody`, of the FCM pusher |
| `TokensCorrect` | `FCMPusherProofs` | `Spec => []TokensConserved` |
| `PendingCorrect` | `FCMPusherProofs` | `Spec => []PendingExact`, of the FCM pusher |
| `DeliveryCorrect` | `FCMPusherProofs` | `Spec => ImplementsDelivery`, of the FCM pusher |
| `ReportsCorrect` | `FCMPusherProofs` | `Spec => []ReportedWhenDone` |
| `TypeCorrect` | `FeedbackListenerProofs` | `Spec => []TypeOK`, of the listener |
| `TokensCorrect` | `FeedbackListenerProofs` | `Spec => []TokenCustody` |
| `PendingCorrect` | `FeedbackListenerProofs` | `Spec => []PendingExact`, of the listener |
| `GracefulExitCorrect` | `FeedbackListenerProofs` | `Spec => []GracefulExitLosesAtMostOne`, of the listener |
| `TypeCorrect` | `AdmissionProofs` | `Spec => []TypeOK`, of the rate limiter |
| `RateCorrect` | `AdmissionProofs` | `Spec => []RateBounded` |
| `RefusedCorrect` | `AdmissionProofs` | `Spec => RefusedOverLimit` |
| `LimiterCorrect` | `AdmissionProofs` | `AdmissionSpec => Spec` |
| `AdmissionTypeCorrect` | `AdmissionProofs` | `AdmissionSpec => []AdmissionTypeOK` |
| `QuotaCorrect` | `AdmissionProofs` | `AdmissionSpec => []QuotaAccounted` |
| `UniqueCorrect` | `AdmissionProofs` | `AdmissionSpec => UniqueOncePerTtl` |
| `TypeCorrect` | `OffsetsProofs` | `Spec => []TypeOK`, of `Offsets` |
| `LossCorrect` | `OffsetsProofs` | `Spec => []LossBounded` |
| `DuplicatesCorrect` | `OffsetsProofs` | `Spec => []DuplicatesPaid` |
| `TypeCorrect` | `FeedbackPathProofs` | `Spec => []TypeOK`, of `FeedbackPath` |
| `ServedCorrect` | `FeedbackPathProofs` | `Spec => []ConfiguredGamesServed` |
| `DeletionCorrect` | `FeedbackPathProofs` | `Spec => []OnlyInvalidDeleted` |

The assumptions are those named in the modules that declare the constants
(`MessagesAssumption`, `ChannelSizeAssumption`, `HandleAllAssumption`,
`WorkersAssumption`, `QueueSizesAssumption`, `ReasonsAssumption`,
`MaxRetryAssumption`); TLC evaluates them in every run.

The argument for a pusher goes in layers, each inductive relative to the ones before it.
The handlers have the first and the last to themselves; the others are proved once, in
`PusherProofs`, for any handler whose steps are `HandlerStep`s: they read nothing
from the broker, leave the shutdown alone, and call `Done` for the one message in flight
that they finish. `StepIsPusherStep` shows that the steps of either handler are.

1. *Types.* Channel bounds come from the guards of the sends (`SendType`,
   `ReceiveType`).
2. *Custody.* A channel without duplicates whose elements are exactly the messages
   at its stage stays so when one message moves from stage to stage (`Move`,
   `SendSet`, `ReceiveSet`). The `SingleCustody` of APNs needs no strengthening but the
   types. That of FCM needs `TokenHolders`: a sender that gives its token back has
   passed its message on. A message then has at most one sender, which
   `TokensConserved` needs too.
3. *The count.* By custody, the message a step adds or finishes is pending or not, as
   it should be; so every step leaves `wg` and `Pending` alone or changes both by
   one (`Recounts`), and `PendingExact` follows from the lemmas on cardinality. It
   is inductive only together with custody: otherwise `Done` could be called for a
   message that was finished already.
4. *The shutdown.* `GracefulExitLosesAtMostOne` is not inductive. `ShutdownOrder`
   is: it adds that the waiter exists only after the stop, and that once it was
   released (with the counter at zero, so with nothing pending, by layer 3) the one
   message that can still be unhandled is the one the consumer was reading
   (`LateReadOnly`), because the consumer then sees the closed `stopChannel`.
5. *The refinement.* Under the mapping of `Pusher`, a step moves one message as
   `Delivery` does, or stops it, or ends it, or is a stutter (`StepDelivers`). Layer 4
   gives the guard of the abstract `ExitGraceful`.
6. *The reports.* The counters are changed by goroutines that no longer have the
   message: the router of APNs counts a message as sent when a worker, or the
   responder, may be done with it already. `AllAccounted` therefore says of each message
   what was counted and how often it was sent by where the message is *and* by who
   still has to report it; `RetriesBounded` and `ReportsExact` are what it says at the
   end. `AllReported` is the same for FCM, where the message stays with its sender
   until all is counted, so that `ReportedWhenDone` holds when `Done` is called.

`NoCircularWait`, stated in `APNSPusherProofs`, says that the responder and all workers are
blocked on each other's channels only when more messages are in flight than the channels
and the workers have room for. It needs layers 1 and 2 only: a channel without duplicates
has as many messages as its length (`ChannelCount`), busy workers have one each (`WorkerCount`), the
responder has one more, and all are different, because a message has one stage. TLC
checks it on the instance of `RetryStall` with `Spec` and symmetry (734,000 states, in some of
which the pusher is stalled with all four messages in flight, one above the bound).

The feedback listener has the same layers without the router. `TokenCustody` alone is not
inductive: `SentOnce` adds that a message whose token was passed on is being confirmed
or is handled, so the broker never sends a token twice. `CleanupOrder` takes the place of
`ShutdownOrder`: `Cleanup` closes the consumer before it waits, so once the counter was
found to be zero the one feedback that can be unconfirmed is the one being read.
TLC checks `AllReported`, `SentOnce` and `CleanupOrder` on the instances of `FCMPusher` and
`FeedbackListener` as well.

`RateBounded` alone is not inductive. `IInv` of `AdmissionProofs` adds that while a
minute lasts its key cannot expire, so that it counts every call allowed under the
limit (`KeyLives`); that those and the calls between `GET` and `INCR` are then at most
`RpmLimit + N - 1` (`NowBounded`); and that for a minute that is over, whose key may have
expired, only calls still under way can be added, one of each process, because a
call is at most a minute old (`CallsRecent`, `OldBounded`). TLC checks `IInv` on
the instance of `RateLimiterSafety` as well (as an invariant in place of `TypeOK`, with
`MCRateLimiter` extending the proof module).

`RefusedOverLimit` needs that a counter which is still in Redis is of the caller's minute
(`KeysCount`): its time to live was set by a call less than a minute old, a minute ago
at most, so the counter is of one of the last three minutes, and minutes with the same key are
an hour apart (`HourApart`). That is why `ClockAssumption` asks for an hour of at
least three minutes.

In `Admission`, every step is one of `RateLimiter` or leaves it alone (`LimiterCorrect`), so
its theorems carry over. `QuotaAccounted` is inductive together with the steps each
platform has (`OfPlatform`) and the types; each step moves one process and at most one
outcome (`MoveAccounts`, `EndAccounts`, `TakeAccounts`), and a call that returns true adds one
element to `AllowedCalls` (`OneMoreAllowed`). `UniqueOncePerTtl` follows from `DedupClock`: the
time to live of the key and the time since the content was unique add up to `DedupTtl`.
TLC checks `KeysCount`, `DedupClock` and `OfPlatform` on the instances of `RateLimiterSafety`
and `Admission` too.

`LossBounded` and `DuplicatesPaid` say what has happened; their induction needs what may
still happen. `ReadsPaid` adds to the times a message was read the processes whose
position has not passed it, evicted ones that have not noticed included, and one if nobody
has the partition and the next owner would start at or before it. An assignment only moves
that one; a reading takes its process off; a commit on revocation or `Close` leaves the
next owner the position of the last (`OwnerUpToDate`), and an eviction or an end without a
commit adds one and an interruption. `LossPaid` counts not only the missing messages
before the committed offset but those before the owner's position (`Frontier`), which the
next commit would cover; a message leaves what is held only when it is handled or its
process ends, which holds at most `Capacity` (`HeldBounded`). TLC checks this `IInv` on the
instance of `Offsets`, with either setting of `ResetToLatest`.

`ConfiguredGamesServed` and `OnlyInvalidDeleted` are not inductive either. `IInv` of
`FeedbackPathProofs` adds that `msgChan` has exactly the messages at that place, each once
(`QueueExact`), so that a message the router takes has not been answered; that a pusher
that runs has all its handlers (`HandlersComplete`); and that whatever is on its way to
the database was routed there by the answer that its provider gave (`RoutedByAnswer`). The
answer comes before the feedback and does not change, so the routing stays
justified until the `DELETE`.

Only model-checked: liveness, because it needs fairness and `ENABLED`, which are beyond the
prover: `EveryMessageAccounted`, `ShutdownDrains`, `EveryTokenTried`, `EveryMessageSettled`,
`EveryMessageRouted` and `InvalidTokenDeleted`. The violations that the findings show are traces, which TLC gives.

## 5. Not modelled, and why

* What a payload becomes: metadata, and the message that the FCM client builds for
  Android or iOS from a notification. It is data that no property here tells apart.
* Redis, Kafka, PostgreSQL, APNs and FCM themselves: choices of the steps that
  call them.
* `TimeoutHeap` (`extensions/timeout_heap.go`): only its own test uses it.
* `PGClient` (`extensions/pg.go`): it connects, or gives up, before a goroutine of the
  listener starts.
* Commands and configuration files: their values are the `CONSTANTS`.
* A Redis that loses its counters, a transaction that its client runs twice, processes
  whose clocks differ by more than a call takes, hashes of the deduplication that collide.
* The statistics of Go itself that both programs report, the profiling server, and
  sending a counter to statsd.
* `Close` of the push queue: nothing in the pusher calls it.
* Patterns in `queue.topics` that are not regular expressions: the consumer panics at its
  first start (`kafka_consumer.go:222`).
* Memory, sockets, TLS, logs.

## 6. Plan

Done, in this order: `WaitGroup`, `KafkaConsumer`, `Pusher`, `APNSPushQueue`,
`APNSPusher`, `FCMPusher`, `PushDelivery`, `FeedbackListener`, `RateLimiter`, `Offsets`,
`Admission`, `Games`, `FeedbackPath`; their runs; the theorems above.

Next models: an abstract specification of the feedback listener (every invalid token
that was read is deleted or named as lost) that `FeedbackListener` refines, and
the message that the FCM client builds.
