------------------------- MODULE KafkaConsumerProofs -------------------------
(***************************************************************************)
(* Lemmas about what the three processes share: channels, the way messages *)
(* move from one goroutine or channel to the next, the pending wait group  *)
(* and the consumer.                                                       *)
(***************************************************************************)
EXTENDS KafkaConsumer, FiniteSetTheorems, TLAPS

-----------------------------------------------------------------------------
(* Channels                                                                *)

\* A channel that is received from keeps its type and gets shorter by one.
LEMMA ReceiveType ==
    ASSUME NEW S, NEW c \in Seq(S), c # << >>
    PROVE  /\ Head(c) \in S
           /\ Tail(c) \in Seq(S)
           /\ Len(Tail(c)) = Len(c) - 1
  OBVIOUS

\* A channel that is sent to keeps its type and gets longer by one.
LEMMA SendType ==
    ASSUME NEW S, NEW c \in Seq(S), NEW e \in S
    PROVE  /\ Append(c, e) \in Seq(S)
           /\ Len(Append(c, e)) = Len(c) + 1
  OBVIOUS

\* Sending an element that is not in the channel adds just that element.
LEMMA SendSet ==
    ASSUME NEW S, NEW c \in Seq(S), NEW e \in S, IsInjective(c), e \notin ToSet(c)
    PROVE  /\ IsInjective(Append(c, e))
           /\ ToSet(Append(c, e)) = ToSet(c) \cup {e}
<1> DEFINE d == Append(c, e)
<1>1. /\ d \in Seq(S)
      /\ Len(d) = Len(c) + 1
      /\ d[Len(c) + 1] = e
      /\ \A i \in 1..Len(c) : d[i] = c[i]
  OBVIOUS
<1>2. DOMAIN c = 1..Len(c) /\ DOMAIN d = 1..(Len(c) + 1) /\ Len(c) \in Nat
  BY <1>1
<1>3. \A i \in 1..Len(c) : c[i] # e
  BY <1>2 DEF ToSet
<1> HIDE DEF d
<1>4. IsInjective(d)
  BY <1>1, <1>2, <1>3 DEF IsInjective
<1>5. ToSet(d) = ToSet(c) \cup {e}
  BY <1>1, <1>2 DEF ToSet
<1> QED
  BY <1>4, <1>5 DEF d

\* Receiving from a channel without duplicates removes just its head.
LEMMA ReceiveSet ==
    ASSUME NEW S, NEW c \in Seq(S), c # << >>, IsInjective(c)
    PROVE  /\ IsInjective(Tail(c))
           /\ ToSet(Tail(c)) = ToSet(c) \ {Head(c)}
           /\ Head(c) \in ToSet(c)
<1> DEFINE d == Tail(c)
<1>1. /\ d \in Seq(S)
      /\ Len(d) = Len(c) - 1
      /\ Head(c) = c[1]
      /\ \A i \in 1..Len(d) : d[i] = c[i + 1]
  OBVIOUS
<1>2. DOMAIN c = 1..Len(c) /\ DOMAIN d = 1..Len(d) /\ Len(c) \in Nat /\ Len(c) > 0
  BY <1>1
<1> HIDE DEF d
<1>3. IsInjective(d)
  <2> SUFFICES ASSUME NEW i \in 1..Len(d), NEW j \in 1..Len(d), d[i] = d[j]
               PROVE  i = j
    BY <1>2 DEF IsInjective
  <2>1. i + 1 \in DOMAIN c /\ j + 1 \in DOMAIN c /\ c[i + 1] = c[j + 1]
    BY <1>1, <1>2
  <2>2. i + 1 = j + 1
    BY <2>1 DEF IsInjective
  <2> QED
    BY <2>2
<1>4. ToSet(d) \subseteq ToSet(c) \ {Head(c)}
  BY <1>1, <1>2 DEF ToSet, IsInjective
<1>5. ToSet(c) \ {Head(c)} \subseteq ToSet(d)
  <2> SUFFICES ASSUME NEW i \in 1..Len(c), c[i] # Head(c)
               PROVE  c[i] \in ToSet(d)
    BY <1>2 DEF ToSet
  <2>1. i - 1 \in 1..Len(d) /\ d[i - 1] = c[i]
    BY <1>1, <1>2
  <2> QED
    BY <1>2, <2>1 DEF ToSet
<1>6. Head(c) \in ToSet(c)
  BY <1>1, <1>2 DEF ToSet
<1> QED
  BY <1>3, <1>4, <1>5, <1>6 DEF d

\* The empty channel has no element.
LEMMA EmptySet == IsInjective(<< >>) /\ ToSet(<< >>) = {}
  BY DEF IsInjective, ToSet

-----------------------------------------------------------------------------
(* Messages                                                                *)

\* A message that goes from stage a to stage b leaves the one, enters the other
\* and is in no third.
LEMMA Move ==
    ASSUME NEW S, stage \in [Messages -> S], NEW m \in Messages, NEW a, NEW b, a # b,
           stage[m] = a, stage' = [stage EXCEPT ![m] = b]
    PROVE  /\ At(a)' = At(a) \ {m}
           /\ At(b)' = At(b) \cup {m}
           /\ \A t : t \notin {a, b} => At(t)' = At(t)
           /\ m \in At(a)
           /\ \A t : t # a => m \notin At(t)
  BY DEF At

LEMMA Stay ==
    ASSUME UNCHANGED stage
    PROVE  \A t : At(t)' = At(t)
  BY DEF At

\* A channel that carries the messages at stage b carries those at stage b after
\* a message was sent to it.
LEMMA ChannelGains ==
    ASSUME NEW S, stage \in [Messages -> S], NEW m \in Messages, NEW b, stage[m] # b,
           stage' = [stage EXCEPT ![m] = b],
           NEW c \in Seq(Messages), IsInjective(c), ToSet(c) = At(b)
    PROVE  IsInjective(Append(c, m)) /\ ToSet(Append(c, m)) = At(b)'
<1>1. m \notin ToSet(c) /\ At(b)' = At(b) \cup {m}
  BY DEF At
<1> QED
  BY <1>1, SendSet

\* A channel that carries the messages at stage a carries those at stage a after
\* its head was received and taken to stage b.
LEMMA ChannelLoses ==
    ASSUME NEW S, stage \in [Messages -> S], NEW a, NEW b, a # b,
           NEW c \in Seq(Messages), c # << >>, IsInjective(c), ToSet(c) = At(a),
           stage' = [stage EXCEPT ![Head(c)] = b]
    PROVE  /\ Head(c) \in Messages
           /\ stage[Head(c)] = a
           /\ IsInjective(Tail(c)) /\ ToSet(Tail(c)) = At(a)'
           /\ At(b)' = At(b) \cup {Head(c)}
           /\ Head(c) \notin At(b)
           /\ \A t : t \notin {a, b} => At(t)' = At(t)
<1>1. IsInjective(Tail(c)) /\ ToSet(Tail(c)) = ToSet(c) \ {Head(c)} /\ Head(c) \in ToSet(c)
  BY ReceiveSet
<1>2. Head(c) \in Messages /\ stage[Head(c)] = a
  BY <1>1 DEF At
<1> HIDE DEF At
<1>3. /\ At(a)' = At(a) \ {Head(c)}
      /\ At(b)' = At(b) \cup {Head(c)}
      /\ Head(c) \notin At(b)
      /\ \A t : t \notin {a, b} => At(t)' = At(t)
  BY <1>2, Move
<1> QED
  BY <1>1, <1>2, <1>3

-----------------------------------------------------------------------------
(* The pending wait group                                                  *)

\* Add and Done leave an integer in the wait group, and so does a nil wait group.
LEMMA WaitGroupStepType ==
    ASSUME WaitGroupTypeOK, PendingAdd \/ waitGroupDone
    PROVE  WaitGroupTypeOK'
<1>1. CASE UNCHANGED waitGroupVars
  BY <1>1 DEF WaitGroupTypeOK, waitGroupVars
<1>2. CASE Add
  BY <1>2 DEF WaitGroupTypeOK, Add
<1>3. CASE Done
  BY <1>3 DEF WaitGroupTypeOK, Done, WaiterStates
<1> QED
  BY <1>1, <1>2, <1>3 DEF PendingAdd, waitGroupDone

\* How a step may change a set of messages that the wait group counts.
Recounts(P, Q) ==
    \/ Q = P /\ UNCHANGED wg
    \/ \E m \in Messages \ P : Q = P \cup {m} /\ PendingAdd
    \/ \E m \in P : Q = P \ {m} /\ waitGroupDone

LEMMA CountStep ==
    ASSUME NEW P \in SUBSET Messages, NEW Q, Recounts(P, Q),
           wg = IF HandleAllMessagesBeforeExiting THEN Cardinality(P) ELSE 0
    PROVE  wg' = IF HandleAllMessagesBeforeExiting THEN Cardinality(Q) ELSE 0
<1>1. IsFiniteSet(P)
  BY FS_Subset, MessagesAssumption
<1>2. CASE Q = P /\ UNCHANGED wg
  BY <1>2
<1>3. ASSUME NEW m \in Messages \ P, Q = P \cup {m}, PendingAdd
      PROVE  wg' = IF HandleAllMessagesBeforeExiting THEN Cardinality(Q) ELSE 0
  <2>1. Cardinality(Q) = Cardinality(P) + 1
    BY <1>1, <1>3, FS_AddElement
  <2> QED
    BY <1>3, <2>1 DEF PendingAdd, Add, waitGroupVars
<1>4. ASSUME NEW m \in P, Q = P \ {m}, waitGroupDone
      PROVE  wg' = IF HandleAllMessagesBeforeExiting THEN Cardinality(Q) ELSE 0
  <2>1. Cardinality(Q) = Cardinality(P) - 1
    BY <1>1, <1>4, FS_RemoveElement
  <2> QED
    BY <1>4, <2>1 DEF waitGroupDone, Done, waitGroupVars
<1> QED
  BY <1>2, <1>3, <1>4 DEF Recounts

\* How Add, Done, Wait and WakeUp change the waiter: it returns, or is released,
\* only when the counter is zero.
LEMMA WaiterMoves ==
    ASSUME UNCHANGED waitGroupVars \/ PendingAdd \/ waitGroupDone \/ Wait \/ WakeUp
    PROVE  \/ UNCHANGED waiter
           \/ waiter' = "released" /\ waiter = "waiting" /\ wg' = wg - 1 /\ wg = 1
           \/ waiter' = "waiting" /\ waiter = "spawned"
           \/ waiter' = "returned" /\ waiter = "spawned" /\ wg' = wg /\ wg = 0
           \/ waiter' = "returned" /\ waiter = "released"
<1>1. CASE UNCHANGED waitGroupVars \/ PendingAdd
  BY <1>1 DEF PendingAdd, Add, waitGroupVars
<1>2. CASE waitGroupDone
  BY <1>2 DEF waitGroupDone, Done, waitGroupVars
<1>3. CASE Wait \/ WakeUp
  BY <1>3 DEF Wait, WakeUp
<1> QED
  BY <1>1, <1>2, <1>3

\* A set the wait group counts is empty when the counter is zero.
LEMMA ZeroCount ==
    ASSUME NEW P \in SUBSET Messages, Cardinality(P) = 0
    PROVE  P = {}
<1>1. IsFiniteSet(P)
  BY FS_Subset, MessagesAssumption
<1> QED
  BY <1>1, FS_EmptySet

\* A set of messages any two of which are the same has at most one.
LEMMA AtMostOne ==
    ASSUME NEW P, \A m, n \in P : m = n
    PROVE  Cardinality(P) <= 1
<1>1. CASE P = {}
  BY <1>1, FS_EmptySet
<1>2. ASSUME NEW m \in P
      PROVE  Cardinality(P) <= 1
  <2>1. P = {m}
    BY <1>2
  <2>2. Cardinality(P) = 1
    BY <2>1, FS_Singleton
  <2> QED
    BY <2>2
<1> QED
  BY <1>1, <1>2

-----------------------------------------------------------------------------
(* The consumer                                                            *)

LEMMA InitConsumerType == ConsumerInit => ConsumerTypeOK
<1> SUFFICES ASSUME ConsumerInit PROVE ConsumerTypeOK
  OBVIOUS
<1>1. consumer \in Goroutine({"subscribe", "select", "read", "stopped", "failed"},
                             {"add", "send"})
  BY DEF ConsumerInit, Goroutine
<1>2. msgChan \in Seq(Messages) /\ Len(msgChan) <= ChannelSize
  BY ChannelSizeAssumption DEF ConsumerInit
<1> QED
  BY <1>1, <1>2 DEF ConsumerInit, ConsumerTypeOK

LEMMA ConsumeLoopType ==
    ASSUME WaitGroupTypeOK, ConsumerTypeOK, NEW S, {"consumer", "msgChan"} \subseteq S,
           stage \in [Messages -> S], ConsumeLoop
    PROVE  WaitGroupTypeOK' /\ ConsumerTypeOK' /\ stage' \in [Messages -> S]
<1> USE DEF ConsumerTypeOK, Goroutine
<1>1. CASE Subscribe
  <2>1. PICK pc \in {"select", "failed"} : consumer' = [consumer EXCEPT !.pc = pc]
    BY <1>1 DEF Subscribe
  <2>2. consumer.msg = None /\ consumer' = [pc |-> pc, msg |-> None]
    BY <1>1, <2>1 DEF Subscribe
  <2> QED
    BY <1>1, <2>2 DEF Subscribe, WaitGroupTypeOK, waitGroupVars
<1>2. CASE CheckStop
  BY <1>2 DEF CheckStop, WaitGroupTypeOK, waitGroupVars
<1>3. ASSUME NEW m \in Messages, ReadMessage(m)
      PROVE  WaitGroupTypeOK' /\ ConsumerTypeOK' /\ stage' \in [Messages -> S]
  BY <1>3 DEF ReadMessage, WaitGroupTypeOK, waitGroupVars
<1>4. CASE ReadNothing
  BY <1>4 DEF ReadNothing, WaitGroupTypeOK, waitGroupVars
<1>5. CASE AddPending
  <2>1. WaitGroupTypeOK'
    BY <1>5, WaitGroupStepType DEF AddPending
  <2> QED
    BY <1>5, <2>1 DEF AddPending
<1>6. CASE SendToChannel
  <2>1. consumer.msg \in Messages
    BY <1>6 DEF SendToChannel
  <2>2. msgChan' \in Seq(Messages) /\ Len(msgChan') <= ChannelSize
    BY <1>6, <2>1, SendType, ChannelSizeAssumption DEF SendToChannel
  <2>3. stage' \in [Messages -> S]
    BY <1>6 DEF SendToChannel
  <2> QED
    BY <1>6, <2>2, <2>3 DEF SendToChannel, WaitGroupTypeOK, waitGroupVars
<1> QED
  BY <1>1, <1>2, <1>3, <1>4, <1>5, <1>6 DEF ConsumeLoop, receiveMessage

\* The consumer has the message it has read until it has sent it, and msgChan has
\* the messages that were sent to it.
ReadCustody ==
    /\ At("consumer") = {m \in Messages : consumer.pc \in {"add", "send"} /\ consumer.msg = m}
    /\ IsInjective(msgChan) /\ ToSet(msgChan) = At("msgChan")

LEMMA InitReadCustody == ConsumerInit => ReadCustody
  BY EmptySet DEF ConsumerInit, ReadCustody, At

\* The step keeps ReadCustody if it leaves alone what the consumer and msgChan have.
LEMMA ReadCustodyStays ==
    ASSUME ReadCustody, UNCHANGED <<consumer, msgChan>>,
           At("consumer")' = At("consumer"), At("msgChan")' = At("msgChan")
    PROVE  ReadCustody'
  BY DEF ReadCustody

\* What the steps of the consumer do to the messages.
LEMMA ConsumeLoopCustody ==
    ASSUME ConsumerTypeOK, NEW S, stage \in [Messages -> S], ReadCustody, ConsumeLoop
    PROVE  /\ ReadCustody'
           /\ \A t : t \notin {"unread", "consumer", "msgChan"} => At(t)' = At(t)
<1>1. CASE Subscribe \/ CheckStop \/ ReadNothing \/ AddPending
  <2>1. \A t : At(t)' = At(t)
    BY <1>1, Stay DEF Subscribe, CheckStop, ReadNothing, AddPending
  <2>2. /\ consumer'.pc \in {"add", "send"} <=> consumer.pc \in {"add", "send"}
        /\ consumer'.msg = consumer.msg
        /\ UNCHANGED msgChan
    BY <1>1 DEF ConsumerTypeOK, Goroutine, Subscribe, CheckStop, ReadNothing, AddPending
  <2> QED
    BY <2>1, <2>2 DEF ReadCustody
<1>2. ASSUME NEW m \in Messages, ReadMessage(m)
      PROVE  /\ ReadCustody'
             /\ \A t : t \notin {"unread", "consumer", "msgChan"} => At(t)' = At(t)
  <2>1. /\ stage[m] = "unread" /\ stage' = [stage EXCEPT ![m] = "consumer"]
        /\ consumer.pc = "read" /\ consumer' = [pc |-> "add", msg |-> m]
        /\ UNCHANGED msgChan
    BY <1>2 DEF ReadMessage
  <2>2. /\ At("consumer")' = At("consumer") \cup {m}
        /\ \A t : t \notin {"unread", "consumer"} => At(t)' = At(t)
    BY <2>1, Move
  <2> QED
    BY <2>1, <2>2 DEF ReadCustody
<1>3. CASE SendToChannel
  <2>1. PICK m \in Messages : m = consumer.msg
    BY <1>3 DEF SendToChannel, ConsumerTypeOK, Goroutine
  <2>2. /\ stage[m] = "consumer" /\ stage' = [stage EXCEPT ![m] = "msgChan"]
        /\ consumer.pc = "send" /\ consumer' = [pc |-> "select", msg |-> None]
        /\ msgChan' = Append(msgChan, m)
    BY <1>3, <2>1 DEF SendToChannel, ReadCustody, At
  <2>3. /\ At("consumer")' = At("consumer") \ {m}
        /\ \A t : t \notin {"consumer", "msgChan"} => At(t)' = At(t)
    BY <2>2, Move
  <2>4. IsInjective(msgChan') /\ ToSet(msgChan') = At("msgChan")'
    BY <2>2, ChannelGains DEF ReadCustody, ConsumerTypeOK
  <2> QED
    BY <2>1, <2>2, <2>3, <2>4 DEF ReadCustody
<1> QED
  BY <1>1, <1>2, <1>3 DEF ConsumeLoop, receiveMessage
=============================================================================
