------------------------------- MODULE Offsets -------------------------------
(***************************************************************************)
(* What a crash, a shutdown or a rebalance does to the messages of one     *)
(* partition: extensions/kafka_consumer.go and feedback/kafka_consumer.go  *)
(* as members of a consumer group.  The offset after a message is marked   *)
(* for commit when ReadMessage returns it, not when it is handled, and is  *)
(* committed by a timer (enable.auto.commit).  The pusher never closes its *)
(* consumer; the feedback listener does, before its queue is drained.      *)
(*                                                                         *)
(* Kafka is external: the log, the coordinator of the group, the committed *)
(* offset.  What a process does with a message between reading and         *)
(* handling it is in Pusher and FeedbackListener; here the process holds   *)
(* it.                                                                     *)
(***************************************************************************)
EXTENDS Integers, FiniteSets

CONSTANTS
    Processes,         \* the members of the group
    None,              \* no process
    Capacity,          \* how many messages a process can hold
    ResetToLatest,     \* offsetResetStrategy is "latest", not "earliest"
    LastOffset,        \* bound on the log
    MaxFaults          \* bound on the stops, crashes and evictions

ASSUME ProcessesAssumption == IsFiniteSet(Processes) /\ None \notin Processes
ASSUME CapacityAssumption == Capacity \in Nat \ {0}
ASSUME ResetAssumption == ResetToLatest \in BOOLEAN
ASSUME BoundsAssumption == LastOffset \in Nat /\ MaxFaults \in Nat

VARIABLES
    program,      \* what the processes run
    log,          \* how many messages the partition has
    committed,    \* NoOffset until the first commit
    owner,        \* who has the partition, as the coordinator sees it
    member,       \* what a process knows of its own consumer
    held,         \* the messages a process has read and not handled
    reads,        \* how often ReadMessage returned a message
    handled,      \* messages handled at least once
    resetTo,      \* where auto.offset.reset last moved the group
    exits,        \* how many processes ended gracefully, and how many did not
    interruptions,\* how many assignments ended without a commit
    faults        \* how many stops, crashes and evictions there were

groupVars == <<committed, owner, resetTo>>
processVars == <<member, held>>
historyVars == <<reads, handled, exits, interruptions, faults>>
vars == <<program, log, groupVars, processVars, historyVars>>

Offsets == 0 .. LastOffset - 1
NoOffset == -1

\* No consumer, or one that has no partition.
Unassigned(state) ==
    [state |-> state, assigned |-> FALSE, paused |-> FALSE,
     position |-> 0, stored |-> NoOffset]

\* The last ReadMessage of a consumer that was told to stop is "reading"; "late"
\* is a consumer that has a message from it and has not called Add.
Up == {"running", "reading", "late", "stopping"}

TypeOK ==
    /\ program \in {"pusher", "listener"}
    /\ log \in 0 .. LastOffset
    /\ committed \in {NoOffset} \cup 0 .. log
    /\ owner \in Processes \cup {None}
    /\ member \in [Processes -> [state : Up \cup {"down"}, assigned : BOOLEAN,
                                 paused : BOOLEAN, position : 0 .. log,
                                 stored : {NoOffset} \cup 1 .. log]]
    /\ held \in [Processes -> SUBSET Offsets]
    /\ reads \in [Offsets -> Nat]
    /\ handled \subseteq Offsets
    /\ resetTo \in 0 .. log
    /\ exits \in [graceful : Nat, unclean : Nat]
    /\ interruptions \in Nat
    /\ faults \in 0 .. MaxFaults

Init ==
    /\ program \in {"pusher", "listener"}
    /\ log = 0
    /\ committed = NoOffset
    /\ owner = None
    /\ member = [p \in Processes |-> Unassigned("running")]
    /\ held = [p \in Processes |-> {}]
    /\ reads = [o \in Offsets |-> 0]
    /\ handled = {}
    /\ resetTo = 0
    /\ exits = [graceful |-> 0, unclean |-> 0]
    /\ interruptions = 0
    /\ faults = 0

-----------------------------------------------------------------------------
(* The group                                                               *)

Produce ==
    /\ log < LastOffset
    /\ log' = log + 1
    /\ UNCHANGED <<program, groupVars, processVars, historyVars>>

\* The assignment that follows SubscribeTopics, or a rebalance.  Without a
\* committed offset, auto.offset.reset says where to start.
Assign(p) ==
    LET reset == IF ResetToLatest THEN log ELSE 0
        start == IF committed = NoOffset THEN reset ELSE committed
    IN  /\ owner = None
        /\ member[p].state = "running"
        /\ ~member[p].assigned
        /\ owner' = p
        /\ member' = [member EXCEPT ![p].assigned = TRUE, ![p].position = start]
        /\ resetTo' = IF committed = NoOffset THEN start ELSE resetTo
        /\ UNCHANGED <<program, log, committed, held, historyVars>>

\* Mutant of Store: the offset of the message itself is marked.
StoreSelf(p) == [member[p] EXCEPT !.position = @ + 1, !.stored = member[p].position]

\* ReadMessage marks the offset after the message for the next commit.
Store(p) == [member[p] EXCEPT !.position = @ + 1, !.stored = member[p].position + 1]

\* Nothing is committed if nothing was marked since the last commit.
CommitStored(p) ==
    committed' = IF member[p].stored = NoOffset THEN committed ELSE member[p].stored

\* The timer of enable.auto.commit.  The coordinator refuses a former owner.
AutoCommit(p) ==
    /\ owner = p
    /\ member[p].stored # NoOffset
    /\ CommitStored(p)
    /\ member' = [member EXCEPT ![p].stored = NoOffset]
    /\ UNCHANGED <<program, log, owner, resetTo, held, historyVars>>

\* A rebalance that the process takes part in commits before it gives way.
Revoke(p) ==
    /\ owner = p
    /\ CommitStored(p)
    /\ owner' = None
    /\ member' = [member EXCEPT ![p] = Unassigned(member[p].state)]
    /\ UNCHANGED <<program, log, resetTo, held, historyVars>>

Fault == faults < MaxFaults /\ faults' = faults + 1

\* The coordinator has not heard of a process for the session timeout, or the
\* consumer was blocked on msgChan for too long between two polls.
Evict(p) ==
    /\ owner = p
    /\ Fault
    /\ owner' = None
    /\ interruptions' = interruptions + 1
    /\ UNCHANGED <<program, log, committed, resetTo, processVars, reads, handled, exits>>

\* Until it notices, an evicted process goes on with what it has fetched.
NoticeEviction(p) ==
    /\ owner # p
    /\ member[p].assigned
    /\ member' = [member EXCEPT ![p] = Unassigned(member[p].state)]
    /\ UNCHANGED <<program, log, groupVars, held, historyVars>>

-----------------------------------------------------------------------------
(* A process                                                               *)

\* Pause and Resume return an error for a topic of which no partition is assigned.
Pause(p) ==
    /\ member[p].state = "running"
    /\ member[p].assigned
    /\ member' = [member EXCEPT ![p].paused = TRUE]
    /\ UNCHANGED <<program, log, groupVars, held, historyVars>>

\* Mutant of Resume: it calls Pause of the consumer.
ResumePauses(p) ==
    /\ member[p].state = "running"
    /\ member[p].assigned
    /\ member' = [member EXCEPT ![p].paused = TRUE]
    /\ UNCHANGED <<program, log, groupVars, held, historyVars>>

Resume(p) ==
    /\ member[p].state = "running"
    /\ member[p].assigned
    /\ member' = [member EXCEPT ![p].paused = FALSE]
    /\ UNCHANGED <<program, log, groupVars, held, historyVars>>

\* Mutant of Receive: a message that ReadMessage returns after the stop is dropped.
ReceiveUnlessStopped(p, o) ==
    held' = [held EXCEPT ![p] = IF member[p].state = "running" THEN @ \cup {o} ELSE @]

Receive(p, o) == held' = [held EXCEPT ![p] = @ \cup {o}]

\* The loop blocks on a full msgChan, so a process holds a bounded number.  (If it
\* reads again what it still holds, held does not tell the two apart.)
ReadMessage(p) ==
    LET o == member[p].position
    IN  /\ member[p].state \in {"running", "reading"}
        /\ member[p].assigned /\ ~member[p].paused
        /\ o < log
        /\ Cardinality(held[p]) < Capacity
        /\ member' = [member EXCEPT ![p] =
                        [Store(p) EXCEPT !.state = IF @ = "reading" THEN "late" ELSE @]]
        /\ Receive(p, o)
        /\ reads' = [reads EXCEPT ![o] = @ + 1]
        /\ UNCHANGED <<program, log, groupVars, handled, exits, interruptions, faults>>

Handle(p, o) ==
    /\ o \in held[p]
    /\ held' = [held EXCEPT ![p] = @ \ {o}]
    /\ handled' = handled \cup {o}
    /\ UNCHANGED <<program, log, groupVars, member, reads, exits, interruptions, faults>>

SetState(p, s) ==
    /\ member' = [member EXCEPT ![p].state = s]
    /\ UNCHANGED <<program, log, groupVars, held, reads, handled, exits, interruptions>>

\* ReadMessage may be under way when stopChannel is closed.
StopConsuming(p) ==
    /\ member[p].state = "running"
    /\ Fault
    /\ \E s \in {"reading", "stopping"} : SetState(p, s)

\* The last ReadMessage times out, or its message was counted with Add.
ConsumeLoopReturns(p) ==
    /\ member[p].state \in {"reading", "late"}
    /\ SetState(p, "stopping")
    /\ UNCHANGED faults

\* Mutant of Cleanup: the offset of what was read last is not committed.
CleanupWithoutCommit(p) ==
    /\ program = "listener"
    /\ member[p].state \in {"reading", "late", "stopping"}
    /\ owner = p
    /\ owner' = None
    /\ member' = [member EXCEPT ![p] = Unassigned(member[p].state)]
    /\ UNCHANGED <<program, log, committed, resetTo, held, historyVars>>

\* The listener closes its consumer at once, which commits and leaves the group.
Cleanup(p) ==
    /\ program = "listener"
    /\ member[p].state \in {"reading", "late", "stopping"}
    /\ owner = p
    /\ CommitStored(p)
    /\ owner' = None
    /\ member' = [member EXCEPT ![p] = Unassigned(member[p].state)]
    /\ UNCHANGED <<program, log, resetTo, held, historyVars>>

\* The process is gone.  If it had the partition, the coordinator gives it to
\* another after the session timeout, from the last commit.
End(p, how) ==
    /\ member' = [member EXCEPT ![p] = Unassigned("down")]
    /\ held' = [held EXCEPT ![p] = {}]
    /\ exits' = [exits EXCEPT ![how] = @ + 1]
    /\ IF owner = p
         THEN owner' = None /\ interruptions' = interruptions + 1
         ELSE UNCHANGED <<owner, interruptions>>
    /\ UNCHANGED <<program, log, committed, resetTo, reads, handled>>

HasCleanedUp(p) == program = "listener" => ~member[p].assigned

\* The wait group is zero: only a late message can be left.
ExitGraceful(p) ==
    /\ \/ member[p].state \in {"reading", "stopping"} /\ held[p] = {}
       \/ member[p].state = "late" /\ Cardinality(held[p]) = 1
    /\ HasCleanedUp(p)
    /\ End(p, "graceful")
    /\ UNCHANGED faults

ExitTimeout(p) ==
    /\ member[p].state \in {"reading", "late", "stopping"}
    /\ HasCleanedUp(p)
    /\ End(p, "unclean")
    /\ UNCHANGED faults

Crash(p) ==
    /\ member[p].state \in Up
    /\ Fault
    /\ End(p, "unclean")

Restart(p) ==
    /\ member[p].state = "down"
    /\ SetState(p, "running")
    /\ UNCHANGED faults

-----------------------------------------------------------------------------

Group(p) == Assign(p) \/ AutoCommit(p) \/ Revoke(p) \/ Evict(p) \/ NoticeEviction(p)

Consume(p) == Pause(p) \/ Resume(p) \/ ReadMessage(p) \/ \E o \in Offsets : Handle(p, o)

Shutdown(p) ==
    \/ StopConsuming(p)
    \/ ConsumeLoopReturns(p)
    \/ Cleanup(p)
    \/ ExitGraceful(p)
    \/ ExitTimeout(p)
    \/ Crash(p)
    \/ Restart(p)

Next == Produce \/ \E p \in Processes : Group(p) \/ Consume(p) \/ Shutdown(p)

Spec == Init /\ [][Next]_vars

\* The group assigns a free partition, a process that runs reads, handles and
\* shuts down, an orchestrator restarts it, and a pause is ended by its caller.
Fairness ==
    \A p \in Processes :
      /\ WF_vars(Assign(p))
      /\ WF_vars(NoticeEviction(p))
      /\ WF_vars(Resume(p))
      /\ SF_vars(ReadMessage(p))
      /\ \A o \in Offsets : WF_vars(Handle(p, o))
      /\ WF_vars(ConsumeLoopReturns(p))
      /\ WF_vars(Cleanup(p))
      /\ WF_vars(ExitTimeout(p))
      /\ WF_vars(Restart(p))

FairSpec == Spec /\ Fairness

-----------------------------------------------------------------------------
(* Properties                                                              *)

\* Messages nobody will read again and nobody has.
Missing ==
    {o \in resetTo .. committed - 1 : o \notin handled /\ \A p \in Processes : o \notin held[p]}

\* What the early commit can cost: a message behind the committed offset was
\* handled, or some process has it, or it went with a process.  A graceful exit
\* takes one message at most, any other end what the process can hold; a rebalance,
\* an eviction or a restart takes none.
LossBounded ==
    Cardinality(Missing) <= exits.graceful + Capacity * exits.unclean

\* A message is delivered once more for each time that the partition changed hands
\* without a commit, and never otherwise: the auto-commit, the commit of a
\* rebalance and the listener's Close leave no message to be read again.
DuplicatesPaid ==
    \A o \in Offsets : reads[o] <= 1 + interruptions

\* If in the end no process is stopped any more, every message is handled, unless a
\* process took it with it after its offset was committed, or auto.offset.reset
\* jumped over it because nothing was committed yet.
EveryMessageSettled ==
    \A o \in Offsets : o < log ~> o \in handled \cup Missing \/ o < resetTo
=============================================================================
