--------------------------- MODULE OffsetsProofs ---------------------------
(***************************************************************************)
(* For any members of the group, any log and any number of faults: what a  *)
(* commit of unhandled messages can lose, and how often a message can be   *)
(* read.                                                                   *)
(*                                                                         *)
(* Both bounds count what is still to come.  A message has been read, will *)
(* be read by every process whose position is at or before it, and, while  *)
(* nobody has the partition, may be read by the next owner (ReadsPaid).    *)
(* Nobody has a message, handled or not, between the start of the group    *)
(* and the position of the owner, or the next owner's start, unless an     *)
(* exit took it (LossPaid).  Both need the owner to know its own commits   *)
(* (OwnerUpToDate).                                                        *)
(***************************************************************************)
EXTENDS Offsets, FiniteSetTheorems, TLAPS

\* Where the next owner starts.
NextStart ==
    IF committed # NoOffset THEN committed ELSE IF ResetToLatest THEN log ELSE 0

\* The processes that may read message o in their present assignment.
ToCome(o) == {p \in Processes : member[p].assigned /\ member[p].position <= o}

Waiting(o) == IF owner = None /\ NextStart <= o THEN 1 ELSE 0

Frontier == IF owner = None THEN committed ELSE member[owner].position

\* The messages before the frontier that nobody handled and nobody has.
Lost ==
    {o \in Offsets : /\ resetTo <= o /\ o < Frontier
                     /\ o \notin handled
                     /\ \A p \in Processes : o \notin held[p]}

OwnerUpToDate ==
    \A p \in Processes : owner = p =>
      /\ member[p].assigned
      /\ committed <= member[p].position
      /\ member[p].stored \in {NoOffset, member[p].position}
      /\ member[p].stored = NoOffset =>
           \/ committed = member[p].position
           \/ committed = NoOffset /\ (ResetToLatest \/ member[p].position = 0)

\* A consumer without the partition has nothing to commit.
NothingStored == \A p \in Processes : ~member[p].assigned => member[p].stored = NoOffset

HeldBounded == \A p \in Processes : Cardinality(held[p]) <= Capacity

ReadsPaid ==
    \A o \in Offsets : reads[o] + Cardinality(ToCome(o)) + Waiting(o) <= 1 + interruptions

LossPaid == Cardinality(Lost) <= exits.graceful + Capacity * exits.unclean

IInv ==
    /\ TypeOK
    /\ OwnerUpToDate
    /\ NothingStored
    /\ HeldBounded
    /\ ReadsPaid
    /\ LossPaid

-----------------------------------------------------------------------------
(* Lemmas                                                                  *)

\* What TypeOK says of what the processes know of their consumers.
MemberType ==
    [state : Up \cup {"down"}, assigned : BOOLEAN, paused : BOOLEAN,
     position : 0 .. log, stored : {NoOffset} \cup 1 .. log]

\* TypeOK in terms of MemberType.
LEMMA MemberTyped == TypeOK => member \in [Processes -> MemberType]
BY DEF TypeOK, MemberType

\* None is no process.
LEMMA NoneApart == None \notin Processes
BY ProcessesAssumption

\* The readings still to come are those of finitely many processes.
LEMMA ToComeFinite ==
    ASSUME NEW o
    PROVE  /\ IsFiniteSet(ToCome(o)) /\ Cardinality(ToCome(o)) \in Nat
           /\ IsFiniteSet(ToCome(o)') /\ Cardinality(ToCome(o)') \in Nat
<1>1. ToCome(o) \subseteq Processes /\ ToCome(o)' \subseteq Processes
  BY DEF ToCome
<1> QED
  BY <1>1, ProcessesAssumption, FS_Subset, FS_CardinalityType

\* Offsets are finitely many.
LEMMA OffsetsFinite ==
    ASSUME NEW S \in SUBSET Offsets
    PROVE  IsFiniteSet(S) /\ Cardinality(S) \in Nat
<1>1. IsFiniteSet(Offsets)
  BY BoundsAssumption, FS_Interval DEF Offsets
<1> QED
  BY <1>1, FS_Subset, FS_CardinalityType

\* So are the lost messages.
LEMMA LostTyped == Lost \in SUBSET Offsets /\ Lost' \in SUBSET Offsets
BY DEF Lost, Offsets

\* No process gains a message to read.
LEMMA ToComeShrinks ==
    ASSUME NEW o, ToCome(o)' \subseteq ToCome(o)
    PROVE  Cardinality(ToCome(o)') <= Cardinality(ToCome(o))
BY ToComeFinite, FS_Subset

\* One process less is to read the message, because it has read it or has lost the
\* partition.
LEMMA ToComeLoses ==
    ASSUME NEW o, NEW p \in ToCome(o), ToCome(o)' \subseteq ToCome(o) \ {p}
    PROVE  Cardinality(ToCome(o)') <= Cardinality(ToCome(o)) - 1
<1>1. IsFiniteSet(ToCome(o) \ {p}) /\ Cardinality(ToCome(o) \ {p}) = Cardinality(ToCome(o)) - 1
  BY ToComeFinite, FS_RemoveElement
<1> QED
  BY <1>1, FS_Subset

\* One process more, which was assigned the partition.
LEMMA ToComeGains ==
    ASSUME NEW o, NEW p, ToCome(o)' \subseteq ToCome(o) \cup {p}
    PROVE  Cardinality(ToCome(o)') <= Cardinality(ToCome(o)) + 1
<1>1. /\ IsFiniteSet(ToCome(o) \cup {p})
      /\ Cardinality(ToCome(o) \cup {p}) \in Nat
      /\ Cardinality(ToCome(o) \cup {p}) <= Cardinality(ToCome(o)) + 1
  <2>1. IsFiniteSet(ToCome(o)) /\ Cardinality(ToCome(o)) \in Nat
    BY ToComeFinite
  <2>2. IsFiniteSet(ToCome(o) \cup {p})
    BY <2>1, FS_AddElement
  <2>3. Cardinality(ToCome(o) \cup {p}) \in {Cardinality(ToCome(o)), Cardinality(ToCome(o)) + 1}
    BY <2>1, FS_AddElement
  <2> QED
    BY <2>1, <2>2, <2>3
<1>2. Cardinality(ToCome(o)') <= Cardinality(ToCome(o) \cup {p})
  BY <1>1, FS_Subset
<1> QED
  BY <1>1, <1>2, ToComeFinite

\* Nothing is lost by a step that loses no message and ends no process.
LEMMA LossKept ==
    ASSUME TypeOK, LossPaid, Lost' \subseteq Lost, exits' = exits
    PROVE  LossPaid'
<1>1. Cardinality(Lost') <= Cardinality(Lost)
  BY LostTyped, OffsetsFinite, FS_Subset
<1>2. Cardinality(Lost') \in Nat /\ Cardinality(Lost) \in Nat
  BY LostTyped, OffsetsFinite
<1>3. Capacity * exits.unclean \in Nat /\ exits.graceful \in Nat
  <2>1. exits.unclean \in Nat /\ exits.graceful \in Nat
    BY DEF TypeOK
  <2> QED
    BY <2>1, CapacityAssumption
<1> QED
  BY <1>1, <1>2, <1>3 DEF LossPaid

\* What the end of a process adds to the loss is at most what it held.
LEMMA LossGrows ==
    ASSUME NEW S \in SUBSET Offsets, Lost' \subseteq Lost \cup S
    PROVE  Cardinality(Lost') <= Cardinality(Lost) + Cardinality(S)
<1>1. /\ IsFiniteSet(Lost) /\ Cardinality(Lost) \in Nat
      /\ IsFiniteSet(S) /\ Cardinality(S) \in Nat
      /\ Cardinality(Lost \cap S) \in Nat
      /\ Cardinality(Lost') \in Nat
  <2>1. Lost \cap S \in SUBSET Offsets
    OBVIOUS
  <2> QED
    BY <2>1, LostTyped, OffsetsFinite
<1>2. /\ IsFiniteSet(Lost \cup S)
      /\ Cardinality(Lost \cup S) = Cardinality(Lost) + Cardinality(S) - Cardinality(Lost \cap S)
  BY <1>1, FS_Union
<1>3. Cardinality(Lost') <= Cardinality(Lost \cup S)
  BY <1>2, FS_Subset
<1> QED
  BY <1>1, <1>2, <1>3

\* The count of readings stays paid if what it grows by is paid by interruptions.
LEMMA ReadsKept ==
    ASSUME TypeOK, TypeOK', ReadsPaid,
           \A o \in Offsets :
             reads'[o] + Cardinality(ToCome(o)') + Waiting(o)'
               <= reads[o] + Cardinality(ToCome(o)) + Waiting(o) + (interruptions' - interruptions)
    PROVE  ReadsPaid'
<1> SUFFICES ASSUME NEW o \in Offsets
             PROVE  reads'[o] + Cardinality(ToCome(o)') + Waiting(o)' <= 1 + interruptions'
  BY DEF ReadsPaid, Offsets
<1>1. reads[o] \in Nat /\ reads'[o] \in Nat /\ interruptions \in Nat /\ interruptions' \in Nat
  BY DEF TypeOK, Offsets
<1>2. Cardinality(ToCome(o)) \in Nat /\ Cardinality(ToCome(o)') \in Nat
  BY ToComeFinite
<1>3. Waiting(o) \in 0 .. 1 /\ Waiting(o)' \in 0 .. 1
  BY DEF Waiting
<1>4. reads[o] + Cardinality(ToCome(o)) + Waiting(o) <= 1 + interruptions
  BY DEF ReadsPaid
<1> QED
  BY <1>1, <1>2, <1>3, <1>4

\* Readings are paid by a step that makes no process read a message, none read it
\* again, and no next owner wait for it.
LEMMA ReadsQuiet ==
    ASSUME TypeOK, TypeOK', ReadsPaid, reads' = reads, interruptions' = interruptions,
           \A o \in Offsets :
             ToCome(o)' \subseteq ToCome(o) /\ Waiting(o)' <= Waiting(o)
    PROVE  ReadsPaid'
<1>1. ASSUME NEW o \in Offsets
      PROVE  reads'[o] + Cardinality(ToCome(o)') + Waiting(o)'
               <= reads[o] + Cardinality(ToCome(o)) + Waiting(o)
                    + (interruptions' - interruptions)
  <2>1. Cardinality(ToCome(o)') <= Cardinality(ToCome(o))
    BY ToComeShrinks
  <2>2. Waiting(o) \in 0 .. 1 /\ Waiting(o)' \in 0 .. 1
    BY DEF Waiting
  <2>3. reads[o] \in Nat /\ interruptions \in Nat
    BY DEF TypeOK
  <2> QED
    BY <2>1, <2>2, <2>3, ToComeFinite
<1> QED
  BY <1>1, ReadsKept

-----------------------------------------------------------------------------
(* The steps                                                               *)

LEMMA InitIInv == Init => IInv
<1> SUFFICES ASSUME Init PROVE IInv
  OBVIOUS
<1> USE DEF Init
<1>1. TypeOK
  BY BoundsAssumption DEF TypeOK, Unassigned, NoOffset, Up, Offsets
<1>2. OwnerUpToDate
  BY NoneApart DEF OwnerUpToDate
<1>6. NothingStored
  BY DEF NothingStored, Unassigned
<1>3. HeldBounded
  BY FS_EmptySet, CapacityAssumption DEF HeldBounded
<1>4. ReadsPaid
  <2> SUFFICES ASSUME NEW o \in Offsets
               PROVE  reads[o] + Cardinality(ToCome(o)) + Waiting(o) <= 1 + interruptions
    BY DEF ReadsPaid
  <2>1. ToCome(o) = {}
    BY DEF ToCome, Unassigned
  <2> QED
    BY <2>1, FS_EmptySet DEF Waiting
<1>5. LossPaid
  <2>1. Lost = {}
    BY DEF Lost, Frontier, NoOffset, Offsets
  <2> QED
    BY <2>1, FS_EmptySet, CapacityAssumption DEF LossPaid
<1> QED
  BY <1>1, <1>2, <1>3, <1>4, <1>5, <1>6 DEF IInv

\* A step that only changes whether a consumer runs or is paused.
LEMMA QuietKept ==
    ASSUME IInv, TypeOK',
           UNCHANGED <<log, groupVars, held, reads, handled, exits, interruptions>>,
           \A p \in Processes : /\ member'[p].assigned = member[p].assigned
                                /\ member'[p].position = member[p].position
                                /\ member'[p].stored = member[p].stored
    PROVE  IInv'
<1> USE DEF groupVars
<1>1. OwnerUpToDate' /\ NothingStored'
  BY DEF IInv, OwnerUpToDate, NothingStored
<1>2. HeldBounded'
  BY DEF IInv, HeldBounded
<1>3. ReadsPaid'
  <2>1. \A o \in Offsets : ToCome(o)' \subseteq ToCome(o) /\ Waiting(o)' <= Waiting(o)
    BY DEF ToCome, Waiting, NextStart
  <2> QED
    BY <2>1, ReadsQuiet DEF IInv
<1>4. LossPaid'
  <2>1. Frontier' = Frontier
    BY DEF Frontier, IInv, TypeOK
  <2>2. Lost' \subseteq Lost
    BY <2>1 DEF Lost, Offsets
  <2> QED
    BY <2>2, LossKept DEF IInv
<1> QED
  BY <1>1, <1>2, <1>3, <1>4 DEF IInv

LEMMA QuietSteps ==
    ASSUME IInv, NEW p \in Processes,
           Pause(p) \/ Resume(p) \/ StopConsuming(p) \/ ConsumeLoopReturns(p) \/ Restart(p)
    PROVE  IInv'
<1> USE DEF groupVars, historyVars, SetState, Fault
<1>1. member \in [Processes -> MemberType]
  BY MemberTyped DEF IInv
<1>2. \/ \E b \in BOOLEAN : member' = [member EXCEPT ![p].paused = b]
      \/ \E s \in Up : member' = [member EXCEPT ![p].state = s]
  BY DEF Pause, Resume, StopConsuming, ConsumeLoopReturns, Restart, Up
<1>3. UNCHANGED <<program, log, groupVars, held, reads, handled, exits, interruptions>>
  BY DEF Pause, Resume, StopConsuming, ConsumeLoopReturns, Restart
<1>4. faults' \in 0 .. MaxFaults
  BY BoundsAssumption DEF Pause, Resume, StopConsuming, ConsumeLoopReturns, Restart, IInv, TypeOK
<1>5. \A q \in Processes : /\ member'[q].assigned = member[q].assigned
                           /\ member'[q].position = member[q].position
                           /\ member'[q].stored = member[q].stored
  BY <1>1, <1>2 DEF MemberType
<1>6. TypeOK'
  <2>1. member' \in [Processes -> MemberType]
    BY <1>1, <1>2 DEF MemberType
  <2> QED
    BY <1>3, <1>4, <2>1 DEF IInv, TypeOK, MemberType
<1> QED
  BY <1>3, <1>5, <1>6, QuietKept

LEMMA ProduceStep ==
    ASSUME IInv, Produce
    PROVE  IInv'
<1> USE DEF Produce, groupVars, processVars, historyVars
<1>1. log' \in 0 .. LastOffset /\ log' = log + 1 /\ log \in Nat
  BY BoundsAssumption DEF IInv, TypeOK
<1>2. TypeOK'
  <2>1. /\ committed' \in {NoOffset} \cup 0 .. log'
        /\ resetTo' \in 0 .. log'
    BY <1>1 DEF IInv, TypeOK
  <2>2. member' \in [Processes -> MemberType']
    BY <1>1, MemberTyped DEF IInv, MemberType
  <2> QED
    BY <1>1, <2>1, <2>2 DEF IInv, TypeOK, MemberType
<1>3. OwnerUpToDate' /\ NothingStored' /\ HeldBounded'
  BY DEF IInv, OwnerUpToDate, NothingStored, HeldBounded
<1>4. ReadsPaid'
  <2>1. NextStart \in Nat /\ NextStart' \in Nat /\ NextStart <= NextStart'
    BY <1>1 DEF NextStart, IInv, TypeOK, NoOffset
  <2>2. \A o \in Offsets : ToCome(o)' \subseteq ToCome(o)
    BY DEF ToCome
  <2>3. \A o \in Offsets : Waiting(o)' <= Waiting(o)
    BY <2>1 DEF Waiting, Offsets
  <2> QED
    BY <1>2, <2>2, <2>3, ReadsQuiet DEF IInv
<1>5. LossPaid'
  <2>1. Lost' \subseteq Lost
    BY DEF Lost, Frontier, Offsets
  <2> QED
    BY <2>1, LossKept DEF IInv
<1> QED
  BY <1>2, <1>3, <1>4, <1>5 DEF IInv

\* An assignment only moves the waiting from the partition to its new owner.
LEMMA AssignStep ==
    ASSUME IInv, NEW p \in Processes, Assign(p)
    PROVE  IInv'
<1> USE DEF Assign, historyVars
<1>1. member \in [Processes -> MemberType]
  BY MemberTyped DEF IInv
<1>2. NextStart \in 0 .. log
  BY DEF NextStart, IInv, TypeOK, NoOffset
<1>3. /\ owner = None /\ owner' = p /\ p # None /\ ~member[p].assigned
      /\ log' = log /\ committed' = committed /\ held' = held
  BY NoneApart
<1>4. member' = [member EXCEPT ![p].assigned = TRUE, ![p].position = NextStart]
  BY DEF NextStart
<1>5. /\ member'[p].assigned
      /\ member'[p].position = NextStart
      /\ member'[p].stored = member[p].stored
      /\ \A q \in Processes : q # p => member'[q] = member[q]
  BY <1>1, <1>4 DEF MemberType
<1>6. TypeOK'
  <2>1. member' \in [Processes -> MemberType]
    <3>1. member' = [member EXCEPT ![p] = [member[p] EXCEPT !.assigned = TRUE,
                                                            !.position = NextStart]]
      BY <1>1, <1>4
    <3>2. [member[p] EXCEPT !.assigned = TRUE, !.position = NextStart] \in MemberType
      BY <1>1, <1>2 DEF MemberType
    <3> QED
      BY <1>1, <3>1, <3>2
  <2>2. resetTo' \in 0 .. log
    BY <1>2 DEF IInv, TypeOK, NextStart
  <2> QED
    BY <1>3, <2>1, <2>2 DEF IInv, TypeOK, MemberType
<1>7. OwnerUpToDate' /\ NothingStored'
  BY <1>3, <1>5 DEF IInv, TypeOK, OwnerUpToDate, NothingStored, NextStart, NoOffset
<1>8. HeldBounded'
  BY DEF IInv, HeldBounded
<1>9. ReadsPaid'
  <2>1. ASSUME NEW o \in Offsets
        PROVE  reads'[o] + Cardinality(ToCome(o)') + Waiting(o)'
                 <= reads[o] + Cardinality(ToCome(o)) + Waiting(o)
                      + (interruptions' - interruptions)
    <3>1. Waiting(o)' = 0
      BY <1>3, NoneApart DEF Waiting
    <3>2. reads[o] \in Nat /\ interruptions \in Nat
      BY DEF IInv, TypeOK
    <3>3. CASE NextStart <= o
      <4>1. Waiting(o) = 1
        BY <1>3, <3>3 DEF Waiting
      <4>2. ToCome(o)' \subseteq ToCome(o) \cup {p}
        BY <1>5 DEF ToCome
      <4>3. Cardinality(ToCome(o)') <= Cardinality(ToCome(o)) + 1
        BY <4>2, ToComeGains
      <4> QED
        BY <3>1, <3>2, <4>1, <4>3, ToComeFinite
    <3>4. CASE ~(NextStart <= o)
      <4>1. Waiting(o) = 0
        BY <3>4 DEF Waiting
      <4>2. ToCome(o)' \subseteq ToCome(o)
        BY <1>5, <3>4 DEF ToCome
      <4>3. Cardinality(ToCome(o)') <= Cardinality(ToCome(o))
        BY <4>2, ToComeShrinks
      <4> QED
        BY <3>1, <3>2, <4>1, <4>3, ToComeFinite
    <3> QED
      BY <3>3, <3>4
  <2> QED
    BY <1>6, <2>1, ReadsKept DEF IInv
<1>10. LossPaid'
  <2>1. Frontier = committed /\ Frontier' = NextStart
    BY <1>3, <1>5 DEF Frontier
  <2>2. CASE committed = NoOffset
    <3>1. resetTo' = NextStart
      BY <2>2 DEF NextStart
    <3>2. Lost' = {}
      BY <1>2, <2>1, <3>1 DEF Lost, Offsets
    <3> QED
      BY <3>2, LossKept DEF IInv
  <2>3. CASE committed # NoOffset
    <3>1. resetTo' = resetTo /\ Frontier' = Frontier
      BY <2>1, <2>3 DEF NextStart
    <3>2. Lost' \subseteq Lost
      BY <3>1 DEF Lost, Offsets
    <3> QED
      BY <3>2, LossKept DEF IInv
  <2> QED
    BY <2>2, <2>3
<1> QED
  BY <1>6, <1>7, <1>8, <1>9, <1>10 DEF IInv

LEMMA AutoCommitStep ==
    ASSUME IInv, NEW p \in Processes, AutoCommit(p)
    PROVE  IInv'
<1> USE DEF AutoCommit, CommitStored, historyVars
<1>1. member \in [Processes -> MemberType]
  BY MemberTyped DEF IInv
<1>2. /\ owner = p /\ owner' = p /\ p # None
      /\ member[p].assigned /\ member[p].stored = member[p].position
      /\ committed' = member[p].position /\ committed' \in 0 .. log
      /\ log' = log
  BY <1>1, NoneApart DEF IInv, OwnerUpToDate, MemberType
<1>3. /\ member'[p].assigned
      /\ member'[p].position = member[p].position
      /\ member'[p].stored = NoOffset
      /\ \A q \in Processes : q # p => member'[q] = member[q]
  BY <1>1, <1>2 DEF MemberType
<1>4. TypeOK'
  <2>1. member' \in [Processes -> MemberType]
    BY <1>1 DEF MemberType
  <2> QED
    BY <1>2, <2>1 DEF IInv, TypeOK, MemberType
<1>5. OwnerUpToDate' /\ NothingStored'
  BY <1>2, <1>3 DEF IInv, OwnerUpToDate, NothingStored, NoOffset
<1>6. HeldBounded'
  BY DEF IInv, HeldBounded
<1>7. ReadsPaid'
  <2>1. \A o \in Offsets : ToCome(o)' \subseteq ToCome(o)
    BY <1>2, <1>3 DEF ToCome
  <2>2. \A o \in Offsets : Waiting(o)' <= Waiting(o)
    BY <1>2 DEF Waiting
  <2> QED
    BY <1>4, <2>1, <2>2, ReadsQuiet DEF IInv
<1>8. LossPaid'
  <2>1. Frontier' = Frontier
    BY <1>2, <1>3 DEF Frontier
  <2>2. Lost' \subseteq Lost
    BY <2>1 DEF Lost, Offsets
  <2> QED
    BY <2>2, LossKept DEF IInv
<1> QED
  BY <1>4, <1>5, <1>6, <1>7, <1>8 DEF IInv

\* An owner that gives the partition up with a commit leaves the next one nothing
\* before its position.
LEMMA GiveUpStep ==
    ASSUME IInv, NEW p \in Processes, Revoke(p) \/ Cleanup(p)
    PROVE  IInv'
<1> USE DEF historyVars
<1>1. member \in [Processes -> MemberType]
  BY MemberTyped DEF IInv
<1>2. /\ owner = p /\ owner' = None /\ p # None
      /\ CommitStored(p)
      /\ member' = [member EXCEPT ![p] = Unassigned(member[p].state)]
      /\ UNCHANGED <<program, log, resetTo, held, historyVars>>
  BY NoneApart DEF Revoke, Cleanup
<1>3. /\ ~member'[p].assigned
      /\ member'[p].stored = NoOffset
      /\ \A q \in Processes : q # p => member'[q] = member[q]
  BY <1>1, <1>2 DEF Unassigned
<1>4. /\ member[p].assigned
      /\ committed' \in {NoOffset} \cup 0 .. log
      /\ committed' <= member[p].position
      /\ member[p].position <= NextStart'
      /\ member[p].position \in 0 .. log
  <2>1. /\ member[p].position \in 0 .. log
        /\ committed \in {NoOffset} \cup 0 .. log
    BY <1>1 DEF MemberType, IInv, TypeOK
  <2> QED
    BY <1>2, <2>1 DEF CommitStored, NextStart, IInv, OwnerUpToDate, NoOffset
<1>5. TypeOK'
  <2>1. member' \in [Processes -> MemberType]
    BY <1>1, <1>2 DEF MemberType, Unassigned, IInv, TypeOK
  <2> QED
    BY <1>2, <1>4, <2>1 DEF IInv, TypeOK, MemberType
<1>6. OwnerUpToDate' /\ NothingStored'
  BY <1>2, <1>3, NoneApart DEF IInv, OwnerUpToDate, NothingStored
<1>7. HeldBounded'
  BY <1>2 DEF IInv, HeldBounded
<1>8. ReadsPaid'
  <2>1. ASSUME NEW o \in Offsets
        PROVE  reads'[o] + Cardinality(ToCome(o)') + Waiting(o)'
                 <= reads[o] + Cardinality(ToCome(o)) + Waiting(o)
                      + (interruptions' - interruptions)
    <3>1. Waiting(o) = 0 /\ Waiting(o)' \in 0 .. 1
      BY <1>2 DEF Waiting
    <3>2. reads[o] \in Nat /\ reads' = reads /\ interruptions \in Nat
          /\ interruptions' = interruptions
      BY <1>2 DEF IInv, TypeOK
    <3>3. ToCome(o)' \subseteq ToCome(o) \ {p}
      BY <1>3 DEF ToCome
    <3>4. CASE member[p].position <= o
      <4>1. p \in ToCome(o)
        BY <1>4, <3>4 DEF ToCome
      <4>2. Cardinality(ToCome(o)') <= Cardinality(ToCome(o)) - 1
        BY <3>3, <4>1, ToComeLoses
      <4> QED
        BY <3>1, <3>2, <4>2, ToComeFinite
    <3>5. CASE ~(member[p].position <= o)
      <4>1. Waiting(o)' = 0
        <5>1. NextStart' \in Nat
          BY <1>2, <1>4 DEF NextStart, IInv, TypeOK
        <5> QED
          BY <1>4, <3>5, <5>1 DEF Waiting, Offsets
      <4>2. Cardinality(ToCome(o)') <= Cardinality(ToCome(o))
        BY <3>3, ToComeShrinks
      <4> QED
        BY <3>1, <3>2, <4>1, <4>2, ToComeFinite
    <3> QED
      BY <3>4, <3>5
  <2> QED
    BY <1>5, <2>1, ReadsKept DEF IInv
<1>9. LossPaid'
  <2>1. Frontier' = committed' /\ Frontier = member[p].position
    BY <1>2 DEF Frontier
  <2>2. Lost' \subseteq Lost
    BY <1>2, <1>4, <2>1 DEF Lost, Offsets, NoOffset
  <2> QED
    BY <1>2, <2>2, LossKept DEF IInv
<1> QED
  BY <1>5, <1>6, <1>7, <1>8, <1>9 DEF IInv

\* An eviction is an interruption: the next owner may read again what was not
\* committed.
LEMMA EvictStep ==
    ASSUME IInv, NEW p \in Processes, Evict(p)
    PROVE  IInv'
<1> USE DEF Evict, Fault, processVars
<1>1. TypeOK'
  BY BoundsAssumption DEF IInv, TypeOK
<1>2. OwnerUpToDate' /\ NothingStored' /\ HeldBounded'
  BY NoneApart DEF IInv, OwnerUpToDate, NothingStored, HeldBounded
<1>3. ReadsPaid'
  <2>1. ASSUME NEW o \in Offsets
        PROVE  reads'[o] + Cardinality(ToCome(o)') + Waiting(o)'
                 <= reads[o] + Cardinality(ToCome(o)) + Waiting(o)
                      + (interruptions' - interruptions)
    <3>1. Waiting(o) \in 0 .. 1 /\ Waiting(o)' \in 0 .. 1
      BY DEF Waiting
    <3>2. Waiting(o) = 0
      BY NoneApart DEF Waiting
    <3>3. reads[o] \in Nat /\ reads' = reads /\ interruptions' - interruptions = 1
      BY DEF IInv, TypeOK
    <3>4. ToCome(o)' \subseteq ToCome(o)
      BY DEF ToCome
    <3>5. Cardinality(ToCome(o)') <= Cardinality(ToCome(o))
      BY <3>4, ToComeShrinks
    <3> QED
      BY <3>1, <3>2, <3>3, <3>5, ToComeFinite
  <2> QED
    BY <1>1, <2>1, ReadsKept DEF IInv
<1>4. LossPaid'
  <2>1. Frontier = member[p].position /\ Frontier' = committed /\ committed <= member[p].position
    BY NoneApart DEF Frontier, IInv, OwnerUpToDate
  <2>2. member[p].position \in Nat /\ committed \in {NoOffset} \cup Nat
    BY MemberTyped DEF IInv, TypeOK, MemberType
  <2>3. Lost' \subseteq Lost
    BY <2>1, <2>2 DEF Lost, Offsets, NoOffset
  <2> QED
    BY <2>3, LossKept DEF IInv
<1> QED
  BY <1>1, <1>2, <1>3, <1>4 DEF IInv

LEMMA NoticeEvictionStep ==
    ASSUME IInv, NEW p \in Processes, NoticeEviction(p)
    PROVE  IInv'
<1> USE DEF NoticeEviction, groupVars, historyVars
<1>1. member \in [Processes -> MemberType]
  BY MemberTyped DEF IInv
<1>2. /\ ~member'[p].assigned
      /\ member'[p].stored = NoOffset
      /\ \A q \in Processes : q # p => member'[q] = member[q]
  BY <1>1 DEF Unassigned
<1>3. TypeOK'
  <2>1. member' \in [Processes -> MemberType]
    BY <1>1 DEF MemberType, Unassigned, IInv, TypeOK
  <2> QED
    BY <2>1 DEF IInv, TypeOK, MemberType
<1>4. OwnerUpToDate' /\ NothingStored' /\ HeldBounded'
  BY <1>2 DEF IInv, OwnerUpToDate, NothingStored, HeldBounded
<1>5. ReadsPaid'
  <2>1. \A o \in Offsets : ToCome(o)' \subseteq ToCome(o) /\ Waiting(o)' <= Waiting(o)
    BY <1>2 DEF ToCome, Waiting, NextStart
  <2> QED
    BY <1>3, <2>1, ReadsQuiet DEF IInv
<1>6. LossPaid'
  <2>1. Frontier' = Frontier
    BY <1>2 DEF Frontier, IInv, TypeOK
  <2>2. Lost' \subseteq Lost
    BY <2>1 DEF Lost, Offsets
  <2> QED
    BY <2>2, LossKept DEF IInv
<1> QED
  BY <1>3, <1>4, <1>5, <1>6 DEF IInv

\* Reading takes the message out of those to come and into those held.
LEMMA ReadStep ==
    ASSUME IInv, NEW p \in Processes, ReadMessage(p)
    PROVE  IInv'
<1> DEFINE o == member[p].position
<1>1. member \in [Processes -> MemberType]
  BY MemberTyped DEF IInv
<1>2. /\ member[p].assigned
      /\ o \in Offsets /\ o + 1 \in 1 .. log
      /\ Cardinality(held[p]) < Capacity
  BY <1>1, BoundsAssumption DEF ReadMessage, MemberType, IInv, TypeOK, Offsets
<1>3. /\ held' = [held EXCEPT ![p] = @ \cup {o}]
      /\ reads' = [reads EXCEPT ![o] = @ + 1]
      /\ UNCHANGED <<program, log, groupVars, handled, exits, interruptions, faults>>
  BY DEF ReadMessage, Receive
<1>4. \E s \in Up : member' = [member EXCEPT ![p] =
           [[member[p] EXCEPT !.position = @ + 1, !.stored = o + 1] EXCEPT !.state = s]]
  BY <1>1 DEF ReadMessage, Store, MemberType, Up
<1>5. /\ member'[p].assigned
      /\ member'[p].position = o + 1
      /\ member'[p].stored = o + 1
      /\ \A q \in Processes : q # p => member'[q] = member[q]
  BY <1>1, <1>2, <1>4 DEF MemberType
<1>6. TypeOK'
  <2>1. member' \in [Processes -> MemberType]
    <3>1. PICK s \in Up : member' = [member EXCEPT ![p] =
             [[member[p] EXCEPT !.position = @ + 1, !.stored = o + 1] EXCEPT !.state = s]]
      BY <1>4
    <3>2. o + 1 \in 0 .. log /\ o + 1 \in 1 .. log
      BY <1>2
    <3>3. member[p] \in MemberType
      BY <1>1
    <3>4. [[member[p] EXCEPT !.position = @ + 1, !.stored = o + 1] EXCEPT !.state = s]
            \in MemberType
      BY <3>2, <3>3 DEF MemberType
    <3> QED
      BY <1>1, <3>1, <3>4
  <2>2. held' \in [Processes -> SUBSET Offsets] /\ reads' \in [Offsets -> Nat]
    BY <1>2, <1>3 DEF IInv, TypeOK
  <2> QED
    BY <1>3, <2>1, <2>2 DEF IInv, TypeOK, MemberType, groupVars
<1>7. OwnerUpToDate' /\ NothingStored'
  <2>1. o \in Nat /\ committed \in {NoOffset} \cup Nat
    BY <1>2 DEF Offsets, IInv, TypeOK
  <2> QED
    BY <1>2, <1>3, <1>5, <2>1 DEF IInv, OwnerUpToDate, NothingStored, groupVars, NoOffset
<1>8. HeldBounded'
  <2> SUFFICES ASSUME NEW q \in Processes
               PROVE  Cardinality(held'[q]) <= Capacity
    BY DEF HeldBounded
  <2>1. CASE q = p
    <3>1. held[p] \in SUBSET Offsets
      BY DEF IInv, TypeOK
    <3>2. IsFiniteSet(held[p]) /\ Cardinality(held[p]) \in Nat
      BY <3>1, OffsetsFinite
    <3>3. Cardinality(held[p] \cup {o}) \in {Cardinality(held[p]), Cardinality(held[p]) + 1}
      BY <3>2, FS_AddElement
    <3>4. held'[p] = held[p] \cup {o}
      BY <1>3 DEF IInv, TypeOK
    <3> QED
      BY <1>2, <2>1, <3>2, <3>3, <3>4, CapacityAssumption
  <2>2. CASE q # p
    BY <1>3, <2>2 DEF IInv, TypeOK, HeldBounded
  <2> QED
    BY <2>1, <2>2
<1>9. ReadsPaid'
  <2>1. ASSUME NEW n \in Offsets
        PROVE  reads'[n] + Cardinality(ToCome(n)') + Waiting(n)'
                 <= reads[n] + Cardinality(ToCome(n)) + Waiting(n)
                      + (interruptions' - interruptions)
    <3>1. Waiting(n)' = Waiting(n) /\ Waiting(n) \in 0 .. 1
      BY <1>3 DEF Waiting, NextStart, groupVars
    <3>2. /\ reads[n] \in Nat /\ interruptions \in Nat /\ interruptions' = interruptions
          /\ reads'[n] = IF n = o THEN reads[n] + 1 ELSE reads[n]
      BY <1>2, <1>3 DEF IInv, TypeOK
    <3>3. o \in Nat /\ n \in Nat
      BY <1>2 DEF Offsets
    <3>4. CASE n = o
      <4>1. p \in ToCome(n) /\ p \notin ToCome(n)'
        BY <1>2, <1>5, <3>3, <3>4 DEF ToCome
      <4>2. ToCome(n)' \subseteq ToCome(n) \ {p}
        BY <1>5, <4>1 DEF ToCome
      <4>3. Cardinality(ToCome(n)') <= Cardinality(ToCome(n)) - 1
        BY <4>1, <4>2, ToComeLoses
      <4> QED
        BY <3>1, <3>2, <3>4, <4>3, ToComeFinite
    <3>5. CASE n # o
      <4>1. ToCome(n)' \subseteq ToCome(n)
        BY <1>2, <1>5, <3>3, <3>5 DEF ToCome
      <4>2. Cardinality(ToCome(n)') <= Cardinality(ToCome(n))
        BY <4>1, ToComeShrinks
      <4> QED
        BY <3>1, <3>2, <3>5, <4>2, ToComeFinite
    <3> QED
      BY <3>4, <3>5
  <2> QED
    BY <1>6, <2>1, ReadsKept DEF IInv
<1>10. LossPaid'
  <2>1. Frontier' = IF owner = p THEN o + 1 ELSE Frontier
    BY <1>3, <1>5, NoneApart DEF Frontier, groupVars, IInv, TypeOK
  <2>2. owner = p => Frontier = o
    BY NoneApart DEF Frontier
  <2>3. Lost' \subseteq Lost
    <3> SUFFICES ASSUME NEW n \in Lost' PROVE n \in Lost
      OBVIOUS
    <3>1. /\ n \in Offsets /\ n \in Nat /\ resetTo <= n /\ n < Frontier' /\ n \notin handled
          /\ \A q \in Processes : n \notin held'[q]
      BY <1>3 DEF Lost, groupVars, Offsets
    <3>2. n # o /\ \A q \in Processes : n \notin held[q]
      BY <1>3, <3>1 DEF IInv, TypeOK
    <3>3. n < Frontier
      BY <1>2, <2>1, <2>2, <3>1, <3>2 DEF Offsets
    <3> QED
      BY <3>1, <3>2, <3>3 DEF Lost
  <2> QED
    BY <1>3, <2>3, LossKept DEF IInv
<1> QED
  BY <1>6, <1>7, <1>8, <1>9, <1>10 DEF IInv

LEMMA HandleStep ==
    ASSUME IInv, NEW p \in Processes, NEW o \in Offsets, Handle(p, o)
    PROVE  IInv'
<1> USE DEF Handle, groupVars
<1>1. held \in [Processes -> SUBSET Offsets]
  BY DEF IInv, TypeOK
<1>2. /\ held'[p] = held[p] \ {o}
      /\ \A q \in Processes : q # p => held'[q] = held[q]
  BY <1>1
<1>3. TypeOK'
  BY <1>1 DEF IInv, TypeOK
<1>4. OwnerUpToDate' /\ NothingStored'
  BY DEF IInv, OwnerUpToDate, NothingStored
<1>5. HeldBounded'
  <2>1. IsFiniteSet(held[p]) /\ Cardinality(held[p]) \in Nat
    BY <1>1, OffsetsFinite
  <2>2. Cardinality(held'[p]) = Cardinality(held[p]) - 1
    BY <1>2, <2>1, FS_RemoveElement
  <2>3. Cardinality(held'[p]) <= Capacity
    BY <2>1, <2>2, CapacityAssumption DEF IInv, HeldBounded
  <2>4. ASSUME NEW q \in Processes PROVE Cardinality(held'[q]) <= Capacity
    BY <1>2, <2>3 DEF IInv, HeldBounded
  <2> QED
    BY <2>4 DEF HeldBounded
<1>6. ReadsPaid'
  <2>1. \A n \in Offsets : ToCome(n)' \subseteq ToCome(n) /\ Waiting(n)' <= Waiting(n)
    BY DEF ToCome, Waiting, NextStart
  <2> QED
    BY <1>3, <2>1, ReadsQuiet DEF IInv
<1>7. LossPaid'
  <2>1. Frontier' = Frontier
    BY DEF Frontier
  <2>2. Lost' \subseteq Lost
    <3> SUFFICES ASSUME NEW n \in Lost' PROVE n \in Lost
      OBVIOUS
    <3>1. n # o
      BY DEF Lost
    <3> QED
      BY <1>2, <2>1, <3>1 DEF Lost, Offsets
  <2> QED
    BY <2>2, LossKept DEF IInv
<1> QED
  BY <1>3, <1>4, <1>5, <1>6, <1>7 DEF IInv

\* What every end of a process does but for what it loses.
LEMMA EndKept ==
    ASSUME IInv, NEW p \in Processes, NEW how \in {"graceful", "unclean"}, End(p, how),
           faults' \in 0 .. MaxFaults
    PROVE  /\ TypeOK' /\ OwnerUpToDate' /\ NothingStored' /\ HeldBounded' /\ ReadsPaid'
           /\ Cardinality(Lost') <= Cardinality(Lost) + Cardinality(held[p])
<1>1. /\ member \in [Processes -> MemberType]
      /\ held \in [Processes -> SUBSET Offsets]
  BY MemberTyped DEF IInv, TypeOK
<1>2. /\ UNCHANGED <<program, log, committed, resetTo, reads, handled>>
      /\ exits' = [exits EXCEPT ![how] = @ + 1]
      /\ IF owner = p
           THEN owner' = None /\ interruptions' = interruptions + 1
           ELSE UNCHANGED <<owner, interruptions>>
  BY DEF End
<1>3. /\ ~member'[p].assigned
      /\ member'[p].stored = NoOffset
      /\ \A q \in Processes : q # p => member'[q] = member[q]
  BY <1>1 DEF End, Unassigned
<1>4. /\ held'[p] = {}
      /\ \A q \in Processes : q # p => held'[q] = held[q]
  BY <1>1 DEF End
<1>5. TypeOK'
  <2>1. member' \in [Processes -> MemberType]
    BY <1>1 DEF End, MemberType, Unassigned, IInv, TypeOK
  <2>2. held' \in [Processes -> SUBSET Offsets]
    BY <1>1 DEF End
  <2>3. exits' \in [graceful : Nat, unclean : Nat]
    BY <1>2 DEF IInv, TypeOK
  <2>4. owner' \in Processes \cup {None} /\ interruptions' \in Nat
    BY <1>2 DEF IInv, TypeOK
  <2> QED
    BY <1>2, <2>1, <2>2, <2>3, <2>4 DEF IInv, TypeOK, MemberType
<1>6. OwnerUpToDate' /\ NothingStored'
  BY <1>2, <1>3, NoneApart DEF IInv, OwnerUpToDate, NothingStored
<1>7. HeldBounded'
  BY <1>4, FS_EmptySet, CapacityAssumption DEF IInv, HeldBounded
<1>8. ReadsPaid'
  <2>1. ASSUME NEW o \in Offsets
        PROVE  reads'[o] + Cardinality(ToCome(o)') + Waiting(o)'
                 <= reads[o] + Cardinality(ToCome(o)) + Waiting(o)
                      + (interruptions' - interruptions)
    <3>1. Waiting(o) \in 0 .. 1 /\ Waiting(o)' \in 0 .. 1
      BY DEF Waiting
    <3>2. reads[o] \in Nat /\ reads' = reads /\ interruptions \in Nat
      BY <1>2 DEF IInv, TypeOK
    <3>3. Waiting(o)' <= Waiting(o) + (interruptions' - interruptions)
      <4>1. CASE owner = p
        BY <1>2, <3>1, <3>2, <4>1
      <4>2. CASE owner # p
        <5>1. Waiting(o)' = Waiting(o) /\ interruptions' = interruptions
          BY <1>2, <4>2 DEF Waiting, NextStart
        <5> QED
          BY <3>1, <3>2, <5>1
      <4> QED
        BY <4>1, <4>2
    <3>4. ToCome(o)' \subseteq ToCome(o)
      BY <1>3 DEF ToCome
    <3>5. Cardinality(ToCome(o)') <= Cardinality(ToCome(o))
      BY <3>4, ToComeShrinks
    <3>6. interruptions' \in Nat
      BY <1>5 DEF TypeOK
    <3> QED
      BY <3>1, <3>2, <3>3, <3>5, <3>6, ToComeFinite
  <2> QED
    BY <1>5, <2>1, ReadsKept DEF IInv
<1>9. Cardinality(Lost') <= Cardinality(Lost) + Cardinality(held[p])
  <2>1. \A n \in Offsets : n < Frontier' => n < Frontier
    <3>1. CASE owner = p
      <4>1. Frontier = member[p].position /\ Frontier' = committed
        BY <1>2, <3>1, NoneApart DEF Frontier
      <4>2. committed <= member[p].position
        BY <3>1 DEF IInv, OwnerUpToDate
      <4>3. member[p].position \in Nat /\ committed \in {NoOffset} \cup Nat
        BY <1>1 DEF MemberType, IInv, TypeOK
      <4> QED
        BY <4>1, <4>2, <4>3 DEF Offsets, NoOffset
    <3>2. CASE owner # p
      BY <1>2, <1>3, <3>2 DEF Frontier, IInv, TypeOK
    <3> QED
      BY <3>1, <3>2
  <2>2. Lost' \subseteq Lost \cup held[p]
    BY <1>2, <1>4, <2>1 DEF Lost, Offsets
  <2> QED
    BY <1>1, <2>2, LossGrows
<1> QED
  BY <1>5, <1>6, <1>7, <1>8, <1>9

\* A graceful end takes the one message that was read after the stop.
LEMMA ExitGracefulStep ==
    ASSUME IInv, NEW p \in Processes, ExitGraceful(p)
    PROVE  IInv'
<1>1. End(p, "graceful") /\ faults' \in 0 .. MaxFaults
  BY DEF ExitGraceful, IInv, TypeOK
<1>2. Cardinality(held[p]) \in {0, 1}
  BY FS_EmptySet DEF ExitGraceful
<1>3. Cardinality(Lost') <= Cardinality(Lost) + 1
  BY <1>1, <1>2, EndKept, LostTyped, OffsetsFinite
<1>4. LossPaid'
  <2>1. exits.graceful \in Nat /\ exits.unclean \in Nat
    BY DEF IInv, TypeOK
  <2>2. exits'.graceful = exits.graceful + 1 /\ exits'.unclean = exits.unclean
    BY <1>1 DEF End, IInv, TypeOK
  <2>3. Capacity * exits.unclean \in Nat
    BY <2>1, CapacityAssumption
  <2>4. Cardinality(Lost) <= exits.graceful + Capacity * exits.unclean
    BY DEF IInv, LossPaid
  <2>5. Cardinality(Lost) \in Nat /\ Cardinality(Lost') \in Nat
    BY LostTyped, OffsetsFinite
  <2>6. Cardinality(Lost') <= exits'.graceful + Capacity * exits'.unclean
    BY <1>3, <2>1, <2>2, <2>3, <2>4, <2>5
  <2> QED
    BY <2>6 DEF LossPaid
<1> QED
  BY <1>1, <1>4, EndKept DEF IInv

\* A timeout or a crash takes what the process could hold.
LEMMA UncleanExitStep ==
    ASSUME IInv, NEW p \in Processes, ExitTimeout(p) \/ Crash(p)
    PROVE  IInv'
<1>1. End(p, "unclean") /\ faults' \in 0 .. MaxFaults
  BY BoundsAssumption DEF ExitTimeout, Crash, Fault, IInv, TypeOK
<1>2. Cardinality(held[p]) <= Capacity
  BY DEF IInv, HeldBounded
<1>3. Cardinality(Lost') <= Cardinality(Lost) + Capacity
  <2>1. held[p] \in SUBSET Offsets
    BY DEF IInv, TypeOK
  <2>2. Cardinality(held[p]) \in Nat /\ Cardinality(Lost) \in Nat /\ Cardinality(Lost') \in Nat
    BY <2>1, LostTyped, OffsetsFinite
  <2>3. Cardinality(Lost') <= Cardinality(Lost) + Cardinality(held[p])
    BY <1>1, EndKept
  <2> QED
    BY <1>2, <2>2, <2>3, CapacityAssumption
<1>4. LossPaid'
  <2>1. exits.graceful \in Nat /\ exits.unclean \in Nat
    BY DEF IInv, TypeOK
  <2>2. exits'.graceful = exits.graceful /\ exits'.unclean = exits.unclean + 1
    BY <1>1 DEF End, IInv, TypeOK
  <2>3. /\ Capacity * exits.unclean \in Nat
        /\ Capacity * (exits.unclean + 1) = Capacity * exits.unclean + Capacity
    BY <2>1, CapacityAssumption
  <2>4. Cardinality(Lost) <= exits.graceful + Capacity * exits.unclean
    BY DEF IInv, LossPaid
  <2>5. Cardinality(Lost) \in Nat /\ Cardinality(Lost') \in Nat
    BY LostTyped, OffsetsFinite
  <2>6. Cardinality(Lost') <= exits.graceful + (Capacity * exits.unclean + Capacity)
    BY <1>3, <2>1, <2>3, <2>4, <2>5, CapacityAssumption
  <2>7. Cardinality(Lost') <= exits'.graceful + Capacity * exits'.unclean
    BY <2>2, <2>3, <2>6
  <2> QED
    BY <2>7 DEF LossPaid
<1> QED
  BY <1>1, <1>4, EndKept DEF IInv

LEMMA StepIInv == IInv /\ [Next]_vars => IInv'
<1> SUFFICES ASSUME IInv, [Next]_vars PROVE IInv'
  OBVIOUS
<1>1. CASE Produce
  BY <1>1, ProduceStep
<1>2. ASSUME NEW p \in Processes, Group(p) PROVE IInv'
  BY <1>2, AssignStep, AutoCommitStep, GiveUpStep, EvictStep, NoticeEvictionStep DEF Group
<1>3. ASSUME NEW p \in Processes, Consume(p) PROVE IInv'
  BY <1>3, QuietSteps, ReadStep, HandleStep DEF Consume
<1>4. ASSUME NEW p \in Processes, Shutdown(p) PROVE IInv'
  BY <1>4, QuietSteps, GiveUpStep, ExitGracefulStep, UncleanExitStep DEF Shutdown
<1>5. CASE UNCHANGED vars
  <2>1. TypeOK'
    BY <1>5 DEF vars, groupVars, processVars, historyVars, IInv, TypeOK
  <2> QED
    BY <1>5, <2>1, QuietKept DEF vars, groupVars, processVars, historyVars
<1> QED
  BY <1>1, <1>2, <1>3, <1>4, <1>5 DEF Next

LEMMA Invariant == Spec => []IInv
BY InitIInv, StepIInv, PTL DEF Spec

-----------------------------------------------------------------------------
(* The theorems                                                            *)

\* Every variable keeps its type: in particular nobody is ahead of the log, and the
\* commit is never ahead of it either.
THEOREM TypeCorrect == Spec => []TypeOK
<1>1. IInv => TypeOK
  BY DEF IInv
<1> QED
  BY <1>1, Invariant, PTL

\* Committing a message when ReadMessage returns it, before it is handled, loses one
\* message with each graceful exit and at most Capacity with any other; no rebalance,
\* eviction or restart loses one.
THEOREM LossCorrect == Spec => []LossBounded
<1>1. IInv => LossBounded
  <2> SUFFICES ASSUME IInv PROVE LossBounded
    OBVIOUS
  <2>1. committed <= Frontier
    BY NoneApart DEF Frontier, IInv, OwnerUpToDate, TypeOK, NoOffset
  <2>2. Missing \subseteq Lost
    <3>1. /\ committed \in {NoOffset} \cup 0 .. LastOffset
          /\ resetTo \in Nat
          /\ Frontier \in {NoOffset} \cup Nat
      BY MemberTyped, BoundsAssumption DEF Frontier, IInv, TypeOK, MemberType
    <3> QED
      BY <2>1, <3>1, BoundsAssumption DEF Missing, Lost, Offsets, NoOffset
  <2>3. Cardinality(Missing) <= Cardinality(Lost)
    BY <2>2, LostTyped, OffsetsFinite, FS_Subset
  <2>4. Cardinality(Missing) \in Nat /\ Cardinality(Lost) \in Nat
    <3>1. Missing \in SUBSET Offsets
      BY <2>2, LostTyped
    <3> QED
      BY <3>1, LostTyped, OffsetsFinite
  <2>5. exits.graceful \in Nat /\ exits.unclean \in Nat
    BY DEF IInv, TypeOK
  <2>6. Capacity * exits.unclean \in Nat
    BY <2>5, CapacityAssumption
  <2> QED
    BY <2>3, <2>4, <2>5, <2>6 DEF IInv, LossPaid, LossBounded
<1> QED
  BY <1>1, Invariant, PTL

\* ReadMessage returns a message once, and once more for each assignment that ended
\* without a commit: an eviction, a crash, or an exit of a pusher, which never
\* closes its consumer.
THEOREM DuplicatesCorrect == Spec => []DuplicatesPaid
<1>1. IInv => DuplicatesPaid
  <2> SUFFICES ASSUME IInv, NEW o \in Offsets
               PROVE  reads[o] <= 1 + interruptions
    BY DEF DuplicatesPaid
  <2>1. reads[o] \in Nat /\ interruptions \in Nat
    BY DEF IInv, TypeOK
  <2>2. Cardinality(ToCome(o)) \in Nat /\ Waiting(o) \in 0 .. 1
    BY ToComeFinite DEF Waiting
  <2>3. reads[o] + Cardinality(ToCome(o)) + Waiting(o) <= 1 + interruptions
    BY DEF IInv, ReadsPaid
  <2> QED
    BY <2>1, <2>2, <2>3
<1> QED
  BY <1>1, Invariant, PTL
=============================================================================
