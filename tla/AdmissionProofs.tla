-------------------------- MODULE AdmissionProofs --------------------------
(***************************************************************************)
(* Theorems about the rate limiter, and about HandleMessages that calls    *)
(* it: types, RateBounded, RefusedOverLimit, UniqueOncePerTtl and          *)
(* QuotaAccounted, for any number of processes, any limit and any clock.   *)
(*                                                                         *)
(* Counted(m) is the number of calls of minute m that were allowed because *)
(* the count was under the limit.  While m is the current minute its key   *)
(* cannot expire (KeyLives), so the key counts them all, and a call that   *)
(* goes on to its INCR saw at most RpmLimit - 1 of them: with the calls in *)
(* the race there are at most RpmLimit + N - 1.  When the minute is over   *)
(* the key may expire, but only the calls still under way, one of each     *)
(* process, can be allowed (OldBounded).                                   *)
(*                                                                         *)
(* Conversely, a count that is in Redis is of one of the last three        *)
(* minutes (KeysCount), which have no key in common with a minute in which *)
(* a call may be under way but their own.                                  *)
(*                                                                         *)
(* HandleMessages makes only calls that the limiter has (LimiterCorrect),  *)
(* so its invariants come on top of those: Accounts says what became of    *)
(* every message and of every call that was allowed.                       *)
(***************************************************************************)
EXTENDS Admission, FiniteSetTheorems, TLAPS

Counted(m) == allowed[m] - failedOpen[m]

Racing(m) == {p \in Processes : call[p].pc = "incr" /\ call[p].minute = m}
UnderWay(m) == {p \in Processes : call[p] # Idle /\ call[p].minute = m}

Key(m) == m % MinutesPerHour

\* A call is at most a minute old.
CallsRecent ==
    \A p \in Processes : call[p] # Idle =>
      \/ call[p].minute = minute /\ call[p].age <= second
      \/ call[p].minute = minute - 1 /\ call[p].age > second

FutureEmpty ==
    \A m \in Minutes : m > minute => allowed[m] = 0 /\ failedOpen[m] = 0

KeyLives ==
    /\ Counted(minute) <= count[Key(minute)]
    /\ Counted(minute) > 0 => timeToLive[Key(minute)] >= SecondsPerMinute - second

FewerFailed == \A m \in Minutes : failedOpen[m] <= allowed[m]

NowBounded ==
    Counted(minute) + Cardinality(Racing(minute)) <= RpmLimit + Cardinality(Processes) - 1

OldBounded ==
    \A m \in Minutes : m < minute =>
      Counted(m) + Cardinality(UnderWay(m)) <= RpmLimit + 2 * Cardinality(Processes) - 1

IInv ==
    /\ TypeOK
    /\ CallsRecent
    /\ FutureEmpty
    /\ FewerFailed
    /\ KeyLives
    /\ NowBounded
    /\ OldBounded

-----------------------------------------------------------------------------
(* Lemmas                                                                  *)

\* A key is one of the keys.
LEMMA KeyType == ASSUME NEW m \in Minutes PROVE Key(m) \in Keys
  BY ClockAssumption DEF Minutes, Key, Keys

\* What is known of a call that is under way.
LEMMA BusyCall ==
  ASSUME TypeOK, NEW p \in Processes, call[p] # Idle
  PROVE  /\ call[p].pc \in {"get", "incr"}
         /\ call[p].minute \in Minutes
         /\ call[p].age \in 0 .. SecondsPerMinute - 1
         /\ deviceKey(p) = Key(call[p].minute)
         /\ deviceKey(p) \in Keys
  BY KeyType DEF TypeOK, deviceKey, Key

\* The calls of a minute are those of some of the processes.
LEMMA CallCards ==
  ASSUME NEW m
  PROVE  /\ IsFiniteSet(Racing(m)) /\ IsFiniteSet(UnderWay(m))
         /\ Cardinality(Processes) \in Nat \ {0}
         /\ Cardinality(Racing(m)) \in 0 .. Cardinality(Processes)
         /\ Cardinality(UnderWay(m)) \in 0 .. Cardinality(Processes)
<1>1. Racing(m) \subseteq Processes /\ UnderWay(m) \subseteq Processes
  BY DEF Racing, UnderWay
<1>2. Cardinality(Processes) \in Nat \ {0}
  BY FS_CardinalityType, FS_EmptySet, ProcessesAssumption
<1> QED
  BY <1>1, <1>2, FS_Subset, FS_CardinalityType, ProcessesAssumption

\* A set of calls that loses one has one call less.
LEMMA OneLess ==
  ASSUME NEW S, IsFiniteSet(S), NEW p \in S
  PROVE  Cardinality(S \ {p}) = Cardinality(S) - 1
  BY FS_RemoveElement

\* What counts and bounds are made of are numbers.
LEMMA CountedType ==
  ASSUME TypeOK, NEW m \in Minutes
  PROVE  Counted(m) \in Int /\ allowed[m] \in Nat /\ failedOpen[m] \in Nat
  BY ClockAssumption DEF TypeOK, Counted

-----------------------------------------------------------------------------
(* Type correctness                                                        *)

LEMMA InitType == Init => TypeOK
  BY ClockAssumption DEF Init, TypeOK, Minutes, Keys, Idle

LEMMA RedisType ==
  ASSUME TypeOK, NEW p \in Processes, call[p] # Idle, IncrAndExpire(p)
  PROVE  /\ count' \in [Keys -> Nat]
         /\ timeToLive' \in [Keys -> 0 .. SecondsPerMinute]
         /\ \A k \in Keys : count'[k] > 0 <=> timeToLive'[k] > 0
  BY BusyCall, ClockAssumption DEF TypeOK, IncrAndExpire

LEMMA ReturnType ==
  ASSUME TypeOK, NEW p \in Processes, call[p] # Idle, ReturnTrue(p)
  PROVE  /\ call' \in [Processes -> {Idle} \cup
                          [pc : {"get", "incr"}, minute : Minutes,
                           age : 0 .. SecondsPerMinute - 1]]
         /\ allowed' \in [Minutes -> Nat]
  BY BusyCall DEF TypeOK, ReturnTrue, Return

LEMMA FailType ==
  ASSUME TypeOK, NEW p \in Processes, call[p] # Idle, FailOpen(p)
  PROVE  failedOpen' \in [Minutes -> 0 .. MaxErrors]
  BY BusyCall, ClockAssumption DEF TypeOK, FailOpen

LEMMA StepType == TypeOK /\ [Next]_vars => TypeOK'
<1> SUFFICES ASSUME TypeOK, [Next]_vars PROVE TypeOK'
  OBVIOUS
<1>1. CASE Tick
  <2>1. /\ minute' \in Minutes
        /\ second' \in 0 .. SecondsPerMinute - 1
    BY <1>1, ClockAssumption DEF Tick, TypeOK, Minutes
  <2>2. /\ count' \in [Keys -> Nat]
        /\ timeToLive' \in [Keys -> 0 .. SecondsPerMinute]
        /\ \A k \in Keys : count'[k] > 0 <=> timeToLive'[k] > 0
    BY <1>1, ClockAssumption DEF Tick, TypeOK
  <2>3. call' \in [Processes -> {Idle} \cup
                     [pc : {"get", "incr"}, minute : Minutes, age : 0 .. SecondsPerMinute - 1]]
    BY <1>1, ClockAssumption DEF Tick, TypeOK, Idle
  <2> QED
    BY <1>1, <2>1, <2>2, <2>3 DEF Tick, TypeOK
<1>2. ASSUME NEW p \in Processes, ReadClock(p) PROVE TypeOK'
  BY <1>2, ClockAssumption DEF ReadClock, TypeOK, redisVars
<1>3. ASSUME NEW p \in Processes, Get(p) PROVE TypeOK'
  <2>1. call[p] # Idle
    BY <1>3 DEF Get, Idle
  <2> QED
    BY <1>3, <2>1, BusyCall DEF Get, Return, TypeOK, redisVars
<1>4. ASSUME NEW p \in Processes, GetFails(p) PROVE TypeOK'
  <2>1. call[p] # Idle
    BY <1>4 DEF GetFails, Idle
  <2> QED
    BY <1>4, <2>1, ReturnType, FailType DEF GetFails, FailOpen, TypeOK, redisVars
<1>5. ASSUME NEW p \in Processes, TxPipelined(p) PROVE TypeOK'
  <2>1. call[p] # Idle
    BY <1>5 DEF TxPipelined, Idle
  <2> QED
    BY <1>5, <2>1, ReturnType, RedisType DEF TxPipelined, TypeOK
<1>6. ASSUME NEW p \in Processes, TxPipelinedFails(p) PROVE TypeOK'
  <2>1. call[p] # Idle
    BY <1>6 DEF TxPipelinedFails, Idle
  <2> QED
    BY <1>6, <2>1, ReturnType, RedisType, FailType
    DEF TxPipelinedFails, FailOpen, TypeOK, redisVars
<1>7. CASE UNCHANGED vars
  BY <1>7 DEF vars, redisVars, TypeOK
<1> QED
  BY <1>1, <1>2, <1>3, <1>4, <1>5, <1>6, <1>7 DEF Next, Allow

\* The types and bounds of the limiter: a key that is in Redis has a time to live,
\* and a call is never a minute old.
THEOREM TypeCorrect == Spec => []TypeOK
  BY InitType, StepType, PTL DEF Spec

-----------------------------------------------------------------------------
(* The bound                                                               *)

\* A call that returns is neither under way nor racing any more.
LEMMA Returned ==
  ASSUME TypeOK, NEW p \in Processes, call[p] # Idle, Return(p), NEW m \in Minutes
  PROVE  /\ Racing(m)' = Racing(m) \ {p}
         /\ UnderWay(m)' = UnderWay(m) \ {p}
<1>1. \A q \in Processes : call'[q] = IF q = p THEN Idle ELSE call[q]
  BY DEF TypeOK, Return
<1> QED
  BY <1>1 DEF Racing, UnderWay, Idle

\* Steps that count no call, and start or race with none, keep the bounds.
LEMMA BoundsKept ==
  ASSUME TypeOK, TypeOK', NowBounded, OldBounded, minute' = minute,
         \A m \in Minutes : /\ Counted(m)' = Counted(m)
                            /\ Racing(m)' \subseteq Racing(m)
                            /\ m < minute => UnderWay(m)' \subseteq UnderWay(m)
  PROVE  NowBounded' /\ OldBounded'
<1>1. minute \in Minutes /\ Minutes \subseteq Int
  BY DEF TypeOK, Minutes
<1>2. ASSUME NEW m \in Minutes
      PROVE  /\ Cardinality(Racing(m)') \in Int
             /\ Cardinality(Racing(m)') <= Cardinality(Racing(m))
             /\ m < minute => /\ Cardinality(UnderWay(m)') \in Int
                              /\ Cardinality(UnderWay(m)') <= Cardinality(UnderWay(m))
  BY CallCards, FS_Subset, FS_CardinalityType
<1>3. NowBounded'
  BY <1>1, <1>2, CallCards, CountedType, LimitAssumption DEF NowBounded
<1>4. OldBounded'
  BY <1>1, <1>2, CallCards, CountedType, LimitAssumption DEF OldBounded
<1> QED
  BY <1>3, <1>4

\* What a transaction adds to the count of its minute it takes from the race.
LEMMA BoundsTraded ==
  ASSUME TypeOK, TypeOK', NowBounded, OldBounded, minute' = minute,
         NEW p \in Processes, call[p].pc = "incr", ReturnTrue(p), UNCHANGED failedOpen
  PROVE  NowBounded' /\ OldBounded'
<1> DEFINE cm == call[p].minute
<1>1. minute \in Minutes /\ Minutes \subseteq Int
  BY DEF TypeOK, Minutes
<1>2. call[p] # Idle /\ cm \in Minutes
  BY BusyCall DEF Idle
<1>3. p \in Racing(cm) /\ p \in UnderWay(cm)
  BY <1>2 DEF Racing, UnderWay
<1>4. ASSUME NEW m \in Minutes
      PROVE  Counted(m)' = Counted(m) + (IF m = cm THEN 1 ELSE 0)
  BY <1>2, CountedType DEF ReturnTrue, Counted, TypeOK
<1>5. ASSUME NEW m \in Minutes
      PROVE  /\ Cardinality(Racing(m)') = Cardinality(Racing(m)) - (IF m = cm THEN 1 ELSE 0)
             /\ Cardinality(UnderWay(m)') = Cardinality(UnderWay(m)) - (IF m = cm THEN 1 ELSE 0)
  <2>1. Racing(m)' = Racing(m) \ {p} /\ UnderWay(m)' = UnderWay(m) \ {p}
    BY <1>2, Returned DEF ReturnTrue
  <2>2. CASE m = cm
    BY <2>1, <2>2, <1>3, CallCards, OneLess
  <2>3. CASE m # cm
    <3>1. p \notin Racing(m) /\ p \notin UnderWay(m)
      BY <2>3 DEF Racing, UnderWay
    <3>2. Racing(m)' = Racing(m) /\ UnderWay(m)' = UnderWay(m)
      BY <2>1, <3>1
    <3> QED
      BY <3>2, <2>3, CallCards
  <2> QED
    BY <2>2, <2>3
<1>6. NowBounded'
  BY <1>1, <1>4, <1>5, CallCards, CountedType, LimitAssumption DEF NowBounded
<1>7. OldBounded'
  BY <1>1, <1>4, <1>5, CallCards, CountedType, LimitAssumption DEF OldBounded
<1> QED
  BY <1>6, <1>7

\* A transaction gives the key of its minute a full minute to live.
LEMMA KeyKept ==
  ASSUME TypeOK, KeyLives, UNCHANGED <<minute, second>>,
         NEW p \in Processes, call[p] # Idle, IncrAndExpire(p),
         Counted(minute)' <= Counted(minute)
                               + (IF call[p].minute = minute THEN 1 ELSE 0),
         Counted(minute)' \in Int
  PROVE  KeyLives'
<1>1. /\ minute \in Minutes /\ second \in 0 .. SecondsPerMinute - 1
      /\ Key(minute) \in Keys /\ deviceKey(p) \in Keys
      /\ deviceKey(p) = Key(call[p].minute)
      /\ count[Key(minute)] \in Nat /\ timeToLive[Key(minute)] \in Nat
    BY KeyType, BusyCall, ClockAssumption DEF TypeOK
<1>2. count'[Key(minute)] = count[Key(minute)] + (IF deviceKey(p) = Key(minute) THEN 1 ELSE 0)
  BY <1>1 DEF IncrAndExpire, TypeOK
<1>3. timeToLive'[Key(minute)] = IF deviceKey(p) = Key(minute)
                                   THEN SecondsPerMinute ELSE timeToLive[Key(minute)]
  BY <1>1 DEF IncrAndExpire, TypeOK
<1>4. Counted(minute) \in Int
  BY <1>1, CountedType
<1>5. Counted(minute)' <= count'[Key(minute)]
  BY <1>1, <1>2, <1>4 DEF KeyLives
<1>6. Counted(minute)' > 0 => timeToLive'[Key(minute)] >= SecondsPerMinute - second
  BY <1>1, <1>3, <1>4, ClockAssumption DEF KeyLives
<1> QED
  BY <1>5, <1>6 DEF KeyLives, Key

LEMMA InitInv == Init => IInv
<1> SUFFICES ASSUME Init PROVE IInv
  OBVIOUS
<1>1. TypeOK
  BY InitType
<1>2. 0 \in Minutes
  BY <1>1 DEF Init, TypeOK
<1>3. \A m : Racing(m) = {}
  BY DEF Init, Racing, Idle
<1>4. /\ Counted(minute) = 0 /\ Cardinality(Racing(minute)) = 0
  BY <1>2, <1>3, FS_EmptySet DEF Init, Counted
<1>5. NowBounded
  BY <1>4, CallCards, LimitAssumption DEF NowBounded
<1>6. OldBounded
  BY DEF Init, OldBounded, Minutes
<1>7. KeyLives
  BY <1>2, <1>4, KeyType DEF Init, KeyLives
<1>8. CallsRecent /\ FutureEmpty /\ FewerFailed
  BY DEF Init, CallsRecent, FutureEmpty, FewerFailed
<1> QED
  BY <1>1, <1>5, <1>6, <1>7, <1>8 DEF IInv

LEMMA TickInv == ASSUME IInv, TypeOK', Tick PROVE IInv'
<1>1. /\ TypeOK
      /\ minute \in Minutes /\ minute' \in Minutes /\ Minutes \subseteq Nat
      /\ second \in 0 .. SecondsPerMinute - 1
  BY DEF IInv, TypeOK, Minutes
<1>2. ASSUME NEW p \in Processes
      PROVE  /\ call'[p] = Idle <=> call[p] = Idle
             /\ call[p] # Idle => /\ call'[p].pc = call[p].pc
                                  /\ call'[p].minute = call[p].minute
                                  /\ call'[p].age = call[p].age + 1
                                  /\ call[p].age + 1 < SecondsPerMinute
  <2>1. CASE call[p] = Idle
    BY <2>1 DEF Tick
  <2>2. CASE call[p] # Idle
    <3>1. call'[p] = [call[p] EXCEPT !.age = @ + 1]
      BY <2>2 DEF Tick
    <3>2. call[p] \in [pc : {"get", "incr"}, minute : Minutes, age : 0 .. SecondsPerMinute - 1]
      BY <1>1, <2>2 DEF TypeOK
    <3> QED
      BY <3>1, <3>2, <2>2 DEF Tick, Idle
  <2> QED
    BY <2>1, <2>2
<1>3. ASSUME NEW m PROVE Racing(m)' = Racing(m) /\ UnderWay(m)' = UnderWay(m)
  BY <1>2 DEF Racing, UnderWay, Idle
<1>4. ASSUME NEW m PROVE Counted(m)' = Counted(m)
  BY DEF Tick, Counted
<1>5. \/ /\ second + 1 < SecondsPerMinute /\ second' = second + 1 /\ minute' = minute
      \/ /\ second = SecondsPerMinute - 1 /\ second' = 0 /\ minute' = minute + 1
  BY <1>1, ClockAssumption DEF Tick
<1>6. CallsRecent'
  <2> SUFFICES ASSUME NEW p \in Processes, call'[p] # Idle
               PROVE  \/ call'[p].minute = minute' /\ call'[p].age <= second'
                      \/ call'[p].minute = minute' - 1 /\ call'[p].age > second'
    BY DEF CallsRecent
  <2>1. /\ call[p].minute \in Nat /\ call[p].age \in Nat
        /\ \/ call[p].minute = minute /\ call[p].age <= second
           \/ call[p].minute = minute - 1 /\ call[p].age > second
    BY <1>1, <1>2, BusyCall, ClockAssumption DEF IInv, CallsRecent
  <2> QED
    BY <2>1, <1>1, <1>2, <1>5, ClockAssumption
<1>7. FutureEmpty' /\ FewerFailed'
  BY <1>1, <1>5 DEF Tick, IInv, FutureEmpty, FewerFailed
<1>8. KeyLives'
  <2>1. CASE minute' = minute
    <3>1. /\ Key(minute) \in Keys /\ Counted(minute) \in Int
          /\ count[Key(minute)] \in Nat /\ timeToLive[Key(minute)] \in Nat
          /\ Counted(minute) <= count[Key(minute)]
          /\ Counted(minute) > 0 => timeToLive[Key(minute)] >= SecondsPerMinute - second
      BY <1>1, KeyType, CountedType, ClockAssumption DEF IInv, KeyLives, TypeOK
    <3>2. /\ count'[Key(minute)] \in Nat
          /\ timeToLive[Key(minute)] # 1 => count'[Key(minute)] = count[Key(minute)]
          /\ timeToLive[Key(minute)] # 0
               => timeToLive'[Key(minute)] = timeToLive[Key(minute)] - 1
      BY <3>1 DEF Tick, TypeOK
    <3>3. Counted(minute)' = Counted(minute)
      BY <2>1, <1>4 DEF Counted
    <3>4. Counted(minute)' <= count'[Key(minute)]
      BY <3>1, <3>2, <3>3, <2>1, <1>1, <1>5, ClockAssumption
    <3>5. Counted(minute)' > 0 => timeToLive'[Key(minute)] >= SecondsPerMinute - second'
      BY <3>1, <3>2, <3>3, <2>1, <1>1, <1>5, ClockAssumption
    <3> QED
      BY <3>4, <3>5, <2>1 DEF KeyLives, Key
  <2>2. CASE minute' # minute
    <3>1. minute' > minute
      BY <2>2, <1>1, <1>5
    <3>2. allowed[minute'] = 0 /\ failedOpen[minute'] = 0
      BY <3>1, <1>1 DEF IInv, FutureEmpty
    <3>3. Counted(minute)' = 0
      BY <3>2 DEF Counted, Tick
    <3>4. count'[Key(minute')] \in Nat
      BY <1>1, KeyType DEF TypeOK
    <3> QED
      BY <3>3, <3>4 DEF KeyLives, Key
  <2> QED
    BY <2>1, <2>2
<1>9. NowBounded'
  <2>1. CASE minute' = minute
    BY <2>1, <1>3, <1>4 DEF IInv, NowBounded, Counted
  <2>2. CASE minute' # minute
    <3>1. minute' > minute
      BY <2>2, <1>1, <1>5
    <3>2. allowed[minute'] = 0 /\ failedOpen[minute'] = 0
      BY <3>1, <1>1 DEF IInv, FutureEmpty
    <3>3. Counted(minute)' = 0
      BY <3>2 DEF Counted, Tick
    <3>4. Racing(minute') = {}
      BY <3>1, <1>1, BusyCall DEF Racing, Idle, IInv, CallsRecent
    <3>5. Cardinality(Racing(minute)') = 0
      BY <3>4, <1>3, FS_EmptySet DEF Racing
    <3>6. Cardinality(Processes) \in Nat \ {0}
      BY CallCards
    <3> QED
      BY <3>3, <3>5, <3>6, LimitAssumption DEF NowBounded
  <2> QED
    BY <2>1, <2>2
<1>10. OldBounded'
  <2> SUFFICES ASSUME NEW m \in Minutes, m < minute'
               PROVE  Counted(m) + Cardinality(UnderWay(m))
                        <= RpmLimit + 2 * Cardinality(Processes) - 1
    BY <1>3, <1>4 DEF OldBounded
  <2>1. CASE m < minute
    BY <2>1 DEF IInv, OldBounded
  <2>2. CASE m = minute
    BY <2>2, <1>1, CallCards, CountedType, LimitAssumption DEF IInv, NowBounded
  <2> QED
    BY <2>1, <2>2, <1>1, <1>5
<1> QED
  BY <1>6, <1>7, <1>8, <1>9, <1>10 DEF IInv

\* A call that returns leaves the others as they are, and what it counts is in a
\* minute that is not in the future.
LEMMA ReturnRecent ==
  ASSUME IInv, NEW p \in Processes, call[p] # Idle, Return(p), UNCHANGED <<minute, second>>
  PROVE  CallsRecent' /\ call[p].minute <= minute
<1>1. \A q \in Processes : call'[q] = IF q = p THEN Idle ELSE call[q]
  BY DEF IInv, TypeOK, Return
<1>2. CallsRecent'
  BY <1>1 DEF IInv, CallsRecent
<1>3. call[p].minute <= minute
  BY DEF IInv, CallsRecent, TypeOK, Minutes
<1> QED
  BY <1>2, <1>3

\* A call that fails open counts nothing.
LEMMA FailOpenCounts ==
  ASSUME IInv, NEW p \in Processes, call[p] # Idle, FailOpen(p), UNCHANGED <<minute, second>>
  PROVE  /\ \A m \in Minutes : Counted(m)' = Counted(m)
         /\ FutureEmpty' /\ FewerFailed'
<1> DEFINE cm == call[p].minute
<1>1. /\ TypeOK /\ cm \in Minutes /\ cm <= minute
      /\ minute \in Minutes /\ Minutes \subseteq Nat
  <2>1. TypeOK /\ minute \in Minutes /\ Minutes \subseteq Nat
    BY DEF IInv, TypeOK, Minutes
  <2>2. Return(p)
    BY DEF FailOpen, ReturnTrue
  <2> QED
    BY <2>1, <2>2, BusyCall, ReturnRecent
<1>2. ASSUME NEW m \in Minutes
      PROVE  /\ allowed'[m] = allowed[m] + (IF m = cm THEN 1 ELSE 0)
             /\ failedOpen'[m] = failedOpen[m] + (IF m = cm THEN 1 ELSE 0)
             /\ allowed[m] \in Nat /\ failedOpen[m] \in Nat
  BY <1>1, CountedType DEF FailOpen, ReturnTrue, TypeOK
<1>3. \A m \in Minutes : Counted(m)' = Counted(m)
  BY <1>2 DEF Counted
<1>4. FutureEmpty'
  <2> SUFFICES ASSUME NEW m \in Minutes, m > minute
               PROVE  allowed'[m] = 0 /\ failedOpen'[m] = 0
    BY DEF FutureEmpty
  <2>1. m # cm /\ allowed[m] = 0 /\ failedOpen[m] = 0
    BY <1>1 DEF IInv, FutureEmpty
  <2> QED
    BY <1>2, <2>1
<1>5. FewerFailed'
  BY <1>2 DEF IInv, FewerFailed
<1> QED
  BY <1>3, <1>4, <1>5

LEMMA ReadClockInv ==
  ASSUME IInv, TypeOK', NEW p \in Processes, ReadClock(p) PROVE IInv'
<1>1. /\ TypeOK /\ minute \in Minutes /\ Minutes \subseteq Nat
      /\ second \in Nat /\ call[p] = Idle
      /\ UNCHANGED <<minute, second, count, timeToLive, allowed, failedOpen>>
  BY ClockAssumption DEF IInv, TypeOK, Minutes, ReadClock, redisVars
<1>2. \A q \in Processes :
        call'[q] = IF q = p THEN [pc |-> "get", minute |-> minute, age |-> 0] ELSE call[q]
  BY <1>1 DEF TypeOK, ReadClock
<1>3. CallsRecent'
  BY <1>1, <1>2 DEF IInv, CallsRecent
<1>4. \A m \in Minutes : /\ Counted(m)' = Counted(m)
                         /\ Racing(m)' \subseteq Racing(m)
                         /\ m < minute => UnderWay(m)' \subseteq UnderWay(m)
  BY <1>1, <1>2 DEF Counted, Racing, UnderWay
<1>5. NowBounded' /\ OldBounded'
  BY <1>1, <1>4, BoundsKept DEF IInv
<1>6. FutureEmpty' /\ FewerFailed' /\ KeyLives'
  BY <1>1 DEF IInv, FutureEmpty, FewerFailed, KeyLives, Counted, Key
<1> QED
  BY <1>3, <1>5, <1>6 DEF IInv

LEMMA GetInv ==
  ASSUME IInv, TypeOK', NEW p \in Processes, Get(p) PROVE IInv'
<1> DEFINE cm == call[p].minute
<1>1. /\ TypeOK /\ minute \in Minutes /\ Minutes \subseteq Nat
      /\ call[p].pc = "get" /\ call[p] # Idle /\ cm \in Minutes
      /\ UNCHANGED <<minute, second, count, timeToLive, allowed, failedOpen>>
  BY BusyCall DEF IInv, TypeOK, Minutes, Get, redisVars, Idle
<1>2. \A m \in Minutes : Counted(m)' = Counted(m)
  BY <1>1 DEF Counted
<1>3. FutureEmpty' /\ FewerFailed' /\ KeyLives'
  BY <1>1 DEF IInv, FutureEmpty, FewerFailed, KeyLives, Counted, Key
<1>4. CASE Return(p)
  <2>1. \A m \in Minutes : /\ Racing(m)' \subseteq Racing(m)
                           /\ UnderWay(m)' \subseteq UnderWay(m)
    BY <1>1, <1>4, Returned
  <2>2. NowBounded' /\ OldBounded'
    BY <1>1, <1>2, <2>1, BoundsKept DEF IInv
  <2>3. CallsRecent'
    BY <1>1, <1>4, ReturnRecent
  <2> QED
    BY <1>3, <2>2, <2>3 DEF IInv
<1>5. CASE /\ count[deviceKey(p)] < RpmLimit
           /\ call' = [call EXCEPT ![p].pc = "incr"]
  <2>1. ASSUME NEW q \in Processes
        PROVE  /\ call'[q] = Idle <=> call[q] = Idle
               /\ call'[q].minute = call[q].minute /\ call'[q].age = call[q].age
               /\ q # p => call'[q] = call[q]
    <3>1. CASE q # p
      BY <3>1, <1>1, <1>5 DEF TypeOK
    <3>2. CASE q = p
      <4>1. call[p] \in [pc : {"get", "incr"}, minute : Minutes, age : 0 .. SecondsPerMinute - 1]
        BY <1>1 DEF TypeOK
      <4>2. call'[p] = [call[p] EXCEPT !.pc = "incr"]
        BY <1>1, <1>5 DEF TypeOK
      <4> QED
        BY <3>2, <4>1, <4>2, <1>1 DEF Idle
    <3> QED
      BY <3>1, <3>2
  <2>2. CallsRecent'
    BY <1>1, <2>1 DEF IInv, CallsRecent
  <2>3. \A m \in Minutes : UnderWay(m)' = UnderWay(m)
    BY <2>1 DEF UnderWay
  <2>4. CASE cm # minute
    <3>1. Racing(minute)' = Racing(minute)
      BY <2>1, <2>4, <1>1 DEF Racing
    <3>2. NowBounded' /\ OldBounded'
      BY <1>1, <1>2, <2>3, <3>1 DEF IInv, NowBounded, OldBounded, Counted, Racing
    <3> QED
      BY <1>3, <2>2, <3>2 DEF IInv
  <2>5. CASE cm = minute
    <3>1. count[Key(minute)] < RpmLimit /\ count[Key(minute)] \in Nat
      BY <1>1, <1>5, <2>5, BusyCall DEF TypeOK
    <3>2. Counted(minute) <= RpmLimit - 1
      BY <1>1, <3>1, CountedType, LimitAssumption DEF IInv, KeyLives
    <3>3. /\ Cardinality(Racing(minute)') \in 0 .. Cardinality(Processes)
          /\ Cardinality(Processes) \in Nat
      <4>1. Racing(minute)' \subseteq Processes
        BY DEF Racing
      <4> QED
        BY <4>1, FS_Subset, FS_CardinalityType, ProcessesAssumption
    <3>4. Counted(minute)' = Counted(minute) /\ Counted(minute) \in Int
      BY <1>1, <1>2, CountedType DEF Counted
    <3>5. NowBounded'
      BY <3>2, <3>3, <3>4, LimitAssumption DEF NowBounded
    <3>6. OldBounded'
      BY <1>1, <1>2, <2>3 DEF IInv, OldBounded
    <3> QED
      BY <1>3, <2>2, <3>5, <3>6 DEF IInv
  <2> QED
    BY <2>4, <2>5
<1> QED
  <2>1. count[deviceKey(p)] \in Nat
    BY <1>1, BusyCall DEF TypeOK
  <2> QED
    BY <1>4, <1>5, <2>1, LimitAssumption DEF Get

LEMMA GetFailsInv ==
  ASSUME IInv, TypeOK', NEW p \in Processes, GetFails(p) PROVE IInv'
<1>1. /\ TypeOK /\ call[p] # Idle /\ FailOpen(p) /\ Return(p)
      /\ UNCHANGED <<minute, second, count, timeToLive>>
  BY DEF IInv, GetFails, FailOpen, ReturnTrue, redisVars, Idle
<1>2. /\ \A m \in Minutes : Counted(m)' = Counted(m)
      /\ FutureEmpty' /\ FewerFailed' /\ CallsRecent'
  BY <1>1, FailOpenCounts, ReturnRecent
<1>3. \A m \in Minutes : /\ Racing(m)' \subseteq Racing(m)
                         /\ UnderWay(m)' \subseteq UnderWay(m)
  BY <1>1, Returned
<1>4. NowBounded' /\ OldBounded'
  BY <1>1, <1>2, <1>3, BoundsKept DEF IInv
<1>5. minute \in Minutes /\ Counted(minute)' = Counted(minute)
  BY <1>1, <1>2 DEF TypeOK, Counted
<1>6. KeyLives'
  BY <1>1, <1>5 DEF IInv, KeyLives, Key
<1> QED
  BY <1>2, <1>4, <1>6 DEF IInv

LEMMA TxPipelinedFailsInv ==
  ASSUME IInv, TypeOK', NEW p \in Processes, TxPipelinedFails(p) PROVE IInv'
<1>1. /\ TypeOK /\ call[p] # Idle /\ FailOpen(p) /\ Return(p)
      /\ UNCHANGED <<minute, second>>
      /\ minute \in Minutes
  BY DEF IInv, TxPipelinedFails, FailOpen, ReturnTrue, Idle, TypeOK
<1>2. /\ \A m \in Minutes : Counted(m)' = Counted(m)
      /\ FutureEmpty' /\ FewerFailed' /\ CallsRecent'
  BY <1>1, FailOpenCounts, ReturnRecent
<1>3. \A m \in Minutes : /\ Racing(m)' \subseteq Racing(m)
                         /\ UnderWay(m)' \subseteq UnderWay(m)
  BY <1>1, Returned
<1>4. NowBounded' /\ OldBounded'
  BY <1>1, <1>2, <1>3, BoundsKept DEF IInv
<1>5. Counted(minute)' = Counted(minute) /\ Counted(minute) \in Int
  BY <1>1, <1>2, CountedType DEF Counted
<1>6. KeyLives'
  <2>1. CASE IncrAndExpire(p)
    <3>1. Counted(minute)' <= Counted(minute)
                                + (IF call[p].minute = minute THEN 1 ELSE 0)
      BY <1>5
    <3>2. Counted(minute)' \in Int
      BY <1>5
    <3> QED
      BY <2>1, <1>1, <3>1, <3>2, KeyKept DEF IInv
  <2>2. CASE UNCHANGED redisVars
    BY <2>2, <1>1, <1>5 DEF IInv, KeyLives, Key, redisVars
  <2> QED
    BY <2>1, <2>2 DEF TxPipelinedFails
<1> QED
  BY <1>2, <1>4, <1>6 DEF IInv

LEMMA TxPipelinedInv ==
  ASSUME IInv, TypeOK', NEW p \in Processes, TxPipelined(p) PROVE IInv'
<1> DEFINE cm == call[p].minute
<1>1. /\ TypeOK /\ call[p].pc = "incr" /\ call[p] # Idle /\ ReturnTrue(p) /\ Return(p)
      /\ IncrAndExpire(p) /\ UNCHANGED <<minute, second, failedOpen>>
      /\ minute \in Minutes /\ Minutes \subseteq Nat
  BY DEF IInv, TxPipelined, ReturnTrue, Idle, TypeOK, Minutes
<1>2. CallsRecent' /\ cm <= minute /\ cm \in Minutes
  BY <1>1, ReturnRecent, BusyCall
<1>3. NowBounded' /\ OldBounded'
  BY <1>1, BoundsTraded DEF IInv
<1>4. ASSUME NEW m \in Minutes
      PROVE  /\ allowed'[m] = allowed[m] + (IF m = cm THEN 1 ELSE 0)
             /\ allowed[m] \in Nat /\ failedOpen[m] \in Nat
             /\ failedOpen'[m] = failedOpen[m]
  BY <1>1, CountedType DEF ReturnTrue, TypeOK
<1>5. FutureEmpty'
  <2> SUFFICES ASSUME NEW m \in Minutes, m > minute
               PROVE  allowed'[m] = 0 /\ failedOpen'[m] = 0
    BY <1>1 DEF FutureEmpty
  <2>1. m # cm /\ allowed[m] = 0 /\ failedOpen[m] = 0
    BY <1>1, <1>2 DEF IInv, FutureEmpty
  <2> QED
    BY <1>4, <2>1
<1>6. FewerFailed'
  BY <1>4 DEF IInv, FewerFailed
<1>7. KeyLives'
  <2>1. /\ Counted(minute)' = Counted(minute) + (IF cm = minute THEN 1 ELSE 0)
        /\ Counted(minute) \in Int
    BY <1>1, <1>4 DEF Counted
  <2>2. /\ Counted(minute)' <= Counted(minute) + (IF cm = minute THEN 1 ELSE 0)
        /\ Counted(minute)' \in Int
    BY <2>1
  <2> QED
    BY <1>1, <2>2, KeyKept DEF IInv
<1> QED
  BY <1>2, <1>3, <1>5, <1>6, <1>7 DEF IInv

LEMMA StepInv == IInv /\ [Next]_vars => IInv'
<1> SUFFICES ASSUME IInv, [Next]_vars PROVE IInv'
  OBVIOUS
<1>1. TypeOK'
  BY StepType DEF IInv
<1>2. CASE Tick
  BY <1>1, <1>2, TickInv
<1>3. ASSUME NEW p \in Processes, Allow(p) PROVE IInv'
  BY <1>1, <1>3, ReadClockInv, GetInv, GetFailsInv, TxPipelinedInv, TxPipelinedFailsInv
  DEF Allow
<1>4. CASE UNCHANGED vars
  BY <1>4 DEF vars, redisVars, IInv, TypeOK, CallsRecent, FutureEmpty, FewerFailed,
              KeyLives, NowBounded, OldBounded, Counted, Racing, UnderWay, Key
<1> QED
  BY <1>2, <1>3, <1>4 DEF Next

LEMMA InvBounds == IInv => RateBounded
<1> SUFFICES ASSUME IInv, NEW m \in Minutes
             PROVE  allowed[m] <= RpmLimit + 2 * Cardinality(Processes) - 1 + failedOpen[m]
  BY DEF RateBounded
<1>1. /\ TypeOK /\ minute \in Minutes /\ Minutes \subseteq Nat
      /\ allowed[m] \in Nat /\ failedOpen[m] \in Nat
      /\ Cardinality(Processes) \in Nat \ {0}
      /\ Cardinality(Racing(m)) \in Nat /\ Cardinality(UnderWay(m)) \in Nat
  BY CountedType, CallCards DEF IInv, TypeOK, Minutes
<1>2. CASE m > minute
  BY <1>1, <1>2, LimitAssumption DEF IInv, FutureEmpty
<1>3. CASE m = minute
  BY <1>1, <1>3, LimitAssumption DEF IInv, NowBounded, Counted
<1>4. CASE m < minute
  BY <1>1, <1>4, LimitAssumption DEF IInv, OldBounded, Counted
<1> QED
  BY <1>1, <1>2, <1>3, <1>4

\* Any number of processes that share a Redis allow, in any minute, at most RpmLimit
\* calls, two more for each process less one, and those that met a Redis error.
THEOREM RateCorrect == Spec => []RateBounded
<1>1. Spec => []IInv
  BY InitInv, StepInv, PTL DEF Spec
<1> QED
  BY <1>1, InvBounds, PTL

-----------------------------------------------------------------------------
(* Refusals                                                                *)

LEMMA Quotient ==
  ASSUME NEW a \in Nat
  PROVE  /\ a = MinutesPerHour * (a \div MinutesPerHour) + Key(a)
         /\ a \div MinutesPerHour \in Int /\ Key(a) \in Int
  BY ClockAssumption DEF Key

LEMMA NoMultiple ==
  ASSUME NEW q \in Int, NEW r \in Int,
         MinutesPerHour * q - MinutesPerHour * r > 0
  PROVE  MinutesPerHour * q - MinutesPerHour * r >= MinutesPerHour
<1>1. MinutesPerHour * (q - r) = MinutesPerHour * q - MinutesPerHour * r
  BY ClockAssumption
<1>2. q - r >= 1
  BY <1>1, ClockAssumption
<1>3. MinutesPerHour * (q - r) >= MinutesPerHour
  BY <1>2, ClockAssumption
<1> QED
  BY <1>1, <1>3

\* Minutes that share a key are an hour apart.
LEMMA HourApart ==
  ASSUME NEW a \in Nat, NEW b \in Nat, Key(a) = Key(b), a > b
  PROVE  a - b >= MinutesPerHour
<1>1. /\ a \div MinutesPerHour \in Int /\ b \div MinutesPerHour \in Int
      /\ a - b = MinutesPerHour * (a \div MinutesPerHour) - MinutesPerHour * (b \div MinutesPerHour)
  <2>1. /\ a = MinutesPerHour * (a \div MinutesPerHour) + Key(a)
        /\ a \div MinutesPerHour \in Int /\ Key(a) \in Int
    BY Quotient
  <2>2. /\ b = MinutesPerHour * (b \div MinutesPerHour) + Key(b)
        /\ b \div MinutesPerHour \in Int
    BY Quotient
  <2> QED
    BY <2>1, <2>2, ClockAssumption
<1>2. MinutesPerHour * (a \div MinutesPerHour) - MinutesPerHour * (b \div MinutesPerHour) > 0
  BY <1>1
<1> QED
  BY <1>1, <1>2, NoMultiple

\* A count in Redis is of one of the last three minutes: the time to live was set by a
\* call that was less than a minute old, a minute ago at most.
Lives(k, m) ==
    \/ m = minute
    \/ m = minute - 1 /\ second + timeToLive[k] <= 2 * SecondsPerMinute - 2
    \/ m = minute - 2 /\ second + timeToLive[k] <= SecondsPerMinute - 2

KeyCounts(k, m) ==
    /\ Key(m) = k
    /\ count[k] <= allowed[m]
    /\ Lives(k, m)

KeysCount == \A k \in Keys : count[k] > 0 => \E m \in Minutes : KeyCounts(k, m)

\* A key that is there counts the calls of the minute of any call that looks at it.
LEMMA SameMinute ==
  ASSUME TypeOK, CallsRecent, NEW p \in Processes, call[p] # Idle,
         NEW m \in Minutes, KeyCounts(deviceKey(p), m)
  PROVE  m = call[p].minute
<1> DEFINE cm == call[p].minute
<1>1. /\ m \in Nat /\ cm \in Nat /\ minute \in Nat /\ Key(m) = Key(cm)
  BY BusyCall DEF KeyCounts, TypeOK, Minutes
<1>2. m \in minute - 2 .. minute /\ cm \in minute - 1 .. minute
  BY <1>1 DEF KeyCounts, Lives, CallsRecent
<1>3. MinutesPerHour >= 3 /\ MinutesPerHour \in Nat
  BY ClockAssumption
<1>4. ~(m > cm) /\ ~(cm > m)
  BY <1>1, <1>2, <1>3, HourApart
<1> QED
  BY <1>1, <1>4

LEMMA TickKeys ==
  ASSUME TypeOK, TypeOK', KeysCount, Tick
  PROVE  KeysCount'
<1> SUFFICES ASSUME NEW k \in Keys, count'[k] > 0
             PROVE  \E m \in Minutes : KeyCounts(k, m)'
  BY DEF KeysCount
<1>1. /\ count[k] > 0 /\ count'[k] = count[k]
      /\ timeToLive[k] \in 2 .. SecondsPerMinute
      /\ timeToLive'[k] = timeToLive[k] - 1
  BY ClockAssumption DEF Tick, TypeOK
<1>2. PICK m \in Minutes : KeyCounts(k, m)
  BY <1>1 DEF KeysCount
<1>3. /\ minute \in Nat /\ m \in Nat /\ second \in 0 .. SecondsPerMinute - 1
      /\ SecondsPerMinute \in Nat
  BY ClockAssumption DEF TypeOK, Minutes
<1>4. \/ second' = second + 1 /\ minute' = minute
      \/ second = SecondsPerMinute - 1 /\ second' = 0 /\ minute' = minute + 1
  BY <1>3, ClockAssumption DEF Tick
<1>5. Lives(k, m)'
  BY <1>1, <1>2, <1>3, <1>4 DEF KeyCounts, Lives
<1>6. Key(m)' = k /\ count'[k] <= allowed'[m]
  BY <1>1, <1>2 DEF KeyCounts, Key, Tick
<1> QED
  BY <1>5, <1>6 DEF KeyCounts

\* The transaction of an allowed call counts the call in its minute.
LEMMA CountKeys ==
  ASSUME TypeOK, CallsRecent, KeysCount, UNCHANGED <<minute, second>>,
         NEW p \in Processes, call[p] # Idle, IncrAndExpire(p), ReturnTrue(p)
  PROVE  KeysCount'
<1> DEFINE key == deviceKey(p)
<1>0. PICK cm \in Minutes : cm = call[p].minute
  BY BusyCall
<1> SUFFICES ASSUME NEW k \in Keys, count'[k] > 0
             PROVE  \E m \in Minutes : KeyCounts(k, m)'
  BY DEF KeysCount
<1>1. /\ key \in Keys /\ key = Key(cm)
      /\ call[p].age \in 0 .. SecondsPerMinute - 1
      /\ count[key] \in Nat
      /\ \A m \in Minutes : allowed[m] \in Nat
  BY <1>0, BusyCall DEF TypeOK
<1>2. \A m \in Minutes : allowed'[m] = allowed[m] + (IF m = cm THEN 1 ELSE 0)
  BY <1>0, <1>1 DEF ReturnTrue, TypeOK
<1>3. CASE k # key
  <2>1. /\ count'[k] = count[k] /\ timeToLive'[k] = timeToLive[k]
        /\ count[k] \in Nat
    BY <1>3, <1>1 DEF IncrAndExpire, TypeOK
  <2>2. PICK m \in Minutes : KeyCounts(k, m)
    BY <2>1 DEF KeysCount
  <2>3. count'[k] <= allowed'[m]
    BY <1>1, <1>2, <2>1, <2>2 DEF KeyCounts
  <2>4. Lives(k, m)' /\ Key(m)' = k
    BY <2>1, <2>2 DEF KeyCounts, Lives, Key
  <2> QED
    BY <2>3, <2>4 DEF KeyCounts
<1>4. CASE k = key
  <2>1. count'[k] = count[k] + 1 /\ timeToLive'[k] = SecondsPerMinute
    BY <1>4, <1>1 DEF IncrAndExpire, TypeOK
  <2>2. count[k] <= allowed[cm]
    <3>1. CASE count[k] = 0
      BY <3>1, <1>1
    <3>2. CASE count[k] > 0
      <4>1. PICK m \in Minutes : KeyCounts(k, m)
        BY <3>2 DEF KeysCount
      <4>2. m = cm
        BY <1>0, <4>1, <1>4, SameMinute
      <4> QED
        BY <4>1, <4>2 DEF KeyCounts
    <3> QED
      BY <3>1, <3>2, <1>1, <1>4
  <2>3. count'[k] <= allowed'[cm]
    BY <1>1, <1>2, <1>4, <2>1, <2>2
  <2>4. Lives(k, cm)'
    <3>1. \/ cm = minute
          \/ cm = minute - 1 /\ call[p].age > second
      BY <1>0 DEF CallsRecent
    <3>2. second \in Nat /\ SecondsPerMinute \in Nat
      BY ClockAssumption DEF TypeOK
    <3> QED
      BY <3>1, <3>2, <2>1, <1>1 DEF Lives
  <2>5. Key(cm)' = k
    BY <1>1, <1>4 DEF Key
  <2> QED
    BY <1>1, <2>3, <2>4, <2>5 DEF KeyCounts
<1> QED
  BY <1>3, <1>4

\* More allowed calls take nothing from what the keys say.
LEMMA StayKeys ==
  ASSUME TypeOK, KeysCount, UNCHANGED <<minute, second, redisVars>>,
         \A m \in Minutes : allowed'[m] \in Nat /\ allowed'[m] >= allowed[m]
  PROVE  KeysCount'
<1> SUFFICES ASSUME NEW k \in Keys, count[k] > 0
             PROVE  \E m \in Minutes : KeyCounts(k, m)'
  BY DEF KeysCount, redisVars
<1>1. PICK m \in Minutes : KeyCounts(k, m)
  BY DEF KeysCount
<1>2. allowed[m] \in Nat /\ count[k] \in Nat
  BY DEF TypeOK
<1>3. count'[k] <= allowed'[m]
  BY <1>1, <1>2 DEF KeyCounts, redisVars
<1>4. Lives(k, m)' /\ Key(m)' = k
  BY <1>1 DEF KeyCounts, Lives, Key, redisVars
<1> QED
  BY <1>3, <1>4 DEF KeyCounts

LEMMA StepKeys == IInv /\ KeysCount /\ [Next]_vars => KeysCount'
<1> SUFFICES ASSUME IInv, KeysCount, [Next]_vars PROVE KeysCount'
  OBVIOUS
<1> USE DEF IInv
<1>1. TypeOK'
  BY StepType
<1>2. CASE Tick
  BY <1>1, <1>2, TickKeys
<1>3. \A m \in Minutes : allowed[m] \in Nat
  BY DEF TypeOK
<1>4. ASSUME NEW p \in Processes, call[p] # Idle, ReturnTrue(p)
      PROVE  \A m \in Minutes : allowed'[m] \in Nat /\ allowed'[m] >= allowed[m]
  BY <1>4, <1>3, BusyCall DEF ReturnTrue, TypeOK
<1>5. ASSUME NEW p \in Processes, Allow(p) PROVE KeysCount'
  <2>1. CASE ReadClock(p) \/ Get(p)
    BY <2>1, <1>3, StayKeys DEF ReadClock, Get
  <2>2. CASE GetFails(p)
    BY <2>2, <1>4, StayKeys DEF GetFails, FailOpen, Idle
  <2>3. CASE TxPipelined(p)
    BY <2>3, CountKeys DEF TxPipelined, Idle
  <2>4. CASE TxPipelinedFails(p) /\ IncrAndExpire(p)
    BY <2>4, CountKeys DEF TxPipelinedFails, FailOpen, Idle
  <2>5. CASE TxPipelinedFails(p) /\ UNCHANGED redisVars
    BY <2>5, <1>4, StayKeys DEF TxPipelinedFails, FailOpen, Idle
  <2> QED
    BY <1>5, <2>1, <2>2, <2>3, <2>4, <2>5 DEF Allow, TxPipelinedFails
<1>6. CASE UNCHANGED vars
  BY <1>6, <1>3, StayKeys DEF vars
<1> QED
  BY <1>2, <1>5, <1>6 DEF Next

Refused(p) == call[p] # Idle /\ call'[p] = Idle /\ UNCHANGED allowed

\* Only Get refuses, and the count that it saw is of its own minute.
LEMMA StepRefused ==
  ASSUME IInv, KeysCount, [Next]_vars, NEW p \in Processes, Refused(p)
  PROVE  allowed[call[p].minute] >= RpmLimit
<1> DEFINE cm == call[p].minute
           key == deviceKey(p)
<1>1. /\ cm \in Minutes /\ key \in Keys /\ TypeOK /\ CallsRecent
      /\ allowed[cm] \in Nat /\ count[key] \in Nat
  BY BusyCall DEF Refused, IInv, TypeOK
<1>2. ~ReturnTrue(p)
  BY <1>1 DEF ReturnTrue, Refused, TypeOK
<1>3. ~Tick /\ ~UNCHANGED vars
  <2>1. call[p] \in [pc : {"get", "incr"}, minute : Minutes, age : 0 .. SecondsPerMinute - 1]
    BY <1>1 DEF TypeOK, Refused
  <2>2. Tick => call'[p] = [call[p] EXCEPT !.age = @ + 1]
    BY DEF Tick, Refused
  <2>3. ~Tick
    BY <2>1, <2>2 DEF Refused, Idle
  <2> QED
    BY <2>3 DEF vars, Refused
<1>4. ASSUME NEW q \in Processes, q # p, Allow(q) PROVE FALSE
  <2>1. call'[p] = call[p]
    BY <1>1, <1>4 DEF Allow, ReadClock, Get, GetFails, TxPipelined, TxPipelinedFails,
                      FailOpen, ReturnTrue, Return, TypeOK
  <2> QED
    BY <2>1 DEF Refused
<1>5. Get(p) \/ ReadClock(p)
  BY <1>2, <1>3, <1>4 DEF Next, Allow, GetFails, TxPipelined, TxPipelinedFails, FailOpen
<1>6. Get(p)
  BY <1>5 DEF ReadClock, Refused
<1>7. count[key] >= RpmLimit
  <2> SUFFICES ASSUME ~(count[key] >= RpmLimit) PROVE FALSE
    OBVIOUS
  <2>1. call' = [call EXCEPT ![p].pc = "incr"] /\ call[p].pc = "get"
    BY <1>6 DEF Get
  <2>2. call'[p] = [call[p] EXCEPT !.pc = "incr"]
    BY <2>1, <1>1 DEF TypeOK
  <2>3. call[p] \in [pc : {"get", "incr"}, minute : Minutes, age : 0 .. SecondsPerMinute - 1]
    BY <1>1 DEF TypeOK, Refused
  <2> QED
    BY <2>2, <2>3 DEF Refused, Idle
<1>8. CASE count[key] = 0
  BY <1>7, <1>8, <1>1, LimitAssumption
<1>9. CASE count[key] > 0
  <2>1. PICK m \in Minutes : KeyCounts(key, m)
    BY <1>1, <1>9 DEF KeysCount
  <2>2. m = cm
    BY <1>1, <2>1, SameMinute DEF Refused
  <2> QED
    BY <2>1, <2>2, <1>1, <1>7, LimitAssumption DEF KeyCounts
<1> QED
  BY <1>1, <1>8, <1>9

\* Allow refuses a call only if RpmLimit calls of its minute were allowed: no counter of
\* another minute or hour is met, and none counts a call twice.
THEOREM RefusedCorrect == Spec => RefusedOverLimit
<1>1. Spec => []IInv
  BY InitInv, StepInv, PTL DEF Spec
<1>2. Init => KeysCount
  BY DEF Init, KeysCount
<1>3. Spec => []KeysCount
  BY <1>1, <1>2, StepKeys, PTL DEF Spec
<1>4. IInv /\ KeysCount /\ [Next]_vars
        => [\A p \in Processes :
              call[p] # Idle /\ call'[p] = Idle /\ UNCHANGED allowed
                => allowed[call[p].minute] >= RpmLimit]_vars
  BY StepRefused DEF Refused
<1> QED
  BY <1>1, <1>3, <1>4, PTL DEF Spec, RefusedOverLimit

-----------------------------------------------------------------------------
(* HandleMessages                                                          *)

\* The steps of HandleMessages that leave the limiter alone.
LeavesLimiter(p) ==
    \/ TakeMessage(p)
    \/ ParseMessage(p)
    \/ CheckExpiry(p)
    \/ SkipDedup(p)
    \/ IsUnique(p)
    \/ BuildNotification(p)
    \/ SendMessage(p)

LEMMA LimiterStays == ASSUME NEW p, LeavesLimiter(p) PROVE UNCHANGED vars
  BY DEF LeavesLimiter, TakeMessage, ParseMessage, CheckExpiry, SkipDedup, IsUnique,
         BuildNotification, SendMessage

LEMMA LimiterStep == [AdmissionNext]_allVars => [Next]_vars
<1> SUFFICES ASSUME [AdmissionNext]_allVars PROVE [Next]_vars
  OBVIOUS
<1>1. CASE Second
  BY <1>1 DEF Second, Next
<1>2. ASSUME NEW p \in Processes, LeavesLimiter(p) PROVE UNCHANGED vars
  BY <1>2, LimiterStays
<1>3. ASSUME NEW p \in Processes, RateLimit(p) PROVE Next
  BY <1>3 DEF RateLimit, Next
<1>4. CASE Exhausted \/ UNCHANGED allVars
  BY <1>4 DEF Exhausted, allVars
<1> QED
  BY <1>1, <1>2, <1>3, <1>4 DEF AdmissionNext, HandleMessages, LeavesLimiter

\* The calls of Allow that HandleMessages makes are those that RateLimiter has, so
\* that what is proved of the limiter holds of it in either handler.
THEOREM LimiterCorrect == AdmissionSpec => Spec
<1>1. AdmissionInit => Init
  BY DEF AdmissionInit
<1> QED
  BY <1>1, LimiterStep, PTL DEF AdmissionSpec, Spec

HandlingTypeOK ==
    /\ platform \in {"apns", "gcm"}
    /\ sampled \in BOOLEAN
    /\ handling \in [Processes -> {"idle"} \cup Steps]
    /\ \A p \in Processes : call[p] # Idle => handling[p] = "allow"
    /\ outcomes \in [Outcomes -> Nat]
    /\ outcomes["taken"] <= MaxMessages

\* The key of the content has the time left that it was not yet unique for.
DedupClock ==
    /\ sinceUnique \in 0 .. LongAgo
    /\ dedupTtl = DedupTtl - sinceUnique

LEMMA InitHandling == AdmissionInit => HandlingTypeOK /\ DedupClock
  BY AdmissionAssumption DEF AdmissionInit, Init, HandlingTypeOK, DedupClock, LongAgo, Outcomes

LEMMA GotoType ==
  ASSUME HandlingTypeOK, NEW p \in Processes, NEW step \in {"idle"} \cup Steps, Goto(p, step)
  PROVE  /\ handling' \in [Processes -> {"idle"} \cup Steps]
         /\ handling'[p] = step
         /\ \A q \in Processes \ {p} : handling'[q] = handling[q]
  BY DEF HandlingTypeOK, Goto

LEMMA OutcomesType ==
  ASSUME HandlingTypeOK, NEW o \in Outcomes, outcomes' = [outcomes EXCEPT ![o] = @ + 1],
         o = "taken" => outcomes["taken"] < MaxMessages
  PROVE  /\ outcomes' \in [Outcomes -> Nat]
         /\ outcomes'["taken"] <= MaxMessages
         /\ \A x \in Outcomes : outcomes'[x] = outcomes[x] + (IF x = o THEN 1 ELSE 0)
<1>1. "taken" \in Outcomes /\ \A x \in Outcomes : outcomes[x] \in Nat
  BY DEF HandlingTypeOK, Outcomes
<1>2. \A x \in Outcomes : outcomes'[x] = outcomes[x] + (IF x = o THEN 1 ELSE 0)
  BY <1>1 DEF HandlingTypeOK
<1>3. outcomes' \in [Outcomes -> Nat]
  BY <1>1 DEF HandlingTypeOK
<1>4. outcomes'["taken"] <= MaxMessages
  BY <1>1, <1>2, AdmissionAssumption DEF HandlingTypeOK
<1> QED
  BY <1>2, <1>3, <1>4

\* How a step of HandleMessages moves on, or ends with a message.
Moves(p, step) == Goto(p, step) /\ UNCHANGED <<outcomes, allowed>>
Ends(p, o) == Finish(p, o) /\ UNCHANGED allowed

Early == {"parse", "expiry", "dedup", "allow"}

\* Where a step can lead from where it is, on either platform.
LEMMA StepEffects ==
  ASSUME NEW p \in Processes, LeavesLimiter(p), platform \in {"apns", "gcm"}
  PROVE  /\ handling[p] # "allow"
         /\ UNCHANGED <<platform, sampled, call>>
         /\ \/ TakeMessage(p) /\ UNCHANGED allowed
            \/ handling[p] \in Early /\ \E step \in Early \ {"expiry"} : Moves(p, step)
            \/ handling[p] \in Early /\ platform = "gcm" /\ Moves(p, "expiry")
            \/ handling[p] \in Early /\ Ends(p, "invalid")
            \/ handling[p] = "expiry" /\ Ends(p, "expired")
            \/ handling[p] = "build" /\ Moves(p, "send")
            \/ handling[p] = "build" /\ Ends(p, "expiredLate")
            \/ handling[p] = "send" /\ Ends(p, "sent")
<1> USE DEF Moves, Ends, Early, vars
<1>1. CASE TakeMessage(p)
  BY <1>1 DEF TakeMessage
<1>2. CASE ParseMessage(p)
  BY <1>2 DEF ParseMessage
<1>3. CASE CheckExpiry(p)
  BY <1>3 DEF CheckExpiry
<1>4. CASE SkipDedup(p) \/ IsUnique(p)
  BY <1>4 DEF SkipDedup, IsUnique, Deduplicated
<1>5. CASE BuildNotification(p)
  BY <1>5 DEF BuildNotification
<1>6. CASE SendMessage(p)
  BY <1>6 DEF SendMessage
<1> QED
  BY <1>1, <1>2, <1>3, <1>4, <1>5, <1>6 DEF LeavesLimiter

\* A call of Allow goes on, returns true and counts itself, or returns false.
LEMMA AllowEffects ==
  ASSUME TypeOK, NEW p \in Processes, Allow(p)
  PROVE  /\ \A q \in Processes \ {p} : call'[q] = call[q]
         /\ \/ call'[p] # Idle /\ UNCHANGED allowed
            \/ call'[p] = Idle /\ UNCHANGED allowed
            \/ call'[p] = Idle /\ call[p] # Idle /\ ReturnTrue(p) /\ allowed' # allowed
<1>1. \A q \in Processes \ {p} : call'[q] = call[q]
  BY DEF Allow, ReadClock, Get, GetFails, TxPipelined, TxPipelinedFails, FailOpen, ReturnTrue,
         Return, TypeOK
<1>2. CASE ReadClock(p) \/ Get(p)
  BY <1>1, <1>2 DEF ReadClock, Get
<1>3. CASE ReturnTrue(p) /\ call[p].pc \in {"get", "incr"}
  <2>1. call[p] # Idle /\ call'[p] = Idle
    BY <1>3 DEF ReturnTrue, Return, Idle, TypeOK
  <2>2. /\ call[p].minute \in Minutes
        /\ allowed[call[p].minute] \in Nat
        /\ allowed'[call[p].minute] = allowed[call[p].minute] + 1
    BY <1>3, <2>1, BusyCall DEF ReturnTrue, TypeOK
  <2> QED
    BY <1>1, <1>3, <2>1, <2>2
<1> QED
  BY <1>2, <1>3 DEF Allow, GetFails, TxPipelined, TxPipelinedFails, FailOpen

\* RateLimit goes on, refuses the message, or lets it pass.
LEMMA RateLimitEffects ==
  ASSUME TypeOK, platform \in {"apns", "gcm"}, NEW p \in Processes, RateLimit(p)
  PROVE  /\ handling[p] = "allow"
         /\ UNCHANGED <<platform, sampled>>
         /\ \A q \in Processes \ {p} : call'[q] = call[q]
         /\ \/ call'[p] # Idle /\ UNCHANGED <<handling, outcomes, allowed>>
            \/ call'[p] = Idle /\ Ends(p, "refused")
            \/ /\ call'[p] = Idle /\ call[p] # Idle /\ ReturnTrue(p)
               /\ Goto(p, IF platform = "apns" THEN "build" ELSE "send")
               /\ UNCHANGED outcomes
  BY AllowEffects DEF RateLimit, AfterAllow, Ends

LEMMA StepHandling ==
  ASSUME TypeOK, HandlingTypeOK, [AdmissionNext]_allVars
  PROVE  HandlingTypeOK'
<1>0. platform \in {"apns", "gcm"}
  BY DEF HandlingTypeOK
<1>1. ASSUME NEW p \in Processes, NEW step \in {"idle"} \cup Steps, Goto(p, step),
             UNCHANGED <<platform, sampled>>,
             \A q \in Processes \ {p} : call'[q] = call[q], call'[p] = Idle,
             \/ UNCHANGED outcomes
             \/ \E o \in Outcomes : /\ o = "taken" => outcomes["taken"] < MaxMessages
                                    /\ outcomes' = [outcomes EXCEPT ![o] = @ + 1]
      PROVE  HandlingTypeOK'
  <2>1. /\ handling' \in [Processes -> {"idle"} \cup Steps]
        /\ \A q \in Processes \ {p} : handling'[q] = handling[q]
    BY <1>1, GotoType
  <2>2. outcomes' \in [Outcomes -> Nat] /\ outcomes'["taken"] <= MaxMessages
    BY <1>1, OutcomesType DEF HandlingTypeOK
  <2>3. \A q \in Processes : call'[q] # Idle => handling'[q] = "allow"
    BY <1>1, <2>1 DEF HandlingTypeOK
  <2> QED
    BY <1>1, <2>1, <2>2, <2>3 DEF HandlingTypeOK
<1>2. CASE Second
  <2>1. \A p \in Processes : call'[p] # Idle => call[p] # Idle
    BY <1>2 DEF Second, Tick
  <2> QED
    BY <1>2, <2>1 DEF Second, HandlingTypeOK
<1>3. ASSUME NEW p \in Processes, LeavesLimiter(p) PROVE HandlingTypeOK'
  <2>1. /\ UNCHANGED <<platform, sampled, call>> /\ call[p] = Idle
    BY <1>0, <1>3, StepEffects DEF HandlingTypeOK
  <2>2. CASE TakeMessage(p)
    BY <1>1, <2>1, <2>2 DEF TakeMessage, Steps, Outcomes
  <2>3. CASE \E step \in Steps : Moves(p, step)
    BY <1>1, <2>1, <2>3 DEF Moves
  <2>4. CASE \E o \in Outcomes \ {"taken"} : Ends(p, o)
    BY <1>1, <2>1, <2>4 DEF Ends, Finish
  <2> QED
    BY <1>0, <1>3, <2>2, <2>3, <2>4, StepEffects DEF Early, Steps, Outcomes
<1>4. ASSUME NEW p \in Processes, RateLimit(p) PROVE HandlingTypeOK'
  <2>1. CASE call'[p] # Idle /\ UNCHANGED <<handling, outcomes, allowed>>
    BY <1>0, <1>4, <2>1, RateLimitEffects DEF HandlingTypeOK
  <2>2. CASE call'[p] = Idle /\ Ends(p, "refused")
    BY <1>0, <1>1, <1>4, <2>2, RateLimitEffects DEF Ends, Finish, Outcomes
  <2>3. CASE /\ call'[p] = Idle
             /\ Goto(p, IF platform = "apns" THEN "build" ELSE "send")
             /\ UNCHANGED outcomes
    BY <1>0, <1>1, <1>4, <2>3, RateLimitEffects DEF Steps
  <2> QED
    BY <1>0, <1>4, <2>1, <2>2, <2>3, RateLimitEffects
<1>5. CASE Exhausted \/ UNCHANGED allVars
  BY <1>5 DEF Exhausted, allVars, vars, admissionVars, HandlingTypeOK
<1> QED
  BY <1>2, <1>3, <1>4, <1>5 DEF AdmissionNext, HandleMessages, LeavesLimiter

LEMMA StepDedup ==
  ASSUME DedupClock, [AdmissionNext]_allVars
  PROVE  /\ DedupClock'
         /\ sinceUnique' < sinceUnique => sinceUnique = LongAgo
         /\ \A p \in Processes : IsUnique(p) /\ sinceUnique = LongAgo => sinceUnique' = 0
<1> USE AdmissionAssumption DEF DedupClock, LongAgo
<1>1. CASE Second
  BY <1>1 DEF Second, IsUnique, SetIfAbsent
<1>2. CASE SetIfAbsent
  BY <1>2 DEF SetIfAbsent
<1>3. CASE UNCHANGED <<dedupTtl, sinceUnique>> /\ \A p \in Processes : ~IsUnique(p)
  BY <1>3
<1>4. UNCHANGED <<dedupTtl, sinceUnique>> \/ SetIfAbsent \/ Second
  BY DEF AdmissionNext, HandleMessages, TakeMessage, ParseMessage, CheckExpiry, SkipDedup,
         IsUnique, RateLimit, BuildNotification, SendMessage, Exhausted, allVars, admissionVars
<1>5. ASSUME NEW p \in Processes, IsUnique(p) PROVE SetIfAbsent
  BY <1>5 DEF IsUnique
<1> QED
  BY <1>1, <1>2, <1>3, <1>4, <1>5

\* Of the messages of one content that reach Redis within the time to live of its key, one
\* is unique, however many processes ask at once: SET NX neither prolongs a key that is
\* there nor leaves one behind.
THEOREM UniqueCorrect == AdmissionSpec => UniqueOncePerTtl
<1>1. AdmissionSpec => []DedupClock
  BY InitHandling, StepDedup, PTL DEF AdmissionSpec
<1>2. DedupClock /\ [AdmissionNext]_allVars
        => [/\ sinceUnique' < sinceUnique => sinceUnique = LongAgo
            /\ \A p \in Processes :
                 IsUnique(p) /\ sinceUnique = LongAgo => sinceUnique' = 0]_allVars
  BY StepDedup
<1> QED
  BY <1>1, <1>2, PTL DEF AdmissionSpec, UniqueOncePerTtl

-----------------------------------------------------------------------------
(* What became of every message, and what the quota was spent on           *)

At(step) == {p \in Processes : handling[p] = step}
Busy == {p \in Processes : handling[p] # "idle"}

\* A set of processes in which only p may have come or gone.
LEMMA OneMoved ==
  ASSUME NEW S \in SUBSET Processes, NEW T \in SUBSET Processes, NEW p \in Processes,
         \A q \in Processes \ {p} : q \in S <=> q \in T
  PROVE  /\ Cardinality(S) \in Nat /\ Cardinality(T) \in Nat
         /\ Cardinality(T) = Cardinality(S) + (IF p \in T THEN 1 ELSE 0)
                                            - (IF p \in S THEN 1 ELSE 0)
<1>1. IsFiniteSet(S) /\ IsFiniteSet(T)
  BY FS_Subset, ProcessesAssumption
<1>2. Cardinality(S) \in Nat /\ Cardinality(T) \in Nat
  BY <1>1, FS_CardinalityType
<1>3. CASE p \in S /\ p \notin T
  <2>1. T = S \ {p}
    BY <1>3
  <2> QED
    BY <2>1, <1>1, <1>2, <1>3, FS_RemoveElement
<1>4. CASE p \notin S /\ p \in T
  <2>1. T = S \cup {p}
    BY <1>4
  <2> QED
    BY <2>1, <1>1, <1>2, <1>4, FS_AddElement
<1>5. CASE p \in S <=> p \in T
  <2>1. T = S
    BY <1>5
  <2> QED
    BY <2>1, <1>2
<1> QED
  BY <1>2, <1>3, <1>4, <1>5

\* The counts of the processes at a step, and of those that are busy with a message.
LEMMA GotoCounts ==
  ASSUME HandlingTypeOK, NEW p \in Processes, NEW step \in {"idle"} \cup Steps, Goto(p, step)
  PROVE  /\ \A t \in Steps :
              /\ InProgress(t) \in Nat
              /\ InProgress(t)' = InProgress(t) + (IF step = t THEN 1 ELSE 0)
                                                - (IF handling[p] = t THEN 1 ELSE 0)
         /\ Cardinality(Busy) \in Nat
         /\ Cardinality(Busy') = Cardinality(Busy) + (IF step = "idle" THEN 0 ELSE 1)
                                                   - (IF handling[p] = "idle" THEN 0 ELSE 1)
<1>1. /\ handling'[p] = step
      /\ \A q \in Processes \ {p} : handling'[q] = handling[q]
  BY GotoType
<1>2. ASSUME NEW t \in Steps
      PROVE  /\ InProgress(t) \in Nat
             /\ InProgress(t)' = InProgress(t) + (IF step = t THEN 1 ELSE 0)
                                               - (IF handling[p] = t THEN 1 ELSE 0)
  <2>1. /\ At(t) \in SUBSET Processes /\ At(t)' \in SUBSET Processes
        /\ \A q \in Processes \ {p} : q \in At(t) <=> q \in At(t)'
        /\ p \in At(t) <=> handling[p] = t
        /\ p \in At(t)' <=> step = t
    BY <1>1 DEF At
  <2>2. /\ Cardinality(At(t)) \in Nat
        /\ Cardinality(At(t)') = Cardinality(At(t)) + (IF p \in At(t)' THEN 1 ELSE 0)
                                                    - (IF p \in At(t) THEN 1 ELSE 0)
    BY <2>1, OneMoved
  <2>3. InProgress(t) = Cardinality(At(t)) /\ InProgress(t)' = Cardinality(At(t)')
    BY DEF InProgress, At
  <2> QED
    BY <2>1, <2>2, <2>3
<1>3. /\ Busy \in SUBSET Processes /\ Busy' \in SUBSET Processes
      /\ \A q \in Processes \ {p} : q \in Busy <=> q \in Busy'
      /\ p \in Busy <=> handling[p] # "idle"
      /\ p \in Busy' <=> step # "idle"
  BY <1>1 DEF Busy
<1>4. /\ Cardinality(Busy) \in Nat
      /\ Cardinality(Busy') = Cardinality(Busy) + (IF p \in Busy' THEN 1 ELSE 0)
                                                - (IF p \in Busy THEN 1 ELSE 0)
  BY <1>3, OneMoved
<1> QED
  BY <1>2, <1>3, <1>4

\* One call more is allowed.
LEMMA OneMoreAllowed ==
  ASSUME TypeOK, IsFiniteSet(AllowedCalls), NEW p \in Processes, call[p] # Idle, ReturnTrue(p)
  PROVE  /\ IsFiniteSet(AllowedCalls')
         /\ Cardinality(AllowedCalls) \in Nat
         /\ Cardinality(AllowedCalls') = Cardinality(AllowedCalls) + 1
<1> PICK cm \in Minutes : cm = call[p].minute
  BY BusyCall
<1> DEFINE new == <<cm, allowed[cm] + 1>>
<1>1. \A m \in Minutes : /\ allowed[m] \in Nat
                         /\ allowed'[m] = allowed[m] + (IF m = cm THEN 1 ELSE 0)
  BY DEF TypeOK, ReturnTrue
<1>2. \A m \in Minutes :
        {m} \X (1 .. allowed'[m]) = ({m} \X (1 .. allowed[m])) \cup (IF m = cm THEN {new} ELSE {})
  <2> SUFFICES ASSUME NEW m \in Minutes
               PROVE  {m} \X (1 .. allowed'[m]) =
                        ({m} \X (1 .. allowed[m])) \cup (IF m = cm THEN {new} ELSE {})
    OBVIOUS
  <2>1. 1 .. allowed'[m] = (1 .. allowed[m]) \cup (IF m = cm THEN {allowed[m] + 1} ELSE {})
    BY <1>1
  <2> QED
    BY <2>1
<1>3. AllowedCalls' = AllowedCalls \cup {new}
  <2>1. AllowedCalls' = UNION {{m} \X (1 .. allowed'[m]) : m \in Minutes}
    BY DEF AllowedCalls, Minutes
  <2> QED
    BY <1>2, <2>1 DEF AllowedCalls
<1>4. new \notin AllowedCalls
  BY <1>1 DEF AllowedCalls
<1> QED
  BY <1>3, <1>4, FS_AddElement, FS_CardinalityType

OfPlatform ==
    \A p \in Processes :
      /\ platform = "gcm" => handling[p] # "build"
      /\ platform = "apns" => handling[p] # "expiry"

Accounts == QuotaAccounted /\ OfPlatform /\ IsFiniteSet(AllowedCalls)

LEMMA NothingAllowed ==
  ASSUME AdmissionInit
  PROVE  AllowedCalls = {}
<1>1. \A m \in Minutes : 1 .. allowed[m] = {}
  BY DEF AdmissionInit, Init
<1> QED
  BY <1>1 DEF AllowedCalls

LEMMA InitAccounts == AdmissionInit => Accounts
<1> SUFFICES ASSUME AdmissionInit PROVE Accounts
  OBVIOUS
<1>1. /\ AllowedCalls = {} /\ Busy = {}
      /\ At("build") = {} /\ At("send") = {}
  BY NothingAllowed DEF AdmissionInit, Busy, At
<1>2. /\ Cardinality(AllowedCalls) = 0 /\ IsFiniteSet(AllowedCalls)
      /\ Cardinality(Busy) = 0
      /\ InProgress("build") = 0 /\ InProgress("send") = 0
  BY <1>1, FS_EmptySet DEF InProgress, At
<1>3. QuotaAccounted
  BY <1>2 DEF QuotaAccounted, AdmissionInit, Outcomes, Busy
<1> QED
  BY <1>2, <1>3 DEF Accounts, OfPlatform, AdmissionInit

\* A step that moves a message on, or ends with it, keeps the accounts if the step is one
\* of the platform and quota is spent on what it leads to.
LEMMA MoveAccounts ==
  ASSUME HandlingTypeOK, Accounts, NEW p \in Processes, NEW step \in Steps,
         Goto(p, step), UNCHANGED <<outcomes, platform>>, handling[p] # "idle",
         platform = "gcm" => step # "build",
         platform = "apns" => step # "expiry",
         IsFiniteSet(AllowedCalls'),
         Cardinality(AllowedCalls') =
           Cardinality(AllowedCalls) + (IF step \in {"build", "send"} THEN 1 ELSE 0)
                                     - (IF handling[p] \in {"build", "send"} THEN 1 ELSE 0)
  PROVE  Accounts'
<1>1. /\ "build" \in Steps /\ "send" \in Steps /\ step # "idle" /\ "idle" \notin Steps
      /\ handling[p] \in Steps
      /\ \A o \in Outcomes : outcomes[o] \in Nat /\ outcomes'[o] = outcomes[o]
  BY DEF Steps, HandlingTypeOK
<1>2. /\ InProgress("build") \in Nat /\ InProgress("send") \in Nat
      /\ InProgress("build")' = InProgress("build") + (IF step = "build" THEN 1 ELSE 0)
                                                    - (IF handling[p] = "build" THEN 1 ELSE 0)
      /\ InProgress("send")' = InProgress("send") + (IF step = "send" THEN 1 ELSE 0)
                                                  - (IF handling[p] = "send" THEN 1 ELSE 0)
      /\ Cardinality(Busy') = Cardinality(Busy)
  <2>1. /\ \A t \in Steps :
             /\ InProgress(t) \in Nat
             /\ InProgress(t)' = InProgress(t) + (IF step = t THEN 1 ELSE 0)
                                               - (IF handling[p] = t THEN 1 ELSE 0)
        /\ Cardinality(Busy) \in Nat
        /\ Cardinality(Busy') = Cardinality(Busy) + (IF step = "idle" THEN 0 ELSE 1)
                                                  - (IF handling[p] = "idle" THEN 0 ELSE 1)
    BY <1>1, GotoCounts
  <2>2. Cardinality(Busy') = Cardinality(Busy)
    BY <1>1, <2>1
  <2> QED
    BY <1>1, <2>1, <2>2
<1>3. Cardinality(AllowedCalls) =
        outcomes["sent"] + outcomes["expiredLate"] + InProgress("build") + InProgress("send")
  BY DEF Accounts, QuotaAccounted
<1>4. Cardinality(AllowedCalls') =
        outcomes'["sent"] + outcomes'["expiredLate"] + InProgress("build")' + InProgress("send")'
  BY <1>1, <1>2, <1>3 DEF Outcomes
<1>5. QuotaAccounted'
  BY <1>2, <1>4 DEF Accounts, QuotaAccounted, Busy
<1>6. OfPlatform'
  BY GotoType DEF Accounts, OfPlatform
<1> QED
  BY <1>5, <1>6 DEF Accounts

LEMMA EndAccounts ==
  ASSUME HandlingTypeOK, Accounts, NEW p \in Processes, NEW o \in Outcomes \ {"taken"},
         Ends(p, o), UNCHANGED platform, handling[p] # "idle",
         platform = "gcm" => o # "expiredLate",
         platform = "apns" => o # "expired",
         o \in {"sent", "expiredLate"} <=> handling[p] \in {"build", "send"}
  PROVE  Accounts'
<1>1. /\ Goto(p, "idle") /\ outcomes' = [outcomes EXCEPT ![o] = @ + 1]
      /\ AllowedCalls' = AllowedCalls
  BY DEF Ends, Finish, AllowedCalls, Minutes
<1>2. /\ "build" \in Steps /\ "send" \in Steps /\ "idle" \notin Steps
      /\ \A x \in Outcomes : outcomes[x] \in Nat
      /\ \A x \in Outcomes : outcomes'[x] = outcomes[x] + (IF x = o THEN 1 ELSE 0)
  BY <1>1, OutcomesType DEF Steps, HandlingTypeOK
<1>3. /\ InProgress("build") \in Nat /\ InProgress("send") \in Nat
      /\ InProgress("build")' = InProgress("build") - (IF handling[p] = "build" THEN 1 ELSE 0)
      /\ InProgress("send")' = InProgress("send") - (IF handling[p] = "send" THEN 1 ELSE 0)
      /\ Cardinality(Busy') = Cardinality(Busy) - 1
      /\ Cardinality(Busy) \in Nat
  BY <1>1, <1>2, GotoCounts
<1>4. /\ Cardinality(AllowedCalls) =
           outcomes["sent"] + outcomes["expiredLate"] + InProgress("build") + InProgress("send")
      /\ outcomes["taken"] =
           outcomes["invalid"] + outcomes["expired"] + outcomes["refused"]
             + outcomes["expiredLate"] + outcomes["sent"] + Cardinality(Busy)
  BY DEF Accounts, QuotaAccounted, Busy
<1>5. Cardinality(AllowedCalls) =
        outcomes'["sent"] + outcomes'["expiredLate"] + InProgress("build")' + InProgress("send")'
  BY <1>2, <1>3, <1>4 DEF Outcomes
<1>6. outcomes'["taken"] =
        outcomes'["invalid"] + outcomes'["expired"] + outcomes'["refused"]
          + outcomes'["expiredLate"] + outcomes'["sent"] + Cardinality(Busy')
  <2>1. /\ outcomes["taken"] \in Nat
        /\ outcomes["invalid"] \in Nat
        /\ outcomes["expired"] \in Nat
        /\ outcomes["refused"] \in Nat
        /\ outcomes["expiredLate"] \in Nat
        /\ outcomes["sent"] \in Nat
        /\ outcomes'["taken"] = outcomes["taken"] + (IF "taken" = o THEN 1 ELSE 0)
        /\ outcomes'["invalid"] = outcomes["invalid"] + (IF "invalid" = o THEN 1 ELSE 0)
        /\ outcomes'["expired"] = outcomes["expired"] + (IF "expired" = o THEN 1 ELSE 0)
        /\ outcomes'["refused"] = outcomes["refused"] + (IF "refused" = o THEN 1 ELSE 0)
        /\ outcomes'["expiredLate"] = outcomes["expiredLate"] + (IF "expiredLate" = o THEN 1 ELSE 0)
        /\ outcomes'["sent"] = outcomes["sent"] + (IF "sent" = o THEN 1 ELSE 0)
    BY <1>2 DEF Outcomes
  <2>2. o \in {"invalid", "expired", "refused", "expiredLate", "sent"}
    BY DEF Outcomes
  <2> QED
    BY <1>3, <1>4, <2>1, <2>2
<1>7. /\ platform' = "gcm" => outcomes'["expiredLate"] = 0
      /\ platform' = "apns" => outcomes'["expired"] = 0
  BY <1>2 DEF Accounts, QuotaAccounted, Outcomes
<1>8. QuotaAccounted'
  BY <1>1, <1>5, <1>6, <1>7 DEF QuotaAccounted, Busy
<1>9. OfPlatform'
  BY <1>1, GotoType DEF Accounts, OfPlatform
<1> QED
  BY <1>1, <1>8, <1>9 DEF Accounts

LEMMA TakeAccounts ==
  ASSUME HandlingTypeOK, Accounts, NEW p \in Processes, TakeMessage(p), UNCHANGED allowed
  PROVE  Accounts'
<1>1. /\ Goto(p, "parse") /\ outcomes' = [outcomes EXCEPT !["taken"] = @ + 1]
      /\ handling[p] = "idle" /\ outcomes["taken"] < MaxMessages /\ UNCHANGED platform
      /\ AllowedCalls' = AllowedCalls
  BY DEF TakeMessage, AllowedCalls, Minutes
<1>2. /\ \A x \in Outcomes : outcomes[x] \in Nat
      /\ \A x \in Outcomes : outcomes'[x] = outcomes[x] + (IF x = "taken" THEN 1 ELSE 0)
  BY <1>1, OutcomesType DEF HandlingTypeOK, Outcomes
<1>3. /\ InProgress("build")' = InProgress("build") /\ InProgress("build") \in Nat
      /\ InProgress("send")' = InProgress("send") /\ InProgress("send") \in Nat
      /\ Cardinality(Busy') = Cardinality(Busy) + 1
      /\ Cardinality(Busy) \in Nat
  BY <1>1, GotoCounts DEF Steps
<1>4. outcomes["taken"] =
        outcomes["invalid"] + outcomes["expired"] + outcomes["refused"]
          + outcomes["expiredLate"] + outcomes["sent"] + Cardinality(Busy)
  BY DEF Accounts, QuotaAccounted, Busy
<1>5. outcomes'["taken"] =
        outcomes'["invalid"] + outcomes'["expired"] + outcomes'["refused"]
          + outcomes'["expiredLate"] + outcomes'["sent"] + Cardinality(Busy')
  <2>1. /\ outcomes["taken"] \in Nat
        /\ outcomes["invalid"] \in Nat
        /\ outcomes["expired"] \in Nat
        /\ outcomes["refused"] \in Nat
        /\ outcomes["expiredLate"] \in Nat
        /\ outcomes["sent"] \in Nat
        /\ outcomes'["taken"] = outcomes["taken"] + (IF "taken" = "taken" THEN 1 ELSE 0)
        /\ outcomes'["invalid"] = outcomes["invalid"] + (IF "invalid" = "taken" THEN 1 ELSE 0)
        /\ outcomes'["expired"] = outcomes["expired"] + (IF "expired" = "taken" THEN 1 ELSE 0)
        /\ outcomes'["refused"] = outcomes["refused"] + (IF "refused" = "taken" THEN 1 ELSE 0)
        /\ outcomes'["expiredLate"] = outcomes["expiredLate"] + (IF "expiredLate" = "taken" THEN 1 ELSE 0)
        /\ outcomes'["sent"] = outcomes["sent"] + (IF "sent" = "taken" THEN 1 ELSE 0)
    BY <1>2 DEF Outcomes
  <2> QED
    BY <1>3, <1>4, <2>1
<1>6. QuotaAccounted'
  BY <1>1, <1>2, <1>3, <1>5 DEF Accounts, QuotaAccounted, Busy, Outcomes
<1>7. OfPlatform'
  BY <1>1, GotoType DEF Accounts, OfPlatform, Steps
<1> QED
  BY <1>1, <1>6, <1>7 DEF Accounts

LEMMA StepAccounts ==
  ASSUME TypeOK, HandlingTypeOK, Accounts, [AdmissionNext]_allVars
  PROVE  Accounts'
<1>0. /\ platform \in {"apns", "gcm"}
      /\ "allow" \in Early /\ Early \subseteq Steps /\ "idle" \notin Steps
      /\ {"build", "send"} \subseteq Steps /\ Early \cap {"build", "send"} = {}
      /\ IsFiniteSet(AllowedCalls) /\ Cardinality(AllowedCalls) \in Nat
  BY FS_CardinalityType DEF HandlingTypeOK, Accounts, Early, Steps
<1>1. ASSUME UNCHANGED allowed PROVE AllowedCalls' = AllowedCalls
  BY <1>1 DEF AllowedCalls, Minutes
<1>2. CASE UNCHANGED <<platform, handling, outcomes, allowed>>
  BY <1>1, <1>2 DEF Accounts, QuotaAccounted, OfPlatform, InProgress
<1>3. ASSUME NEW p \in Processes, LeavesLimiter(p) PROVE Accounts'
  <2>1. UNCHANGED platform
    BY <1>0, <1>3, StepEffects
  <2>2. /\ handling[p] = "build" => platform # "gcm"
        /\ handling[p] = "expiry" => platform # "apns"
    BY DEF Accounts, OfPlatform
  <2>3. CASE TakeMessage(p) /\ UNCHANGED allowed
    BY <2>3, TakeAccounts
  <2>4. ASSUME NEW step \in Early, Moves(p, step), handling[p] \in Early,
               step = "expiry" => platform = "gcm"
        PROVE  Accounts'
    <3>1. /\ Goto(p, step) /\ UNCHANGED <<outcomes, platform>>
          /\ AllowedCalls' = AllowedCalls
      BY <2>1, <2>4, <1>1 DEF Moves
    <3>2. /\ platform = "gcm" => step # "build"
          /\ platform = "apns" => step # "expiry"
          /\ step \in Steps /\ handling[p] # "idle"
          /\ step \notin {"build", "send"} /\ handling[p] \notin {"build", "send"}
      BY <1>0, <2>4
    <3> QED
      BY <1>0, <3>1, <3>2, MoveAccounts
  <2>5. CASE handling[p] = "build" /\ Moves(p, "send")
    <3>1. /\ Goto(p, "send") /\ UNCHANGED <<outcomes, platform>>
          /\ AllowedCalls' = AllowedCalls
      BY <2>1, <2>5, <1>1 DEF Moves
    <3> QED
      BY <1>0, <2>5, <3>1, MoveAccounts
  <2>6. ASSUME NEW o \in Outcomes \ {"taken"}, Ends(p, o), handling[p] # "idle",
               o = "expiredLate" => handling[p] = "build",
               o = "expired" => handling[p] = "expiry",
               o \in {"sent", "expiredLate"} <=> handling[p] \in {"build", "send"}
        PROVE  Accounts'
    BY <2>1, <2>2, <2>6, EndAccounts
  <2>7. CASE handling[p] \in Early /\ Ends(p, "invalid")
    BY <1>0, <2>6, <2>7 DEF Outcomes
  <2>8. CASE handling[p] = "expiry" /\ Ends(p, "expired")
    BY <2>6, <2>8 DEF Outcomes
  <2>9. CASE \/ handling[p] = "build" /\ Ends(p, "expiredLate")
             \/ handling[p] = "send" /\ Ends(p, "sent")
    BY <2>6, <2>9 DEF Outcomes
  <2> QED
    BY <1>0, <1>3, <2>3, <2>4, <2>5, <2>7, <2>8, <2>9, StepEffects DEF Early
<1>4. ASSUME NEW p \in Processes, RateLimit(p) PROVE Accounts'
  <2>1. handling[p] = "allow" /\ UNCHANGED platform
    BY <1>0, <1>4, RateLimitEffects
  <2>2. CASE UNCHANGED <<handling, outcomes, allowed>>
    BY <1>2, <2>1, <2>2
  <2>3. CASE Ends(p, "refused")
    BY <2>1, <2>3, EndAccounts DEF Outcomes
  <2>4. CASE /\ call[p] # Idle /\ ReturnTrue(p)
             /\ Goto(p, IF platform = "apns" THEN "build" ELSE "send")
             /\ UNCHANGED outcomes
    <3> DEFINE step == IF platform = "apns" THEN "build" ELSE "send"
    <3>1. /\ IsFiniteSet(AllowedCalls')
          /\ Cardinality(AllowedCalls') = Cardinality(AllowedCalls) + 1
      BY <1>0, <2>4, OneMoreAllowed
    <3>2. /\ Goto(p, step) /\ step \in Steps /\ step \in {"build", "send"}
          /\ platform = "gcm" => step # "build"
          /\ platform = "apns" => step # "expiry"
          /\ handling[p] # "idle" /\ handling[p] \notin {"build", "send"}
      BY <1>0, <2>1, <2>4
    <3>3. Cardinality(AllowedCalls') =
            Cardinality(AllowedCalls) + (IF step \in {"build", "send"} THEN 1 ELSE 0)
                                      - (IF handling[p] \in {"build", "send"} THEN 1 ELSE 0)
      BY <1>0, <3>1, <3>2
    <3> HIDE DEF step
    <3> QED
      BY <2>1, <2>4, <3>1, <3>2, <3>3, MoveAccounts
  <2> QED
    BY <1>0, <1>4, <2>2, <2>3, <2>4, RateLimitEffects
<1>5. CASE Second
  BY <1>2, <1>5 DEF Second, Tick
<1>6. CASE Exhausted \/ UNCHANGED allVars
  BY <1>2, <1>6 DEF Exhausted, allVars, vars, admissionVars
<1> QED
  BY <1>3, <1>4, <1>5, <1>6 DEF AdmissionNext, HandleMessages, LeavesLimiter

LEMMA AdmissionInvariant == AdmissionSpec => [](TypeOK /\ HandlingTypeOK /\ DedupClock /\ Accounts)
<1>1. AdmissionSpec => []TypeOK
  BY LimiterCorrect, TypeCorrect, PTL
<1>2. AdmissionInit => HandlingTypeOK /\ DedupClock /\ Accounts
  BY InitHandling, InitAccounts
<1>3. TypeOK /\ HandlingTypeOK /\ DedupClock /\ Accounts /\ [AdmissionNext]_allVars
        => (HandlingTypeOK /\ DedupClock /\ Accounts)'
  BY StepHandling, StepDedup, StepAccounts
<1> QED
  BY <1>1, <1>2, <1>3, PTL DEF AdmissionSpec

\* Every message of the device has one outcome or is being handled, and every call that
\* Allow has allowed is one of a message that is sent, on its way, or, on APNs only, found to
\* be expired after the call, in any interleaving of any number of processes.
THEOREM QuotaCorrect == AdmissionSpec => []QuotaAccounted
  BY AdmissionInvariant, PTL DEF Accounts

LEMMA TypesFollow ==
  ASSUME TypeOK, HandlingTypeOK, DedupClock, Accounts
  PROVE  AdmissionTypeOK
<1>1. dedupTtl \in 0 .. DedupTtl
  BY AdmissionAssumption DEF DedupClock, LongAgo
<1>2. outcomes \in [Outcomes -> 0 .. MaxMessages]
  <2>1. Cardinality(Busy) \in Nat
    BY FS_Subset, FS_CardinalityType, ProcessesAssumption DEF Busy
  <2>2. /\ outcomes["taken"] =
             outcomes["invalid"] + outcomes["expired"] + outcomes["refused"]
               + outcomes["expiredLate"] + outcomes["sent"] + Cardinality(Busy)
        /\ outcomes["taken"] <= MaxMessages
    BY DEF Accounts, QuotaAccounted, Busy, HandlingTypeOK
  <2>3. /\ outcomes["taken"] \in Nat
        /\ outcomes["invalid"] \in Nat
        /\ outcomes["expired"] \in Nat
        /\ outcomes["refused"] \in Nat
        /\ outcomes["expiredLate"] \in Nat
        /\ outcomes["sent"] \in Nat
    BY DEF HandlingTypeOK, Outcomes
  <2>4. /\ outcomes["invalid"] <= MaxMessages
        /\ outcomes["expired"] <= MaxMessages
        /\ outcomes["refused"] <= MaxMessages
        /\ outcomes["expiredLate"] <= MaxMessages
        /\ outcomes["sent"] <= MaxMessages
    BY <2>1, <2>2, <2>3, AdmissionAssumption
  <2>5. \A o \in Outcomes : outcomes[o] \in 0 .. MaxMessages
    BY <2>2, <2>3, <2>4, AdmissionAssumption DEF Outcomes
  <2> QED
    BY <2>5 DEF HandlingTypeOK
<1> QED
  BY <1>1, <1>2 DEF AdmissionTypeOK, HandlingTypeOK, DedupClock

\* The types and bounds of HandleMessages with its Redis: a process has a call of Allow under
\* way only at that check, and no key of the content outlives its time.
THEOREM AdmissionTypeCorrect == AdmissionSpec => []AdmissionTypeOK
  BY AdmissionInvariant, TypesFollow, PTL
=============================================================================
