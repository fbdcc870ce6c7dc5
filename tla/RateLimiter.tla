---------------------------- MODULE RateLimiter ----------------------------
(***************************************************************************)
(* extensions/rate_limiter.go: Allow, called for each message by the       *)
(* pusher processes of a platform, which share one Redis.  A process calls *)
(* it from its router, so it has one call under way at most.  Two devices  *)
(* have no key in common: the module is about the keys of one device.      *)
(*                                                                         *)
(* Time is counted in seconds, SecondsPerMinute to the minute.  Redis is   *)
(* external: a key has a count and a time to live, and is deleted when the *)
(* time is over.  A transaction is run once at most.                       *)
(***************************************************************************)
EXTENDS Integers, FiniteSets

CONSTANTS
    Processes,
    RpmLimit,
    SecondsPerMinute,  \* 60
    MinutesPerHour,    \* 60
    LastMinute,        \* bound on the clock
    MaxErrors          \* bound on the Redis errors of the calls of one minute

ASSUME ProcessesAssumption == IsFiniteSet(Processes) /\ Processes # {}
ASSUME LimitAssumption == RpmLimit \in Nat
ASSUME ClockAssumption ==
    /\ SecondsPerMinute \in Nat \ {0, 1}
    /\ MinutesPerHour \in Nat \ {0, 1, 2}
    /\ LastMinute \in Nat
    /\ MaxErrors \in Nat

VARIABLES
    minute,      \* counted from the start, not from the hour
    second,
    count,       \* the counters in Redis, 0 for a key that is not there
    timeToLive,  \* 0 for a key that is not there, or never expires
    call,        \* the call of Allow that a process has under way
    allowed,     \* how many calls made in a minute were allowed
    failedOpen   \* how many of them because of a Redis error

redisVars == <<count, timeToLive>>
vars == <<minute, second, redisVars, call, allowed, failedOpen>>

Minutes == 0 .. LastMinute
Keys == 0 .. MinutesPerHour - 1
Idle == [pc |-> "idle", minute |-> 0, age |-> 0]

TypeOK ==
    /\ minute \in Minutes
    /\ second \in 0 .. SecondsPerMinute - 1
    /\ count \in [Keys -> Nat]
    /\ timeToLive \in [Keys -> 0 .. SecondsPerMinute]
    /\ \A k \in Keys : count[k] > 0 <=> timeToLive[k] > 0
    /\ call \in [Processes -> {Idle} \cup
                    [pc : {"get", "incr"}, minute : Minutes, age : 0 .. SecondsPerMinute - 1]]
    /\ allowed \in [Minutes -> Nat]
    /\ failedOpen \in [Minutes -> 0 .. MaxErrors]

Init ==
    /\ minute = 0
    /\ second = 0
    /\ count = [k \in Keys |-> 0]
    /\ timeToLive = [k \in Keys |-> 0]
    /\ call = [p \in Processes |-> Idle]
    /\ allowed = [m \in Minutes |-> 0]
    /\ failedOpen = [m \in Minutes |-> 0]

-----------------------------------------------------------------------------

\* A call is over before a minute has passed: the Redis client has timeouts of a
\* few seconds.
Tick ==
    /\ \A p \in Processes : call[p] # Idle => call[p].age + 1 < SecondsPerMinute
    /\ call' = [p \in Processes |->
                  IF call[p] = Idle THEN Idle ELSE [call[p] EXCEPT !.age = @ + 1]]
    /\ IF second + 1 < SecondsPerMinute
         THEN second' = second + 1 /\ UNCHANGED minute
         ELSE second' = 0 /\ minute < LastMinute /\ minute' = minute + 1
    /\ timeToLive' = [k \in Keys |-> IF timeToLive[k] = 0 THEN 0 ELSE timeToLive[k] - 1]
    /\ count' = [k \in Keys |-> IF timeToLive[k] = 1 THEN 0 ELSE count[k]]
    /\ UNCHANGED <<allowed, failedOpen>>

\* The key names the minute of the hour in which Allow was called.
deviceKey(p) == call[p].minute % MinutesPerHour

ReadClock(p) ==
    /\ call[p] = Idle
    /\ call' = [call EXCEPT ![p] = [pc |-> "get", minute |-> minute, age |-> 0]]
    /\ UNCHANGED <<minute, second, redisVars, allowed, failedOpen>>

Return(p) == call' = [call EXCEPT ![p] = Idle]

ReturnTrue(p) ==
    /\ Return(p)
    /\ allowed' = [allowed EXCEPT ![call[p].minute] = @ + 1]

FailOpen(p) ==
    /\ failedOpen[call[p].minute] < MaxErrors
    /\ failedOpen' = [failedOpen EXCEPT ![call[p].minute] = @ + 1]
    /\ ReturnTrue(p)

\* Mutant of Get: the limit is compared with > instead of >=.
GetOneMore(p) ==
    /\ call[p].pc = "get"
    /\ IF count[deviceKey(p)] > RpmLimit
         THEN Return(p)
         ELSE call' = [call EXCEPT ![p].pc = "incr"]
    /\ UNCHANGED <<minute, second, redisVars, allowed, failedOpen>>

Get(p) ==
    /\ call[p].pc = "get"
    /\ IF count[deviceKey(p)] >= RpmLimit
         THEN Return(p)
         ELSE call' = [call EXCEPT ![p].pc = "incr"]
    /\ UNCHANGED <<minute, second, redisVars, allowed, failedOpen>>

GetFails(p) ==
    /\ call[p].pc = "get"
    /\ FailOpen(p)
    /\ UNCHANGED <<minute, second, redisVars>>

\* Mutant of IncrAndExpire: the key gets no time to live.
IncrOnly(p) ==
    /\ count' = [count EXCEPT ![deviceKey(p)] = @ + 1]
    /\ UNCHANGED timeToLive

\* Mutant of IncrAndExpire: the time to live is short of a minute.
IncrAndExpireEarly(p) ==
    /\ count' = [count EXCEPT ![deviceKey(p)] = @ + 1]
    /\ timeToLive' = [timeToLive EXCEPT ![deviceKey(p)] = SecondsPerMinute - 1]

IncrAndExpire(p) ==
    /\ count' = [count EXCEPT ![deviceKey(p)] = @ + 1]
    /\ timeToLive' = [timeToLive EXCEPT ![deviceKey(p)] = SecondsPerMinute]

TxPipelined(p) ==
    /\ call[p].pc = "incr"
    /\ IncrAndExpire(p)
    /\ ReturnTrue(p)
    /\ UNCHANGED <<minute, second, failedOpen>>

\* The error may come before or after Redis runs the transaction.
TxPipelinedFails(p) ==
    /\ call[p].pc = "incr"
    /\ IncrAndExpire(p) \/ UNCHANGED redisVars
    /\ FailOpen(p)
    /\ UNCHANGED <<minute, second>>

Allow(p) ==
    \/ ReadClock(p)
    \/ Get(p)
    \/ GetFails(p)
    \/ TxPipelined(p)
    \/ TxPipelinedFails(p)

Next ==
    \/ Tick
    \/ \E p \in Processes : Allow(p)

Spec == Init /\ [][Next]_vars

-----------------------------------------------------------------------------
(* Properties                                                              *)

\* However the processes interleave between their GET and their INCR, and whether
\* or not a call made at the end of a minute reaches Redis in the next, a minute
\* has at most RpmLimit allowed calls, plus what the processes can have under way
\* at once (one call less than there are processes, in the race for the last, and
\* one call of each, over the end of the minute), plus those that met an error.
RateBounded ==
    \A m \in Minutes :
      allowed[m] <= RpmLimit + 2 * Cardinality(Processes) - 1 + failedOpen[m]

\* A call is refused only if RpmLimit calls of its minute were allowed: a counter
\* of the same minute of another hour is never met, nor one that counts too much.
RefusedOverLimit ==
    [][\A p \in Processes :
         call[p] # Idle /\ call'[p] = Idle /\ UNCHANGED allowed
           => allowed[call[p].minute] >= RpmLimit]_vars
=============================================================================
