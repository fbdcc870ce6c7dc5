----------------------------- MODULE Admission -----------------------------
(***************************************************************************)
(* What a message passes between its topic and the push: the checks at the *)
(* head of HandleMessages of extensions/apns/apns_message_handler.go and   *)
(* of extensions/firebase/message_handler.go, with Allow as RateLimiter    *)
(* has it and IsUnique of extensions/dedup_messages.go.  Several processes *)
(* of one platform handle the messages of one device, all of the same      *)
(* content, and share both Redis databases.                                *)
(*                                                                         *)
(* The APNs handler looks at the expiry of a message last, the FCM handler *)
(* first.                                                                  *)
(***************************************************************************)
EXTENDS RateLimiter

CONSTANTS
    DedupTtl,     \* apns.dedup.ttl or gcm.dedup.ttl, in seconds
    MaxMessages   \* bound on the messages of the device

ASSUME AdmissionAssumption == DedupTtl \in Nat \ {0} /\ MaxMessages \in Nat

VARIABLES
    platform,    \* of the handlers
    sampled,     \* the device's hash is below the game's percentage
    handling,    \* where each process is in HandleMessages
    dedupTtl,    \* of the key of device and content, 0 if there is none
    sinceUnique, \* seconds since Redis last called the content unique
    outcomes     \* how many messages there were, and what became of them

admissionVars == <<platform, sampled, handling, dedupTtl, sinceUnique, outcomes>>
allVars == <<vars, admissionVars>>

Outcomes == {"taken", "invalid", "expired", "refused", "expiredLate", "sent"}
Steps == {"parse", "expiry", "dedup", "allow", "build", "send"}

\* Long enough ago for the key to be gone.
LongAgo == DedupTtl

AdmissionTypeOK ==
    /\ TypeOK
    /\ platform \in {"apns", "gcm"}
    /\ sampled \in BOOLEAN
    /\ handling \in [Processes -> {"idle"} \cup Steps]
    /\ \A p \in Processes : call[p] # Idle => handling[p] = "allow"
    /\ dedupTtl \in 0 .. DedupTtl
    /\ sinceUnique \in 0 .. LongAgo
    /\ outcomes \in [Outcomes -> 0 .. MaxMessages]

AdmissionInit ==
    /\ Init
    /\ platform \in {"apns", "gcm"}
    /\ sampled \in BOOLEAN
    /\ handling = [p \in Processes |-> "idle"]
    /\ dedupTtl = 0
    /\ sinceUnique = LongAgo
    /\ outcomes = [o \in Outcomes |-> 0]

-----------------------------------------------------------------------------

Goto(p, step) == handling' = [handling EXCEPT ![p] = step]

Finish(p, outcome) ==
    /\ Goto(p, "idle")
    /\ outcomes' = [outcomes EXCEPT ![outcome] = @ + 1]

\* Time passes for the keys of both databases.
Second ==
    /\ Tick
    /\ dedupTtl' = IF dedupTtl = 0 THEN 0 ELSE dedupTtl - 1
    /\ sinceUnique' = IF sinceUnique = LongAgo THEN LongAgo ELSE sinceUnique + 1
    /\ UNCHANGED <<platform, sampled, handling, outcomes>>

TakeMessage(p) ==
    /\ handling[p] = "idle"
    /\ outcomes["taken"] < MaxMessages
    /\ Goto(p, "parse")
    /\ outcomes' = [outcomes EXCEPT !["taken"] = @ + 1]
    /\ UNCHANGED <<vars, platform, sampled, dedupTtl, sinceUnique>>

\* parseKafkaMessage, or the Unmarshal of the FCM handler, which is followed by
\* its expiry check.
ParseMessage(p) ==
    /\ handling[p] = "parse"
    /\ \/ Finish(p, "invalid")
       \/ Goto(p, IF platform = "gcm" THEN "expiry" ELSE "dedup") /\ UNCHANGED outcomes
    /\ UNCHANGED <<vars, platform, sampled, dedupTtl, sinceUnique>>

CheckExpiry(p) ==
    /\ handling[p] = "expiry"
    /\ Finish(p, "expired") \/ (Goto(p, "dedup") /\ UNCHANGED outcomes)
    /\ UNCHANGED <<vars, platform, sampled, dedupTtl, sinceUnique>>

\* No IsUnique if the payload gives no content; no Redis if the device is not in
\* the sample.
SkipDedup(p) ==
    /\ handling[p] = "dedup"
    /\ Goto(p, "allow")
    /\ UNCHANGED <<vars, platform, sampled, dedupTtl, sinceUnique, outcomes>>

\* Mutant of SetIfAbsent: SET without the mode NX.
SetAlways ==
    /\ dedupTtl' = DedupTtl
    /\ sinceUnique' = 0

\* Mutant of SetIfAbsent: a duplicate prolongs the key.
SetProlongs ==
    /\ dedupTtl' = dedupTtl + DedupTtl
    /\ IF dedupTtl = 0 THEN sinceUnique' = 0 ELSE UNCHANGED sinceUnique

\* SET NX with a time to live.  A key that is there answers redis.Nil: the message
\* is a duplicate, and the key keeps its time.
SetIfAbsent ==
    IF dedupTtl = 0
      THEN dedupTtl' = DedupTtl /\ sinceUnique' = 0
      ELSE UNCHANGED <<dedupTtl, sinceUnique>>

\* Mutant of Deduplicated: a duplicate is dropped.
DeduplicatedDrops(p) ==
    /\ Goto(p, IF dedupTtl = 0 THEN "allow" ELSE "idle")
    /\ UNCHANGED outcomes

\* Whatever IsUnique returns, the message goes on.
Deduplicated(p) ==
    /\ Goto(p, "allow")
    /\ UNCHANGED outcomes

\* On a Redis error, before or after the SET, the message counts as unique.
IsUnique(p) ==
    /\ handling[p] = "dedup"
    /\ sampled
    /\ SetIfAbsent
    /\ Deduplicated(p)
    /\ UNCHANGED <<vars, platform, sampled>>

\* Mutant of AfterAllow: a refusal by the rate limiter is not looked at.
AfterAllowSends(p, verdict) ==
    Goto(p, IF platform = "apns" THEN "build" ELSE "send") /\ UNCHANGED outcomes

AfterAllow(p, verdict) ==
    IF verdict
      THEN Goto(p, IF platform = "apns" THEN "build" ELSE "send") /\ UNCHANGED outcomes
      ELSE Finish(p, "refused")

\* The steps of Allow; the last returns its verdict.
RateLimit(p) ==
    /\ handling[p] = "allow"
    /\ Allow(p)
    /\ IF call'[p] = Idle
         THEN AfterAllow(p, allowed' # allowed)
         ELSE UNCHANGED <<handling, outcomes>>
    /\ UNCHANGED <<platform, sampled, dedupTtl, sinceUnique>>

\* buildAndValidateNotification of the APNs handler.
BuildNotification(p) ==
    /\ handling[p] = "build"
    /\ Finish(p, "expiredLate") \/ (Goto(p, "send") /\ UNCHANGED outcomes)
    /\ UNCHANGED <<vars, platform, sampled, dedupTtl, sinceUnique>>

SendMessage(p) ==
    /\ handling[p] = "send"
    /\ Finish(p, "sent")
    /\ UNCHANGED <<vars, platform, sampled, dedupTtl, sinceUnique>>

HandleMessages(p) ==
    \/ TakeMessage(p)
    \/ ParseMessage(p)
    \/ CheckExpiry(p)
    \/ SkipDedup(p)
    \/ IsUnique(p)
    \/ RateLimit(p)
    \/ BuildNotification(p)
    \/ SendMessage(p)

\* The messages of the bounded instance are all handled.
Exhausted ==
    /\ outcomes["taken"] = MaxMessages
    /\ \A p \in Processes : handling[p] = "idle"
    /\ UNCHANGED allVars

AdmissionNext ==
    \/ Second
    \/ Exhausted
    \/ \E p \in Processes : HandleMessages(p)

AdmissionSpec == AdmissionInit /\ [][AdmissionNext]_allVars

-----------------------------------------------------------------------------
(* Properties                                                              *)

InProgress(step) == Cardinality({p \in Processes : handling[p] = step})

\* The calls of Allow that were allowed, numbered in each minute.
AllowedCalls == UNION {{m} \X (1 .. allowed[m]) : m \in Minutes}

\* No message ends in two ways or in none, and what the device's quota was spent on
\* is known to the message: each call that Allow has allowed belongs to a message
\* that is sent or on its way.  Only the APNs handler also spends quota on messages
\* that turn out to be expired; the FCM handler never does.
QuotaAccounted ==
    /\ outcomes["taken"] =
         outcomes["invalid"] + outcomes["expired"] + outcomes["refused"]
           + outcomes["expiredLate"] + outcomes["sent"]
           + Cardinality({p \in Processes : handling[p] # "idle"})
    /\ Cardinality(AllowedCalls) =
         outcomes["sent"] + outcomes["expiredLate"] + InProgress("build") + InProgress("send")
    /\ platform = "gcm" => outcomes["expiredLate"] = 0
    /\ platform = "apns" => outcomes["expired"] = 0

\* Of the messages of one content that reach Redis within DedupTtl seconds one is
\* unique, however many processes ask at once and however often the content comes:
\* a duplicate does not prolong the key, and the key does not outlive its time.
UniqueOncePerTtl ==
    [][/\ sinceUnique' < sinceUnique => sinceUnique = LongAgo
       /\ \A p \in Processes :
            IsUnique(p) /\ sinceUnique = LongAgo => sinceUnique' = 0]_allVars
=============================================================================
