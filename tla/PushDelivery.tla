---------------------------- MODULE PushDelivery ----------------------------
(***************************************************************************)
(* What a pusher promises about the messages it reads and about its exit,  *)
(* whichever push service is behind it.  A message is read once; it is     *)
(* then settled or lost, for good.  After the stop at most one more is     *)
(* read.  The exit that is reported as graceful leaves at most one message *)
(* behind, lost or not yet settled.                                        *)
(***************************************************************************)
CONSTANTS
    Messages,
    HandleAllMessagesBeforeExiting

VARIABLES
    delivery,  \* what became of each message
    process,   \* running, stopping, or how it ended
    reading    \* FALSE once no message can be read any more

vars == <<delivery, process, reading>>

Init ==
    /\ delivery = [m \in Messages |-> "unread"]
    /\ process = "running"
    /\ reading = TRUE

Alive == process \in {"running", "stopping"}

Behind == {m \in Messages : delivery[m] \in {"pending", "lost"}}

Becomes(m, from, to) ==
    /\ Alive
    /\ delivery[m] = from
    /\ delivery' = [delivery EXCEPT ![m] = to]
    /\ UNCHANGED process

Consume(m) ==
    /\ reading
    /\ Becomes(m, "unread", "pending")
    /\ reading' = (process = "running")

Settle(m) == Becomes(m, "pending", "settled") /\ UNCHANGED reading

Lose(m) == Becomes(m, "pending", "lost") /\ UNCHANGED reading

Stop ==
    /\ process = "running"
    /\ process' = "stopping"
    /\ reading' \in BOOLEAN
    /\ UNCHANGED delivery

StopReading ==
    /\ process = "stopping"
    /\ reading /\ ~reading'
    /\ UNCHANGED <<delivery, process>>

ExitGraceful ==
    /\ process = "stopping"
    /\ HandleAllMessagesBeforeExiting
    /\ \A m, n \in Behind : m = n
    /\ process' = "graceful"
    /\ UNCHANGED <<delivery, reading>>

ExitTimeout ==
    /\ process = "stopping"
    /\ HandleAllMessagesBeforeExiting
    /\ process' = "timeout"
    /\ UNCHANGED <<delivery, reading>>

ExitUnwaited ==
    /\ process = "stopping"
    /\ ~HandleAllMessagesBeforeExiting
    /\ process' = "unwaited"
    /\ UNCHANGED <<delivery, reading>>

\* Only the wait group can panic, and only while the shutdown waits on it.
Panic ==
    /\ process = "stopping"
    /\ HandleAllMessagesBeforeExiting
    /\ process' = "panicked"
    /\ UNCHANGED <<delivery, reading>>

Next ==
    \/ \E m \in Messages : Consume(m) \/ Settle(m) \/ Lose(m)
    \/ Stop
    \/ StopReading
    \/ ExitGraceful
    \/ ExitTimeout
    \/ ExitUnwaited
    \/ Panic

Spec == Init /\ [][Next]_vars
=============================================================================
