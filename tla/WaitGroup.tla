------------------------------ MODULE WaitGroup ------------------------------
(***************************************************************************)
(* The sync.WaitGroup that KafkaConsumer creates, the message handlers     *)
(* decrement and WaitTimeout (pusher/common.go) waits on from a goroutine  *)
(* of its own.  It is library code, modelled as src/ uses it: one counter  *)
(* and at most one goroutine inside Wait.                                  *)
(*                                                                         *)
(* Waking up takes two steps, as in the library: the Done that brings the  *)
(* counter to zero releases the waiter, and the waiter then reads the      *)
(* counter again and panics with "WaitGroup is reused before previous Wait *)
(* has returned" if an Add came in between.                                *)
(***************************************************************************)
EXTENDS Integers

VARIABLES
    wg,     \* the counter
    waiter  \* the goroutine that WaitTimeout starts

waitGroupVars == <<wg, waiter>>

WaiterStates == {"absent", "spawned", "waiting", "released", "returned"}

WaitGroupTypeOK ==
    /\ wg \in Int
    /\ waiter \in WaiterStates

WaitGroupInit ==
    /\ wg = 0
    /\ waiter = "absent"

Add ==
    /\ wg' = wg + 1
    /\ UNCHANGED waiter

Done ==
    /\ wg' = wg - 1
    /\ waiter' = IF waiter = "waiting" /\ wg = 1 THEN "released" ELSE waiter

Wait ==
    /\ waiter = "spawned"
    /\ waiter' = IF wg = 0 THEN "returned" ELSE "waiting"
    /\ UNCHANGED wg

WakeUp ==
    /\ waiter = "released"
    /\ wg = 0
    /\ waiter' = "returned"
    /\ UNCHANGED wg

\* The library panics: a counter below zero, or an Add before the waiter that
\* was released has returned.
Misused ==
    \/ wg < 0
    \/ waiter = "released" /\ wg # 0
=============================================================================
