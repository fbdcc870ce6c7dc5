---------------------------- MODULE MCAPNSPusher ----------------------------
(* Small instances of APNSPusher for TLC. *)
EXTENDS APNSPusher

CONSTANTS m1, m2, m3, m4, w1, w2

TwoMessages == {m1, m2}
ThreeMessages == {m1, m2, m3}
FourMessages == {m1, m2, m3, m4}

OneWorker == {w1}
TwoWorkers == {w1, w2}

\* Any answer that is neither a success nor a 429 is handled alike.
ThreeReasons == {Success, TooManyRequests, "BadDeviceToken"}

TwoReasons == {Success, TooManyRequests}

Symmetry == Permutations(Messages) \cup Permutations(Workers)

\* Liveness is checked without symmetry.  The deliveries differ in nothing but
\* their names, so it is enough to look at the behaviours that read them in one
\* order: any other is one of these with the names exchanged.
ReadInOrder ==
    LET order == <<m1, m2, m3, m4>>
    IN  \A i \in 1..3 :
          order[i] \in At("unread") /\ order[i + 1] \in Messages
            => order[i + 1] \in At("unread")

\* cmd/apns.go gives Start a context that is never cancelled.
LivenessSpec == Init /\ [][Next /\ ReadInOrder' /\ ~ctxDone']_vars /\ Fairness

\* The same, of a process that subscribes, loses no message and is never stopped:
\* a counterexample to it is one to the whole specification.
UndisturbedSpec ==
    /\ Init
    /\ [][/\ Next
          /\ ReadInOrder'
          /\ ~ctxDone' /\ main' = "running"
          /\ consumer'.pc # "failed"
          /\ At("lost")' = {}]_vars
    /\ Fairness
=============================================================================
