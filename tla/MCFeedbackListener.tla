------------------------- MODULE MCFeedbackListener -------------------------
(* Small instances of FeedbackListener for TLC. *)
EXTENDS FeedbackListener

CONSTANTS m1, m2, m3, t1, t2

ThreeMessages == {m1, m2, m3}

TwoTables == {t1, t2}

\* The last token is in a table of its own.
MCTableOf ==
    [m \in Messages |-> IF m = m3 THEN t2 ELSE t1]

\* Messages whose tokens are in the same table may be exchanged.
Symmetry == Permutations({m1, m2})

\* Liveness is checked without symmetry, and the first of those messages is read
\* before the second: other behaviours are these with the two names exchanged.
\* The message of the other table comes first, between them or last.
ReadInOrder == m1 \in At("unread") => m2 \in At("unread")

LivenessSpec == Init /\ [][Next /\ ReadInOrder']_vars /\ Fairness
=============================================================================
