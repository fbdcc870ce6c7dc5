----------------------------- MODULE MCFCMPusher -----------------------------
(* A small instance of FCMPusher for TLC. *)
EXTENDS FCMPusher

CONSTANTS m1, m2, m3, h1, h2

ThreeMessages == {m1, m2, m3}

TwoHandlers == {h1, h2}

\* As in MCAPNSPusher.
ReadInOrder ==
    /\ m1 \in At("unread") => m2 \in At("unread")
    /\ m2 \in At("unread") => m3 \in At("unread")

\* Two free handlers are the same: the second receives while the first is busy.
FirstFreeHandlerReceives ==
    handler[h2].pc = "receive" /\ handler'[h2].pc # "receive" => handler[h1].pc # "receive"

\* cmd/gcm.go gives Start a context that is never cancelled.
OrderedSpec ==
    Init /\ [][Next /\ ReadInOrder' /\ FirstFreeHandlerReceives /\ ~ctxDone']_vars /\ Fairness
=============================================================================
