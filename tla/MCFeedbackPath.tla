--------------------------- MODULE MCFeedbackPath ---------------------------
(* Small instances of FeedbackPath for TLC: a game on all platforms, one on  *)
(* Android, one that has a separator in its name, and one whose name the     *)
(* parser does not take apart.                                               *)
EXTENDS FeedbackPath

AllGames == {"g", "h", "s_t", "x.y"}

PlainGames == {"g", "h", "x.y"}

WordGames == {"g", "h", "s_t"}

FiveTokens == {"a", "c", "h", "s", "x"}

PhoneTokens == {"c", "i"}

Topic(game, platform) == [game |-> game, platform |-> platform]

HomeOfToken ==
    [m \in Messages |->
       CASE m = "a" -> Topic("g", "apns")
         [] m = "c" -> Topic("g", "gcm")
         [] m = "i" -> Topic("g", "ios")
         [] m = "h" -> Topic("h", "gcm")
         [] m = "s" -> Topic("s_t", "apns")
         [] m = "x" -> Topic("x.y", "apns")]

AppsOf == [k \in Providers |-> IF k = "gcm" THEN {"g", "h"} ELSE {"g", "s_t"}]

\* As in config/default.yaml: the topics of the plain names.
PatternTopics == {t \in Topics : t.game \in PlainGames}

TokenAnswers ==
    [k \in Providers |->
       IF k = "apns" THEN {"Unregistered", "TooManyRequests"}
                     ELSE {"Unregistered", "InvalidArgument"}]
=============================================================================
