---------------------------- MODULE RequestService ----------------------------
(***************************************************************************)
(* What the agent promises to those who send it messages: each message is  *)
(* handled once, in the order of arrival; a "datasources" request is       *)
(* answered with one reply for each bucket through every connector before  *)
(* the next message is looked at, and a "history" request replays every    *)
(* bucket.  How the threads and locks of the agent bring that about is the *)
(* matter of Messaging.                                                    *)
(***************************************************************************)
EXTENDS Integers, Sequences

CONSTANTS
    NumBuckets,  \* the buckets of the agent are 1..NumBuckets
    Connectors,  \* where replies go
    Kinds        \* the kinds of message that arrive

VARIABLES
    inbox,     \* messages that wait
    serving,   \* the request that is being served
    answered,  \* replies it has been given: bucket and connector
    replayed   \* buckets replayed for it

vars == <<inbox, serving, answered, replayed>>

Buckets == 1..NumBuckets

Init ==
    /\ inbox = <<>>
    /\ serving = "none"
    /\ answered = {}
    /\ replayed = {}

Arrive(kind) ==
    /\ inbox' = Append(inbox, kind)
    /\ UNCHANGED <<serving, answered, replayed>>

(* The oldest message is taken; what needs no reply is done with at once. *)
Take ==
    /\ serving = "none"
    /\ inbox # <<>>
    /\ inbox' = Tail(inbox)
    /\ serving' = IF Head(inbox) \in {"datasources", "history"}
                  THEN Head(inbox) ELSE "none"
    /\ UNCHANGED <<answered, replayed>>

(* The connector c is given the reply for the bucket b; the replies for    *)
(* the buckets before b have all been given.                               *)
Reply(b, c) ==
    /\ serving = "datasources"
    /\ <<b, c>> \notin answered
    /\ (1..(b - 1)) \X Connectors \subseteq answered
    /\ answered' = answered \cup {<<b, c>>}
    /\ UNCHANGED <<inbox, serving, replayed>>

Replay(b) ==
    /\ serving = "history"
    /\ replayed = 1..(b - 1)
    /\ replayed' = 1..b
    /\ UNCHANGED <<inbox, serving, answered>>

Finish ==
    /\ \/ serving = "datasources" /\ answered = Buckets \X Connectors
       \/ serving = "history" /\ replayed = Buckets
    /\ serving' = "none"
    /\ answered' = {}
    /\ replayed' = {}
    /\ UNCHANGED inbox

Serve ==
    \/ Take
    \/ \E b \in Buckets, c \in Connectors : Reply(b, c)
    \/ \E b \in Buckets : Replay(b)
    \/ Finish

Next == Serve \/ \E kind \in Kinds : Arrive(kind)

Spec == Init /\ [][Next]_vars

(* Nothing that arrives is left waiting for ever. *)
FairSpec == Spec /\ WF_vars(Serve)
=============================================================================
