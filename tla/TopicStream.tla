---------------------------- MODULE TopicStream ----------------------------
(***************************************************************************)
(* What Publish and Subscribe promise a subscriber, with the channel, the  *)
(* replay copy and the lock sections abstracted away:                      *)
(*                                                                         *)
(*   Publish    appends the next sequence number (length + 1) to the       *)
(*              topic's log.                                               *)
(*   Subscribe  opens a session on a topic at a resume cursor, clamped to  *)
(*              the log's length.                                          *)
(*   Deliver    an open session gets an event of its topic's log with a    *)
(*              sequence number above the last one it got (above the       *)
(*              cursor for the first); events may be skipped (a full       *)
(*              channel drops them) but never repeated or reordered.       *)
(*   Leave      the client goes away; nothing is delivered afterwards.     *)
(*                                                                         *)
(* EventFanout refines it (EventFanout's TopicStreamSpec).                 *)
(***************************************************************************)
EXTENDS Naturals, Sequences

CONSTANTS Topics, Sessions, Cursors

VARIABLES
    log,      \* topic -> sequence numbers of its events, in publish order
    phase,    \* session -> "idle", "open" or "gone"
    topicOf,  \* session -> the topic it subscribed to
    from,     \* session -> its resume cursor, clamped to the log's length
    got       \* session -> sequence numbers delivered to it, in order

streamVars == <<log, phase, topicOf, from, got>>

Init ==
    /\ log = [t \in Topics |-> <<>>]
    /\ phase = [s \in Sessions |-> "idle"]
    /\ topicOf = [s \in Sessions |-> CHOOSE t \in Topics : TRUE]
    /\ from = [s \in Sessions |-> 0]
    /\ got = [s \in Sessions |-> <<>>]

\* The sequence number a delivery to s must exceed.
LastGot(s) == IF got[s] = <<>> THEN from[s] ELSE got[s][Len(got[s])]

Publish(t) ==
    /\ log' = [log EXCEPT ![t] = Append(@, Len(@) + 1)]
    /\ UNCHANGED <<phase, topicOf, from, got>>

\* The clamp is applied when the cursor is read, against the log as it is
\* at subscribe time: later publishes do not move it.
Subscribe(s, t, c) ==
    /\ phase[s] = "idle"
    /\ phase' = [phase EXCEPT ![s] = "open"]
    /\ topicOf' = [topicOf EXCEPT ![s] = t]
    /\ from' = [from EXCEPT ![s] = IF c > Len(log[t]) THEN Len(log[t]) ELSE c]
    /\ UNCHANGED <<log, got>>

Deliver(s) ==
    /\ phase[s] = "open"
    /\ \E i \in 1..Len(log[topicOf[s]]) :
          /\ log[topicOf[s]][i] > LastGot(s)
          /\ got' = [got EXCEPT ![s] = Append(@, log[topicOf[s]][i])]
    /\ UNCHANGED <<log, phase, topicOf, from>>

Leave(s) ==
    /\ phase[s] = "open"
    /\ phase' = [phase EXCEPT ![s] = "gone"]
    /\ UNCHANGED <<log, topicOf, from, got>>

Next ==
    \/ \E t \in Topics : Publish(t)
    \/ \E s \in Sessions, t \in Topics, c \in Cursors : Subscribe(s, t, c)
    \/ \E s \in Sessions : Deliver(s) \/ Leave(s)

Spec == Init /\ [][Next]_streamVars

=============================================================================
