---------------------------- MODULE EventFanout ----------------------------
(***************************************************************************)
(* Publish and Subscribe of the MIG service (service.go) and the session   *)
(* that serves one subscription (handleSubscribe in http.go, Subscribe in  *)
(* grpc_server.go), with the NATS mirror of published events and the NATS  *)
(* binding's handlePublish (nats_binding.go).                              *)
(*                                                                         *)
(* Publish and Subscribe each run inside one exclusive-lock section.  A    *)
(* session first writes its replay slice, then forwards what arrives on    *)
(* its buffered channel; Publish sends to every channel without blocking   *)
(* and drops the event for a full one.  When the client goes away the      *)
(* session's unsubscribe removes the channel under the lock and closes it  *)
(* after releasing the lock.                                               *)
(***************************************************************************)
EXTENDS Naturals, Sequences, SequencesExt, FiniteSets, TLC

CONSTANTS
    Topics,         \* namespaced topic names
    Sessions,       \* subscriber sessions (one SSE or gRPC subscribe call each)
    Cursors,        \* resume_cursor values a session may send (>= 0)
    ChanCap,        \* capacity of a subscriber channel (32 in the code)
    NATSConnected,  \* the service holds a NATS connection (MIGD_NATS_URL set)
    NATSBinding,    \* StartNATSBinding ran on that connection
    MaxEvents       \* bound on the length of each topic's log

ASSUME Cursors \subseteq Nat
ASSUME ChanCap \in Nat \ {0}
ASSUME NATSConnected \in BOOLEAN /\ NATSBinding \in BOOLEAN
ASSUME NATSBinding => NATSConnected
ASSUME MaxEvents \in Nat

\* The states of a session: not yet subscribed, writing its replay slice,
\* forwarding live events, unsubscribed but its channel not yet closed,
\* finished.
SessionStates == {"new", "replay", "live", "leaving", "closed"}

VARIABLES
    events,        \* topic -> sequence numbers of its log, in order
    subscribers,   \* topic -> sessions whose channel is registered
    chan,          \* session -> events buffered in its channel
    sstate,        \* session -> its state
    topicOf,       \* session -> the topic it subscribed to
    pending,       \* session -> replay events not yet written
    received,      \* history: session -> events the client got, in order
    dropped,       \* history: session -> an event was dropped on a full channel
    disconnected,  \* history: sessions whose client went away
    natsInbox,     \* mirrored events the NATS binding has yet to handle
    requested,     \* history: topic -> publishes requested by clients
    start          \* history: session -> its cursor as Subscribe clamped it

vars == <<events, subscribers, chan, sstate, topicOf, pending, received,
          dropped, disconnected, natsInbox, requested, start>>

sessionVars == <<chan, sstate, topicOf, pending, received, dropped, disconnected>>

-----------------------------------------------------------------------------
Init ==
    /\ events = [t \in Topics |-> <<>>]
    /\ subscribers = [t \in Topics |-> {}]
    /\ chan = [s \in Sessions |-> <<>>]
    /\ sstate = [s \in Sessions |-> "new"]
    /\ topicOf = [s \in Sessions |-> CHOOSE t \in Topics : TRUE]
    /\ pending = [s \in Sessions |-> <<>>]
    /\ received = [s \in Sessions |-> <<>>]
    /\ dropped = [s \in Sessions |-> FALSE]
    /\ disconnected = {}
    /\ natsInbox = <<>>
    /\ requested = [t \in Topics |-> 0]
    /\ start = [s \in Sessions |-> 0]

-----------------------------------------------------------------------------
(* Publish (service.go), shared by every binding.                          *)

\* Mutant: sequence numbers start at len instead of len+1.
PublishLockedZeroBased(t, inbox) ==
    LET n == Len(events[t])
        full == {s \in subscribers[t] : Len(chan[s]) >= ChanCap}
    IN
    /\ Len(events[t]) < MaxEvents
    /\ events' = [events EXCEPT ![t] = Append(@, n)]
    /\ chan' = [s \in Sessions |->
                  IF s \in subscribers[t] \ full THEN Append(chan[s], n) ELSE chan[s]]
    /\ dropped' = [s \in Sessions |-> dropped[s] \/ s \in full]
    /\ natsInbox' = IF NATSConnected /\ NATSBinding
                      THEN Append(inbox, t) ELSE inbox

\* The locked part of Publish: append with sequence len+1, a non-blocking
\* send to each registered channel of the topic, and the NATS mirror
\* (which the binding, when started, receives on mig.v0_1.*.events.>).
PublishLocked(t, inbox) ==
    LET n == Len(events[t]) + 1
        full == {s \in subscribers[t] : Len(chan[s]) >= ChanCap}
    IN
    /\ Len(events[t]) < MaxEvents
    /\ events' = [events EXCEPT ![t] = Append(@, n)]
    /\ chan' = [s \in Sessions |->
                  IF s \in subscribers[t] \ full THEN Append(chan[s], n) ELSE chan[s]]
    /\ dropped' = [s \in Sessions |-> dropped[s] \/ s \in full]
    /\ natsInbox' = IF NATSConnected /\ NATSBinding
                      THEN Append(inbox, t) ELSE inbox

\* A client publishes through HTTP, gRPC or a NATS request.
ClientPublish(t) ==
    /\ PublishLocked(t, natsInbox)
    /\ requested' = [requested EXCEPT ![t] = @ + 1]
    /\ UNCHANGED <<subscribers, sstate, topicOf, pending, received, disconnected, start>>

\* The NATS binding's handlePublish receives a mirrored event: the body
\* decodes as a PublishRequest with the same topic and is published again.
\* The binding's subscription handles one message at a time, in order.
NATSHandlePublish ==
    /\ natsInbox # <<>>
    /\ \/ PublishLocked(Head(natsInbox), Tail(natsInbox))
       \/ /\ Len(events[Head(natsInbox)]) >= MaxEvents
          /\ natsInbox' = Tail(natsInbox)
          /\ UNCHANGED <<events, chan, dropped>>
    /\ UNCHANGED <<subscribers, sstate, topicOf, pending, received,
                   disconnected, requested, start>>

-----------------------------------------------------------------------------
(* One subscription session.                                               *)

\* Mutant: the replay slice stops one short of the end of the log.
SubscribeDropsLast(s, t, cur) ==
    LET begin == IF cur > Len(events[t]) THEN Len(events[t]) ELSE cur IN
    /\ sstate[s] = "new"
    /\ sstate' = [sstate EXCEPT ![s] = "replay"]
    /\ topicOf' = [topicOf EXCEPT ![s] = t]
    /\ pending' = [pending EXCEPT ![s] = SubSeq(events[t], begin + 1, Len(events[t]) - 1)]
    /\ subscribers' = [subscribers EXCEPT ![t] = @ \cup {s}]
    /\ start' = [start EXCEPT ![s] = begin]
    /\ UNCHANGED <<events, chan, received, dropped, disconnected, natsInbox, requested>>

\* Mutant: the replay slice is the whole log, whatever the resume cursor.
SubscribeIgnoresCursor(s, t, cur) ==
    LET begin == IF cur > Len(events[t]) THEN Len(events[t]) ELSE cur IN
    /\ sstate[s] = "new"
    /\ sstate' = [sstate EXCEPT ![s] = "replay"]
    /\ topicOf' = [topicOf EXCEPT ![s] = t]
    /\ pending' = [pending EXCEPT ![s] = events[t]]
    /\ subscribers' = [subscribers EXCEPT ![t] = @ \cup {s}]
    /\ start' = [start EXCEPT ![s] = begin]
    /\ UNCHANGED <<events, chan, received, dropped, disconnected, natsInbox, requested>>

\* Subscribe: under the lock, copy the log from the (clamped) cursor as the
\* replay slice and register a new channel.
Subscribe(s, t, cur) ==
    LET begin == IF cur > Len(events[t]) THEN Len(events[t]) ELSE cur IN
    /\ sstate[s] = "new"
    /\ sstate' = [sstate EXCEPT ![s] = "replay"]
    /\ topicOf' = [topicOf EXCEPT ![s] = t]
    /\ pending' = [pending EXCEPT ![s] = SubSeq(events[t], begin + 1, Len(events[t]))]
    /\ subscribers' = [subscribers EXCEPT ![t] = @ \cup {s}]
    /\ start' = [start EXCEPT ![s] = begin]
    /\ UNCHANGED <<events, chan, received, dropped, disconnected, natsInbox, requested>>

\* The session writes the next replay event (marked replay=true).
SendReplay(s) ==
    /\ sstate[s] = "replay"
    /\ pending[s] # <<>>
    /\ received' = [received EXCEPT ![s] = Append(@, [seq |-> Head(pending[s]), replay |-> TRUE])]
    /\ pending' = [pending EXCEPT ![s] = Tail(@)]
    /\ UNCHANGED <<events, subscribers, chan, sstate, topicOf, dropped,
                   disconnected, natsInbox, requested, start>>

\* Mutant: the handler returns after the replay instead of entering its
\* live loop, and its deferred unsubscribe runs.
StartLiveReturns(s) ==
    /\ sstate[s] = "replay"
    /\ pending[s] = <<>>
    /\ sstate' = [sstate EXCEPT ![s] = "leaving"]
    /\ subscribers' = [subscribers EXCEPT ![topicOf[s]] = @ \ {s}]
    /\ UNCHANGED <<events, chan, topicOf, pending, received,
                   dropped, disconnected, natsInbox, requested, start>>

\* The replay slice is written: the session enters its live loop.
StartLive(s) ==
    /\ sstate[s] = "replay"
    /\ pending[s] = <<>>
    /\ sstate' = [sstate EXCEPT ![s] = "live"]
    /\ UNCHANGED <<events, subscribers, chan, topicOf, pending, received,
                   dropped, disconnected, natsInbox, requested, start>>

\* The live loop takes the next event off the channel and writes it.
Receive(s) ==
    /\ sstate[s] = "live"
    /\ chan[s] # <<>>
    /\ received' = [received EXCEPT ![s] = Append(@, [seq |-> Head(chan[s]), replay |-> FALSE])]
    /\ chan' = [chan EXCEPT ![s] = Tail(@)]
    /\ UNCHANGED <<events, subscribers, sstate, topicOf, pending, dropped,
                   disconnected, natsInbox, requested, start>>

\* Mutant: unsubscribe forgets to delete the channel from the topic.
UnsubscribeKeepsChannel(s) ==
    /\ sstate[s] \in {"replay", "live"}
    /\ sstate' = [sstate EXCEPT ![s] = "leaving"]
    /\ disconnected' = disconnected \cup {s}
    /\ UNCHANGED <<events, subscribers, chan, topicOf, pending, received, dropped,
                   natsInbox, requested, start>>

\* The client goes away (request context done, or a write fails): the
\* handler returns and its deferred unsubscribe removes the channel under
\* the lock.
Unsubscribe(s) ==
    /\ sstate[s] \in {"replay", "live"}
    /\ sstate' = [sstate EXCEPT ![s] = "leaving"]
    /\ subscribers' = [subscribers EXCEPT ![topicOf[s]] = @ \ {s}]
    /\ disconnected' = disconnected \cup {s}
    /\ UNCHANGED <<events, chan, topicOf, pending, received, dropped,
                   natsInbox, requested, start>>

\* ... and then, after releasing the lock, closes the channel.
CloseChannel(s) ==
    /\ sstate[s] = "leaving"
    /\ sstate' = [sstate EXCEPT ![s] = "closed"]
    /\ chan' = [chan EXCEPT ![s] = <<>>]
    /\ UNCHANGED <<events, subscribers, topicOf, pending, received, dropped,
                   disconnected, natsInbox, requested, start>>

Next ==
    \/ \E t \in Topics : ClientPublish(t)
    \/ NATSHandlePublish
    \/ \E s \in Sessions, t \in Topics, c \in Cursors : Subscribe(s, t, c)
    \/ \E s \in Sessions :
          SendReplay(s) \/ StartLive(s) \/ Receive(s) \/ Unsubscribe(s) \/ CloseChannel(s)

\* The session's goroutine keeps running while its client reads: weak
\* fairness on its steps.  Clients, publishers and disconnects are not fair.
Fairness ==
    \A s \in Sessions :
        WF_vars(SendReplay(s)) /\ WF_vars(StartLive(s))
        /\ WF_vars(Receive(s)) /\ WF_vars(CloseChannel(s))

Spec == Init /\ [][Next]_vars /\ Fairness

-----------------------------------------------------------------------------
(* Properties.                                                             *)

Seqs(s) == [i \in 1..Len(received[s]) |-> received[s][i].seq]

TypeOK ==
    /\ events \in [Topics -> Seq(1..MaxEvents)]
    /\ subscribers \in [Topics -> SUBSET Sessions]
    /\ chan \in [Sessions -> Seq(1..MaxEvents)]
    /\ \A s \in Sessions : Len(chan[s]) <= ChanCap
    /\ sstate \in [Sessions -> SessionStates]
    /\ topicOf \in [Sessions -> Topics]
    /\ pending \in [Sessions -> Seq(1..MaxEvents)]
    /\ received \in [Sessions -> Seq([seq : 1..MaxEvents, replay : BOOLEAN])]
    /\ dropped \in [Sessions -> BOOLEAN]
    /\ disconnected \subseteq Sessions
    /\ natsInbox \in Seq(Topics)
    /\ requested \in [Topics -> Nat]
    /\ start \in [Sessions -> Nat]

\* A subscriber sees the topic's events in publish order with no duplicate
\* across its replay slice and its live channel (Subscribe copies the log
\* and registers the channel in one lock section), all replayed events
\* before any live one, and, as long as Publish never found its channel
\* full, with no gap either.
DeliveryInOrder ==
    \A s \in Sessions :
        /\ \A i \in 1..Len(received[s]) - 1 :
              /\ received[s][i].seq < received[s][i + 1].seq
              /\ ~dropped[s] => received[s][i + 1].seq = received[s][i].seq + 1
              /\ received[s][i + 1].replay => received[s][i].replay
        /\ \A i \in 1..Len(received[s]) : received[s][i].seq <= Len(events[topicOf[s]])

\* Publish never sends on a closed channel: unsubscribe closes a channel
\* outside the lock, so it must have been removed from the topic first.
NoSendOnClosedChannel ==
    \A t \in Topics : \A s \in subscribers[t] : sstate[s] \in {"replay", "live"} /\ topicOf[s] = t

\* Every event that reaches a session's channel is eventually written to
\* its client, unless the client disconnects.
EventuallyReceived ==
    \A s \in Sessions, n \in 1..MaxEvents :
        (n \in Range(chan[s]) /\ sstate[s] \in {"replay", "live"})
            ~> (n \in Range(Seqs(s)) \/ s \in disconnected)

\* Every event in a topic's log was published by a client: the log holds
\* exactly as many events as clients published (spec: Publish appends one
\* event per accepted publish).
EventLogMatchesPublishes ==
    \A t \in Topics : Len(events[t]) = requested[t]


\* The refinement mapping: the log is the log; a session that has not yet
\* subscribed is idle, one writing its replay slice or forwarding live
\* events is open, one unsubscribed (its channel closed or about to be) is
\* gone; its cursor is the one Subscribe clamped, and what it got is the
\* sequence numbers written to its client, replayed or live alike.
PhaseOf(s) ==
    CASE sstate[s] = "new" -> "idle"
      [] sstate[s] \in {"replay", "live"} -> "open"
      [] sstate[s] \in {"leaving", "closed"} -> "gone"

Stream == INSTANCE TopicStream WITH
              log <- events,
              phase <- [s \in Sessions |-> PhaseOf(s)],
              from <- start,
              got <- [s \in Sessions |-> Seqs(s)]

\* Every behaviour of the channels, replay slices and lock sections is one
\* TopicStream allows: each session's client gets events of the topic it
\* subscribed to, past its clamped resume cursor, in publish order and
\* never twice, only between its subscribe and its unsubscribe, and the
\* log gets sequence numbers 1, 2, ... whether a client or the NATS
\* binding publishes.
TopicStreamSpec == Stream!Spec

=============================================================================
