--------------------------- MODULE StreamSessions ---------------------------
(***************************************************************************)
(* The long-lived sessions of the bindings and the connection registry     *)
(* (connections.go) they register in.                                      *)
(*                                                                         *)
(*   sse          http.go handleSubscribe: Subscribe, register, serve.     *)
(*   grpc_sub     grpc_server.go Subscribe: register, Subscribe, serve.    *)
(*   ws           http.go handleStream: upgrade, register, frame loop.     *)
(*   grpc_stream  grpc_server.go StreamInvoke: register, frame loop.       *)
(*                                                                         *)
(* Every handler releases what it acquired with Go defers, which run in    *)
(* reverse order when it returns: defers[s] is that stack.  A frame loop   *)
(* handles one frame at a time, calling Invoke or Cancel synchronously;    *)
(* Invoke is atomic here (MIGService models its lock sections).  Event     *)
(* contents and ordering are EventFanout's; a write here is one event or   *)
(* one reply frame.                                                        *)
(***************************************************************************)
EXTENDS Naturals, Sequences, FiniteSets

CONSTANTS
    Sessions,     \* handler invocations, one per client connection
    KindOf,       \* the kind of long-lived session each one is
    MsgIds,       \* message ids carried by stream frames
    MaxWrites     \* bound on events or reply frames written per session

Kinds == {"sse", "grpc_sub", "ws", "grpc_stream"}
ASSUME KindOf \in [Sessions -> Kinds]
ASSUME MaxWrites \in Nat

SubscribeKinds == {"sse", "grpc_sub"}
FrameKinds == {"ws", "grpc_stream"}

\* Frames a client may send: a request (whose envelope tenant may fail the
\* principal check), a control frame with action cancel or another action,
\* and a frame of an unknown kind.
Frames ==
    [kind : {"request"}, msg : MsgIds, action : {"none"}, tenantOk : BOOLEAN]
    \cup [kind : {"control"}, msg : MsgIds, action : {"cancel", "pause"}, tenantOk : {TRUE}]
    \cup [kind : {"bogus"}, msg : MsgIds, action : {"none"}, tenantOk : {TRUE}]

Phases == {"idle", "subscribed", "registered", "serving", "returning", "done"}
Defers == {"unregister", "unsubscribe"}
ReplyCodes == {"OK", "MIG_TIMEOUT", "MIG_FORBIDDEN", "MIG_INVALID_REQUEST"}
NoReply == [msg |-> "none", code |-> "none"]

VARIABLES
    pc,           \* the handler's position
    defers,       \* the handler's pending deferred calls, innermost first
    connections,  \* Service.connections: the registered sessions
    subscribers,  \* the sessions whose channel is in Service.subscribers
    cancelled,    \* Service.cancelled: message ids
    gone,         \* sessions whose client has disconnected
    sent,         \* events or frames written to the client
    lastReply,    \* the last reply frame a frame session wrote
    cancelCalls   \* history: the frames that reached Service.Cancel, by session

vars == <<pc, defers, connections, subscribers, cancelled, gone, sent,
          lastReply, cancelCalls>>

Init ==
    /\ pc = [s \in Sessions |-> "idle"]
    /\ defers = [s \in Sessions |-> <<>>]
    /\ connections = {}
    /\ subscribers = {}
    /\ cancelled = {}
    /\ gone = {}
    /\ sent = [s \in Sessions |-> 0]
    /\ lastReply = [s \in Sessions |-> NoReply]
    /\ cancelCalls = {}

\* `defer f()`: push onto the handler's defer stack.
Defer(s, d) == defers' = [defers EXCEPT ![s] = <<d>> \o @]

\* RegisterConnection: a fresh id (16 random bytes) is stored under the lock.
RegisterConnection(s) == connections' = connections \cup {s}

\* The two deferred releases: the closure RegisterConnection returns, and
\* the unsub closure of Service.Subscribe (delete under the lock, close).
Release(s, d) ==
    /\ connections' = IF d = "unregister" THEN connections \ {s} ELSE connections
    /\ subscribers' = IF d = "unsubscribe" THEN subscribers \ {s} ELSE subscribers

-----------------------------------------------------------------------------
(* Handler starts.  Each is the arrival of a client request. *)

\* handleSubscribe: Service.Subscribe fails on a bad cursor and the handler
\* returns; otherwise `defer unsubscribe()`.
SSESubscribe(s) ==
    /\ KindOf[s] = "sse" /\ pc[s] = "idle"
    /\ \/ /\ pc' = [pc EXCEPT ![s] = "done"]
          /\ UNCHANGED <<defers, subscribers>>
       \/ /\ subscribers' = subscribers \cup {s}
          /\ Defer(s, "unsubscribe")
          /\ pc' = [pc EXCEPT ![s] = "subscribed"]
    /\ UNCHANGED <<connections, cancelled, gone, sent, lastReply, cancelCalls>>

\* Mutant: the handler starts serving without registering the connection.
SSERegisterSkipped(s) ==
    /\ pc[s] = "subscribed"
    /\ pc' = [pc EXCEPT ![s] = "serving"]
    /\ UNCHANGED <<defers, connections, subscribers, cancelled, gone, sent,
                   lastReply, cancelCalls>>

\* handleSubscribe, after Subscribe: register, `defer unregisterConn()`.
SSERegister(s) ==
    /\ pc[s] = "subscribed"
    /\ RegisterConnection(s)
    /\ Defer(s, "unregister")
    /\ pc' = [pc EXCEPT ![s] = "serving"]
    /\ UNCHANGED <<subscribers, cancelled, gone, sent, lastReply, cancelCalls>>

\* gRPC Subscribe: applyPrincipalHeaderFromPrincipal fails and the handler
\* returns a status; otherwise register, `defer unregisterConn()`.
GRPCSubscribeStart(s) ==
    /\ KindOf[s] = "grpc_sub" /\ pc[s] = "idle"
    /\ \/ /\ pc' = [pc EXCEPT ![s] = "done"]
          /\ UNCHANGED <<defers, connections>>
       \/ /\ RegisterConnection(s)
          /\ Defer(s, "unregister")
          /\ pc' = [pc EXCEPT ![s] = "registered"]
    /\ UNCHANGED <<subscribers, cancelled, gone, sent, lastReply, cancelCalls>>

\* gRPC Subscribe, after registering: Service.Subscribe fails on a bad
\* cursor (the handler returns, running its defers), or
\* `defer unsubscribe()` and serve.
GRPCSubscribeAttach(s) ==
    /\ pc[s] = "registered"
    /\ \/ /\ pc' = [pc EXCEPT ![s] = "returning"]
          /\ UNCHANGED <<defers, subscribers>>
       \/ /\ subscribers' = subscribers \cup {s}
          /\ Defer(s, "unsubscribe")
          /\ pc' = [pc EXCEPT ![s] = "serving"]
    /\ UNCHANGED <<connections, cancelled, gone, sent, lastReply, cancelCalls>>

\* handleStream: the upgrade fails and the handler returns; otherwise
\* register, `defer unregisterConn()`, and read frames.
WSStart(s) ==
    /\ KindOf[s] = "ws" /\ pc[s] = "idle"
    /\ \/ /\ pc' = [pc EXCEPT ![s] = "done"]
          /\ UNCHANGED <<defers, connections>>
       \/ /\ RegisterConnection(s)
          /\ Defer(s, "unregister")
          /\ pc' = [pc EXCEPT ![s] = "serving"]
    /\ UNCHANGED <<subscribers, cancelled, gone, sent, lastReply, cancelCalls>>

\* Mutant: StreamInvoke without `defer unregisterConn()`.
StreamInvokeStartNoDefer(s) ==
    /\ KindOf[s] = "grpc_stream" /\ pc[s] = "idle"
    /\ RegisterConnection(s)
    /\ pc' = [pc EXCEPT ![s] = "serving"]
    /\ UNCHANGED <<defers, subscribers, cancelled, gone, sent, lastReply, cancelCalls>>

\* StreamInvoke: register (tenant "unknown" if the principal has none),
\* `defer unregisterConn()`, and receive frames.
StreamInvokeStart(s) ==
    /\ KindOf[s] = "grpc_stream" /\ pc[s] = "idle"
    /\ RegisterConnection(s)
    /\ Defer(s, "unregister")
    /\ pc' = [pc EXCEPT ![s] = "serving"]
    /\ UNCHANGED <<subscribers, cancelled, gone, sent, lastReply, cancelCalls>>

-----------------------------------------------------------------------------
(* Serving. *)

\* The replay loop and the live loop of a subscribe session: one event is
\* written to the client.
Deliver(s) ==
    /\ KindOf[s] \in SubscribeKinds /\ pc[s] = "serving"
    /\ s \notin gone
    /\ sent[s] < MaxWrites
    /\ sent' = [sent EXCEPT ![s] = @ + 1]
    /\ UNCHANGED <<pc, defers, connections, subscribers, cancelled, gone,
                   lastReply, cancelCalls>>

\* Mutant: every control frame cancels, whatever its action.
CancelsAnyControl(s, f) == f.tenantOk /\ f.kind = "control"

\* Whether a frame reaches Service.Cancel: handleStream accepts only
\* payload.action "cancel"; StreamInvoke cancels on any control frame.
Cancels(s, f) ==
    /\ f.tenantOk /\ f.kind = "control"
    /\ KindOf[s] = "ws" => f.action = "cancel"

\* Mutant: a gRPC status name in the reply frame.
ReplyCodesOfStatus(s, f) ==
    CASE ~f.tenantOk         -> {"PERMISSION_DENIED"}
      [] f.kind = "request"  -> IF f.msg \in cancelled THEN {"MIG_TIMEOUT"}
                                ELSE {"OK", "MIG_TIMEOUT"}
      [] Cancels(s, f)       -> {"OK"}
      [] OTHER               -> {"MIG_INVALID_REQUEST"}

\* The code of the frame written back: the principal check's error, Invoke
\* (a cancelled id times out; otherwise the payload races the deadline),
\* the Cancel ack, or the "unsupported control action" / "frame.kind must
\* be request or control" error.
FrameReplyCodes(s, f) ==
    CASE ~f.tenantOk         -> {"MIG_FORBIDDEN"}
      [] f.kind = "request"  -> IF f.msg \in cancelled THEN {"MIG_TIMEOUT"}
                                ELSE {"OK", "MIG_TIMEOUT"}
      [] Cancels(s, f)       -> {"OK"}
      [] OTHER               -> {"MIG_INVALID_REQUEST"}

\* One iteration of the frame loop of handleStream or StreamInvoke: read a
\* frame, call the engine, write exactly one reply frame.
HandleFrame(s, f) ==
    /\ KindOf[s] \in FrameKinds /\ pc[s] = "serving"
    /\ s \notin gone
    /\ sent[s] < MaxWrites
    /\ cancelled' = IF Cancels(s, f) THEN cancelled \cup {f.msg} ELSE cancelled
    /\ cancelCalls' = IF Cancels(s, f)
                        THEN cancelCalls \cup {[by |-> s, action |-> f.action]}
                        ELSE cancelCalls
    /\ \E code \in FrameReplyCodes(s, f) :
          lastReply' = [lastReply EXCEPT ![s] = [msg |-> f.msg, code |-> code]]
    /\ sent' = [sent EXCEPT ![s] = @ + 1]
    /\ UNCHANGED <<pc, defers, connections, subscribers, gone>>

\* The client goes away while its handler runs.
Disconnect(s) ==
    /\ pc[s] \in {"subscribed", "registered", "serving"}
    /\ s \notin gone
    /\ gone' = gone \cup {s}
    /\ UNCHANGED <<pc, defers, connections, subscribers, cancelled, sent,
                   lastReply, cancelCalls>>

\* Mutant: the live loop of a subscribe session has no `case
\* <-ctx.Done()`; with no further event it never notices the client left.
ReturnIgnoresContext(s) ==
    /\ KindOf[s] \in FrameKinds
    /\ pc[s] = "serving" /\ s \in gone
    /\ pc' = [pc EXCEPT ![s] = "returning"]
    /\ UNCHANGED <<defers, connections, subscribers, cancelled, gone, sent,
                   lastReply, cancelCalls>>

\* The handler returns: the request context is done or a write fails
\* (subscribe sessions), or the frame read fails (frame sessions).
Return(s) ==
    /\ pc[s] = "serving" /\ s \in gone
    /\ pc' = [pc EXCEPT ![s] = "returning"]
    /\ UNCHANGED <<defers, connections, subscribers, cancelled, gone, sent,
                   lastReply, cancelCalls>>

\* The innermost pending deferred call runs.
RunDefer(s) ==
    /\ pc[s] = "returning" /\ defers[s] # <<>>
    /\ Release(s, Head(defers[s]))
    /\ defers' = [defers EXCEPT ![s] = Tail(@)]
    /\ UNCHANGED <<pc, cancelled, gone, sent, lastReply, cancelCalls>>

\* The handler has returned once its defers have all run.
Finish(s) ==
    /\ pc[s] = "returning" /\ defers[s] = <<>>
    /\ pc' = [pc EXCEPT ![s] = "done"]
    /\ UNCHANGED <<defers, connections, subscribers, cancelled, gone, sent,
                   lastReply, cancelCalls>>

\* The handler's own steps once its client is connected.
HandlerStep(s) ==
    \/ SSERegister(s) \/ GRPCSubscribeAttach(s) \/ Return(s)
    \/ RunDefer(s) \/ Finish(s)

Next ==
    \E s \in Sessions :
        \/ SSESubscribe(s) \/ GRPCSubscribeStart(s) \/ WSStart(s)
        \/ StreamInvokeStart(s)
        \/ HandlerStep(s)
        \/ Deliver(s) \/ Disconnect(s)
        \/ \E f \in Frames : HandleFrame(s, f)

\* The handler goroutine keeps running once started; the Go runtime
\* schedules every runnable goroutine.  Clients choose what to send and
\* when to leave, so their steps are not fair.
Spec == Init /\ [][Next]_vars /\ \A s \in Sessions : WF_vars(HandlerStep(s))

-----------------------------------------------------------------------------
(* Properties. *)

Count(seq, x) == Len(SelectSeq(seq, LAMBDA y : y = x))

TypeOK ==
    /\ pc \in [Sessions -> Phases]
    /\ defers \in [Sessions -> Seq(Defers)]
    /\ connections \subseteq Sessions
    /\ subscribers \subseteq Sessions
    /\ cancelled \subseteq MsgIds
    /\ gone \subseteq Sessions
    /\ sent \in [Sessions -> 0..MaxWrites]
    /\ lastReply \in [Sessions -> {NoReply} \cup [msg : MsgIds, code : ReplyCodes]]
    /\ cancelCalls \subseteq [by : Sessions, action : {"cancel", "pause"}]

\* Spec I5 in the form the defers give it (connections.go, the four
\* handlers): a session is in the connection registry exactly while its
\* deferred unregister is pending, and its channel is in the subscriber
\* set exactly while its deferred unsubscribe is pending, each at most once
\* (a second unsub would close a closed channel).
DefersMatchRegistrations ==
    \A s \in Sessions :
        /\ Count(defers[s], "unregister") <= 1
        /\ Count(defers[s], "unsubscribe") <= 1
        /\ s \in connections <=> Count(defers[s], "unregister") = 1
        /\ s \in subscribers <=> Count(defers[s], "unsubscribe") = 1

\* A session writes events or reply frames to its client only while it is
\* listed in the connection registry (the admin connections view).
WritesOnlyWhenListed ==
    [][\A s \in Sessions : sent'[s] # sent[s] => s \in connections]_vars

\* A session whose client disconnects eventually returns with its
\* registration and its subscriber channel released.
SessionsReleased ==
    \A s \in Sessions :
        s \in gone ~> (pc[s] = "done" /\ s \notin connections \cup subscribers)

\* The frame loops of the given kinds call Service.Cancel only for a
\* control frame whose payload.action is "cancel" (spec 4.C6: any other
\* action is answered with an error frame).  Cancellation is sticky, so a
\* cancel issued for another action loses its message id for good.
ControlCancelOnlyFor(kinds) ==
    \A c \in cancelCalls : KindOf[c.by] \in kinds => c.action = "cancel"

\* ... for both frame loops, handleStream and StreamInvoke.
ControlCancelOnly == ControlCancelOnlyFor(FrameKinds)

====
