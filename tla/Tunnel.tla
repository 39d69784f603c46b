------------------------------- MODULE Tunnel -------------------------------
(***************************************************************************)
(* One runner's preview tunnel at the relay: many proxied HTTP requests    *)
(* (streams) share one connection.  A single read loop hands the runner's  *)
(* frames to the streams through bounded channels; each request has a      *)
(* goroutine that pumps its channel to the browser and returns credits for *)
(* what it has flushed; a heartbeat closes the tunnel when the runner has  *)
(* not been heard for too long; and closing tells every open request.      *)
(*                                                                         *)
(* One body frame costs one credit here.  (In the code credits count       *)
(* bytes, so that a window of 1 MiB is worth far more small frames than a  *)
(* channel of 64 holds; Window > Cap is that situation.)                   *)
(***************************************************************************)
EXTENDS Integers, Sequences, FiniteSets

CONSTANTS Streams,    \* stream ids, each opened at most once
          Cap,        \* capacity of respCh
          Window,     \* credits of the runner for the response body
          MaxBody,    \* bound: body frames in a response
          MaxQuiet,   \* heartbeats without a pong before the tunnel is closed
          NoFrame

Types == {"start", "body", "end", "error"}
Frames == [type : Types, st : Streams]

ASSUME ConstantsAssumption ==
    /\ {Cap, Window, MaxQuiet} \subseteq Nat \ {0} /\ MaxBody \in Nat
    /\ NoFrame \notin Frames

VARIABLES
    closing,    \* "open", "closed" (t.closed, connection) or "swept" (streams taken)
    notify,     \* streams Close has yet to deliver RESP_ERROR to
    table,      \* t.streams
    pump,       \* where the goroutine of each request is
    started,    \* it has written the response header
    written,    \* body frames it has written to the browser
    result,     \* how the request ended
    resp,       \* st.respCh
    runner,     \* the runner's side of each request
    sent,       \* body frames it has sent
    credit,     \* its credits
    net,        \* frames on the connection from the runner
    hand,       \* the frame the read loop wants to deliver, or NoFrame
    reading,    \* the read loop runs
    quiet,      \* heartbeats since the last pong was read
    up          \* the runner is there

tunVars  == <<closing, notify>>
pumpVars == <<pump, started, written, result>>
runVars  == <<runner, sent>>
readVars == <<hand, reading>>
vars == <<tunVars, table, pumpVars, resp, runVars, credit, net, readVars, quiet, up>>

Frame(t, s) == [type |-> t, st |-> s]
Pong == [type |-> "pong"]

TypeOK ==
    /\ closing \in {"open", "closed", "swept"}
    /\ notify \subseteq Streams /\ table \subseteq Streams
    /\ pump \in [Streams -> {"idle", "opened", "wait", "write", "done"}]
    /\ started \in [Streams -> BOOLEAN] /\ written \in [Streams -> 0..MaxBody]
    /\ result \in [Streams -> {"none", "ok", "502", "timeout", "client gone"}]
    /\ resp \in [Streams -> Seq(Types)] /\ \A s \in Streams : Len(resp[s]) =< Cap
    /\ runner \in [Streams -> {"none", "dial", "body", "cancelled", "done"}]
    /\ sent \in [Streams -> 0..MaxBody]
    /\ credit \in [Streams -> 0..Window]
    /\ net \in Seq(Frames \cup {Pong}) /\ hand \in Frames \cup {NoFrame}
    /\ reading \in BOOLEAN /\ up \in BOOLEAN
    /\ quiet \in 0..MaxQuiet

Init ==
    /\ closing = "open" /\ notify = {} /\ table = {}
    /\ pump = [s \in Streams |-> "idle"] /\ started = [s \in Streams |-> FALSE]
    /\ written = [s \in Streams |-> 0] /\ result = [s \in Streams |-> "none"]
    /\ resp = [s \in Streams |-> <<>>]
    /\ runner = [s \in Streams |-> "none"] /\ sent = [s \in Streams |-> 0]
    /\ credit = [s \in Streams |-> Window]
    /\ net = <<>> /\ hand = NoFrame /\ reading = TRUE
    /\ quiet = 0 /\ up = TRUE

Room(s) == Len(resp[s]) < Cap

-----------------------------------------------------------------------------
(* A proxied request (ProxyHTTP).                                          *)

OpenStream(s) ==
    /\ pump[s] = "idle"
    /\ pump' = [pump EXCEPT ![s] = "opened"]
    /\ table' = table \cup {s}
    /\ UNCHANGED <<tunVars, started, written, result, resp, runVars, credit, net,
                   readVars, quiet, up>>

\* The request ends and its deferred CloseStream runs.
Finish(s, how) ==
    /\ pump' = [pump EXCEPT ![s] = "done"]
    /\ result' = [result EXCEPT ![s] = how]
    /\ table' = table \ {s}

\* REQ_START is written; a write on a closed or broken connection fails.
WriteReqStart(s) ==
    /\ pump[s] = "opened"
    /\ \/ /\ closing = "open"
          /\ pump' = [pump EXCEPT ![s] = "wait"]
          /\ runner' = [runner EXCEPT ![s] = IF up THEN "dial" ELSE "none"]
          /\ UNCHANGED <<table, result>>
       \/ /\ closing # "open" \/ ~up
          /\ Finish(s, "502") /\ UNCHANGED runner
    /\ UNCHANGED <<tunVars, started, written, resp, sent, credit, net, readVars,
                   quiet, up>>

\* STREAM_CANCEL, on a connection that may be gone.
CancelRunner(s) ==
    runner' = [runner EXCEPT ![s] =
                 IF closing = "open" /\ @ \in {"dial", "body"} THEN "cancelled" ELSE @]

\* pumpResponse takes a frame from the channel.
Pump(s) ==
    /\ pump[s] = "wait" /\ resp[s] # <<>>
    /\ resp' = [resp EXCEPT ![s] = Tail(@)]
    /\ CASE Head(resp[s]) = "start" ->
              /\ started' = [started EXCEPT ![s] = TRUE]
              /\ UNCHANGED <<pump, result, table>>
         [] Head(resp[s]) = "body" /\ started[s] ->
              /\ pump' = [pump EXCEPT ![s] = "write"]
              /\ UNCHANGED <<started, result, table>>
         [] Head(resp[s]) = "end" -> Finish(s, "ok") /\ UNCHANGED started
         [] OTHER -> Finish(s, "502") /\ UNCHANGED started
    /\ UNCHANGED <<tunVars, written, runVars, credit, net, readVars, quiet, up>>

\* Mutant: the credit of the first body frame is not returned.
FirstIsFree(s) == closing = "open" /\ written[s] > 0

Credited(s) == closing = "open"

\* The browser has taken the body frame, and the runner gets the credit back.
Flushed(s) ==
    /\ pump[s] = "write"
    /\ pump' = [pump EXCEPT ![s] = "wait"]
    /\ written' = [written EXCEPT ![s] = @ + 1]
    /\ credit' = [credit EXCEPT ![s] = IF Credited(s) THEN @ + 1 ELSE @]
    /\ UNCHANGED <<tunVars, table, started, result, resp, runVars, net, readVars,
                   quiet, up>>

\* The write fails because the browser is gone.
ClientGone(s) ==
    /\ pump[s] = "write"
    /\ Finish(s, "client gone") /\ CancelRunner(s)
    /\ UNCHANGED <<tunVars, started, written, resp, sent, credit, net, readVars,
                   quiet, up>>

\* Mutant: the context is watched only until the response begins.
WaitsForStart(s) == pump[s] = "wait" /\ ~started[s]

Waits(s) == pump[s] = "wait"

\* The request's context is done.
Timeout(s) ==
    /\ Waits(s)
    /\ Finish(s, "timeout") /\ CancelRunner(s)
    /\ UNCHANGED <<tunVars, started, written, resp, sent, credit, net, readVars,
                   quiet, up>>

-----------------------------------------------------------------------------
(* The runner, as the relay sees it.                                       *)

Send(f) == net' = Append(net, f)
Connected == closing = "open" /\ up

RunnerSends(s) ==
    /\ Connected
    /\ \/ /\ runner[s] = "dial"
          /\ \/ Send(Frame("start", s)) /\ runner' = [runner EXCEPT ![s] = "body"]
             \/ Send(Frame("error", s)) /\ runner' = [runner EXCEPT ![s] = "done"]
          /\ UNCHANGED <<sent, credit>>
       \/ /\ runner[s] \in {"body", "cancelled"} /\ sent[s] < MaxBody /\ credit[s] > 0
          /\ Send(Frame("body", s))
          /\ sent' = [sent EXCEPT ![s] = @ + 1]
          /\ credit' = [credit EXCEPT ![s] = @ - 1]
          /\ UNCHANGED runner
       \/ /\ runner[s] = "body"
          /\ Send(Frame("end", s)) /\ runner' = [runner EXCEPT ![s] = "done"]
          /\ UNCHANGED <<sent, credit>>
       \/ /\ runner[s] \in {"body", "cancelled"}     \* reading the target failed
          /\ Send(Frame("error", s)) /\ runner' = [runner EXCEPT ![s] = "done"]
          /\ UNCHANGED <<sent, credit>>
    /\ UNCHANGED <<tunVars, table, pumpVars, resp, readVars, quiet, up>>

RunnerStops(s) ==
    /\ runner[s] = "cancelled"
    /\ runner' = [runner EXCEPT ![s] = "done"]
    /\ UNCHANGED <<tunVars, table, pumpVars, resp, sent, credit, net, readVars,
                   quiet, up>>

RunnerDies ==
    /\ up /\ up' = FALSE
    /\ UNCHANGED <<tunVars, table, pumpVars, resp, runVars, credit, net, readVars,
                   quiet>>

-----------------------------------------------------------------------------
(* The read loop.                                                          *)

\* Close, the part until its streams are taken: the first caller does it.
MarkClosed == closing' = IF closing = "open" THEN "closed" ELSE closing

\* A frame for a stream that is gone is dropped.
ReadFrame ==
    /\ reading /\ hand = NoFrame /\ closing = "open" /\ net # <<>>
    /\ net' = Tail(net)
    /\ quiet' = IF Head(net) = Pong THEN 0 ELSE quiet
    /\ hand' = IF Head(net) # Pong /\ Head(net).st \in table THEN Head(net) ELSE NoFrame
    /\ UNCHANGED <<tunVars, table, pumpVars, resp, runVars, credit, reading, up>>

\* Mutants: dispatch drops what has no room, or waits for room for ever.
DropsWhenFull == closing # "open" \/ ~Room(hand.st)
NeverGivesUp  == FALSE

GivesUp == closing # "open"

\* dispatch waits until the stream's channel has room or the tunnel closes.
Deliver ==
    /\ hand # NoFrame
    /\ \/ /\ Room(hand.st)
          /\ resp' = [resp EXCEPT ![hand.st] = Append(@, hand.type)]
       \/ GivesUp /\ UNCHANGED resp
    /\ hand' = NoFrame
    /\ UNCHANGED <<tunVars, table, pumpVars, runVars, credit, net, reading, quiet, up>>

\* Its connection was closed, or all that the runner sent before it died has
\* been read: the read loop closes the tunnel and ends.
ReadError ==
    /\ reading /\ hand = NoFrame
    /\ closing # "open" \/ (~up /\ net = <<>>)
    /\ reading' = FALSE
    /\ MarkClosed
    /\ UNCHANGED <<notify, table, pumpVars, resp, runVars, credit, net, hand, quiet, up>>

-----------------------------------------------------------------------------
(* The heartbeat, and closing.                                             *)

\* What takes no time worth mentioning next to the ping interval.
Busy == \/ ENABLED ReadFrame \/ ENABLED Deliver
        \/ \E s \in Streams : ENABLED Pump(s)

Silent == quiet = MaxQuiet

\* One turn of pingLoop, a ping interval after the last: the runner has been
\* silent for too long, or is sent a ping, which it answers if it is there; a
\* ping to a connection that is gone may fail.
Ping ==
    /\ closing = "open" /\ ~Busy
    /\ IF Silent
       THEN MarkClosed /\ UNCHANGED <<quiet, net>>
       ELSE \/ /\ quiet' = quiet + 1
               /\ IF up THEN Send(Pong) ELSE UNCHANGED net
               /\ UNCHANGED closing
            \/ ~up /\ MarkClosed /\ UNCHANGED <<quiet, net>>
    /\ UNCHANGED <<notify, table, pumpVars, resp, runVars, credit, readVars, up>>

\* The runner reconnected: Register closes its old tunnel.
TakeOver ==
    /\ closing = "open" /\ MarkClosed
    /\ UNCHANGED <<notify, table, pumpVars, resp, runVars, credit, net, readVars,
                   quiet, up>>

\* Close takes the streams...
Sweep ==
    /\ closing = "closed" /\ closing' = "swept"
    /\ notify' = table /\ table' = {}
    /\ UNCHANGED <<pumpVars, resp, runVars, credit, net, readVars, quiet, up>>

\* ...and puts RESP_ERROR into each one's channel if there is room.
Notify(s) ==
    /\ s \in notify /\ notify' = notify \ {s}
    /\ resp' = IF Room(s) THEN [resp EXCEPT ![s] = Append(@, "error")] ELSE resp
    /\ UNCHANGED <<closing, table, pumpVars, runVars, credit, net, readVars, quiet,
                   up>>

-----------------------------------------------------------------------------
Request(s) == WriteReqStart(s) \/ Pump(s) \/ Flushed(s)

Next ==
    \/ \E s \in Streams : \/ OpenStream(s) \/ Request(s) \/ ClientGone(s)
                          \/ Timeout(s) \/ RunnerSends(s) \/ RunnerStops(s)
                          \/ Notify(s)
    \/ RunnerDies \/ ReadFrame \/ Deliver \/ ReadError
    \/ Ping \/ TakeOver \/ Sweep

Spec == Init /\ [][Next]_vars

\* Goroutines run, pings are sent and a request's timeout comes.  A browser
\* need not take what it is sent, and the runner need not answer a request.
Fairness ==
    /\ \A s \in Streams : /\ WF_vars(WriteReqStart(s) \/ Pump(s))
                          /\ WF_vars(Timeout(s)) /\ WF_vars(Notify(s))
    /\ WF_vars(ReadFrame) /\ WF_vars(Deliver) /\ WF_vars(ReadError)
    /\ WF_vars(Ping) /\ WF_vars(Sweep)
FairSpec == Spec /\ Fairness

-----------------------------------------------------------------------------
(* What makes the tunnel correct.                                          *)

Count(q, x) == Cardinality({i \in DOMAIN q : q[i] = x})

Bodies(s) == \* body frames of s between the runner and the browser
    Count(net, Frame("body", s))
    + (IF hand = Frame("body", s) THEN 1 ELSE 0)
    + Count(resp[s], "body")
    + (IF pump[s] = "write" THEN 1 ELSE 0)

\* Memory is bounded by the window: the frames under way and the credits left
\* never exceed it, and while the request lives no credit is lost.
CreditsConserved ==
    \A s \in Streams :
      /\ Bodies(s) + credit[s] =< Window
      /\ closing = "open" /\ pump[s] \in {"wait", "write"} =>
            Bodies(s) + credit[s] = Window

TunnelInv == TypeOK /\ CreditsConserved

\* A response that ends normally is whole: every frame the runner sent for it
\* was written to the browser, in order, after the header.
OkIsComplete ==
    \A s \in Streams : result[s] = "ok" => started[s] /\ written[s] = sent[s]

\* The read loop is never stuck for ever on a stream nobody reads: at the
\* latest the heartbeat closes the tunnel.
ReadLoopGoesOn == hand # NoFrame ~> hand = NoFrame

\* After the tunnel closed every request ends, unless its browser is stuck.
RequestsEnd ==
    \A s \in Streams : closing = "swept" /\ pump[s] \in {"opened", "wait"}
                         ~> pump[s] \in {"write", "done"}

\* Documented: one request never takes the shared tunnel down.  (The pongs of
\* a runner that is there are read in time.)
RunnerIsHeard == quiet = MaxQuiet => ~up

\* Documented: when the tunnel closes, requests in flight are told.  (A
\* request that waits then has something to read.)
ClosedRequestsAreTold ==
    closing = "swept" =>
      \A s \in Streams : pump[s] = "wait" => s \in notify \/ resp[s] # <<>>
=============================================================================
