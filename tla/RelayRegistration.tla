-------------------------- MODULE RelayRegistration --------------------------
(***************************************************************************)
(* How one relay server and the control plane keep track of each other     *)
(* (relay/internal/backend, relay/internal/server/server.go,               *)
(* backend/internal/service/relay).  The relay registers when it starts,   *)
(* sends heartbeats, registers again when one fails, and unregisters when  *)
(* it stops.  The manager keeps an entry in memory and, if it is given a   *)
(* store, one in Redis, which it writes one after the other and outside of *)
(* one lock; its health check marks and removes an entry that was not      *)
(* heard of.                                                               *)
(*                                                                         *)
(* A request goes on when the relay no longer waits for it: it is still on *)
(* its way, or being handled.  Time is counted in intervals of the health  *)
(* check; an operation of the store, whose timeout is a fraction of an     *)
(* interval, does not last from one to the next.                           *)
(***************************************************************************)
EXTENDS Naturals

CONSTANTS
  Requests,    \* requests under way at a time (bound)
  StaleAfter,  \* staleRelayMultiplier
  TTL,         \* relayHeartbeatTTL, in intervals
  MaxFaults    \* timeouts, losses, failures of Redis, crashes, forced removals (bound)

ASSUME RegistrationAssumption ==
  /\ {StaleAfter, TTL} \subseteq Nat \ {0} /\ TTL < StaleAfter
  /\ MaxFaults \in Nat

VARIABLES
  relay,       \* off, starting, up or stopping
  registered,  \* Client.registered
  loop,        \* what its heartbeat loop does next: beat or register
  request,     \* per request: what it asks, where it is, and who waits for it
  mem,         \* the manager's entry in memory
  store,       \* the entry in Redis
  check,       \* where the health check is
  ticked,      \* it ran in this interval
  heard,       \* intervals since the request of the relay that mem goes back to
  faults
vars == <<relay, registered, loop, request, mem, store, check, ticked, heard, faults>>
relayVars == <<relay, registered, loop>>
checkVars == <<check, ticked>>
managerVars == <<mem, store, checkVars, heard>>

Old == StaleAfter + 2                      \* where ages stop
Older(age) == IF age < Old THEN age + 1 ELSE age
NoRequest == [asks |-> "nothing", at |-> "none", for |-> "nobody"]
NoEntry == [known |-> FALSE, age |-> 0, healthy |-> FALSE]
Entry == [known |-> TRUE, age |-> 0, healthy |-> TRUE]
Fault == faults < MaxFaults /\ faults' = faults + 1
Answers == {"ok", "notfound", "error"}
-----------------------------------------------------------------------------
(* The relay *)

Send(asks, for) ==
  \E r \in Requests :
    /\ request[r] = NoRequest
    /\ request' = [request EXCEPT ![r] = [asks |-> asks, at |-> "sent", for |-> for]]

\* Nobody waits any more: the context is cancelled, or the process is gone.
Abandon(who) ==
  request' = [r \in Requests |->
    CASE request[r].for \notin who -> request[r]
      [] request[r].for \in who /\ request[r].at \in Answers -> NoRequest
      [] OTHER -> [request[r] EXCEPT !.for = "nobody"]]

Waiting(who) == \E r \in Requests : request[r].for = who

\* The answer arrives, or the client times out while the request, or its answer, is lost or late.
Answered(r, answer) ==
  \/ /\ request[r].at = answer
     /\ request' = [request EXCEPT ![r] = NoRequest]
     /\ UNCHANGED faults
  \/ /\ answer = "error" /\ request[r].at \notin Answers /\ Fault
     /\ \/ request' = [request EXCEPT ![r].for = "nobody"]
        \/ request[r].at = "sent" /\ request' = [request EXCEPT ![r] = NoRequest]

\* Start registers first.
Start ==
  /\ relay = "off" /\ relay' = "starting"
  /\ registered' = FALSE /\ loop' = "beat"
  /\ Send("register", "main")
  /\ UNCHANGED <<managerVars, faults>>

Started(r, answer) ==
  /\ relay = "starting" /\ request[r].for = "main" /\ Answered(r, answer)
  /\ relay' = IF answer = "ok" THEN "up" ELSE "off"
  /\ registered' = (answer = "ok")
  /\ UNCHANGED <<loop, managerVars>>

\* A tick of StartHeartbeat, or what follows a heartbeat that failed.
\* SendHeartbeat fails at once when the relay is not registered.
Beat ==
  /\ relay = "up" /\ ~Waiting("loop")
  /\ Send(IF loop = "beat" /\ registered THEN "heartbeat" ELSE "register", "loop")
  /\ UNCHANGED <<relayVars, managerVars, faults>>

Beaten(r, answer) ==
  /\ relay = "up" /\ request[r].for = "loop" /\ Answered(r, answer)
  /\ IF request[r].asks = "heartbeat"
     THEN /\ loop' = IF answer = "ok" THEN "beat" ELSE "register"
          /\ registered' = (registered /\ answer # "notfound")
     ELSE /\ loop' = "beat"
          /\ registered' = (registered \/ answer = "ok")
  /\ UNCHANGED <<relay, managerVars>>

\* gracefulShutdown; the loop's request is cancelled with its context.
Stop ==
  /\ relay = "up" /\ relay' = "stopping"
  /\ Abandon({"loop"})
  /\ UNCHANGED <<registered, loop, managerVars, faults>>

Unregister ==
  /\ relay = "stopping" /\ ~Waiting("main")
  /\ Send("unregister", "main")
  /\ UNCHANGED <<relayVars, managerVars, faults>>

Unregistered(r, answer) ==
  /\ relay = "stopping" /\ request[r].for = "main" /\ Answered(r, answer)
  /\ relay' = "off"
  /\ registered' = (registered /\ answer # "ok")
  /\ UNCHANGED <<loop, managerVars>>

RelayDies ==
  /\ relay # "off" /\ relay' = "off" /\ Fault
  /\ Abandon({"main", "loop"})
  /\ UNCHANGED <<registered, loop, managerVars>>
-----------------------------------------------------------------------------
(* The manager's handlers *)

\* The request goes on to its next statement, or is answered.
Onward(r, at) ==
  request' = [request EXCEPT ![r] =
    IF at \in Answers /\ request[r].for = "nobody" THEN NoRequest ELSE [@ EXCEPT !.at = at]]

At(r, asks, at) == request[r].asks = asks /\ request[r].at = at

\* An operation on Redis may fail, before or after it took effect.
Stored(new) == store' = new /\ UNCHANGED faults
NotStored(new) == store.used /\ Fault /\ store' \in {store, new}

Saved == IF store.used THEN [store EXCEPT !.info = TRUE, !.beat = 0] ELSE store
Touched == IF store.used THEN [store EXCEPT !.beat = 0] ELSE store
Deleted == [store EXCEPT !.info = FALSE, !.beat = Old]

\* Manager.Register: the store first, then the memory.
Register(r) ==
  /\ At(r, "register", "sent")
  /\ \/ Stored(Saved) /\ Onward(r, "saved")
     \/ NotStored(Saved) /\ Onward(r, "error")
  /\ UNCHANGED <<relayVars, mem, checkVars, heard>>

RegisterKnown(r) ==
  /\ At(r, "register", "saved") /\ Onward(r, "ok")
  /\ mem' = Entry /\ heard' = 0
  /\ UNCHANGED <<relayVars, store, checkVars, faults>>

\* Manager.Heartbeat: the memory first; its lock is not held while the store is written.
\* Mutant: a relay that is not known is told that all is well.
UnknownOk == "ok"
UnknownAnswer == "notfound"

Heartbeat(r) ==
  /\ At(r, "heartbeat", "sent")
  /\ IF mem.known THEN mem' = Entry /\ heard' = 0 /\ Onward(r, "taken")
                  ELSE Onward(r, UnknownAnswer) /\ UNCHANGED <<mem, heard>>
  /\ UNCHANGED <<relayVars, store, checkVars, faults>>

HeartbeatStored(r) ==
  /\ At(r, "heartbeat", "taken") /\ Onward(r, "ok")
  /\ Stored(Touched) \/ NotStored(Touched)
  /\ UNCHANGED <<relayVars, mem, checkVars, heard>>

\* GracefulUnregister and ForceUnregister: nothing to do if it is not known.
Unregisters(r) ==
  /\ At(r, "unregister", "sent")
  /\ mem' = NoEntry /\ Onward(r, IF mem.known THEN "forgotten" ELSE "ok")
  /\ UNCHANGED <<relayVars, store, checkVars, heard, faults>>

UnregisterStored(r) ==
  /\ At(r, "unregister", "forgotten") /\ Onward(r, "ok")
  /\ Stored(Deleted) \/ NotStored(Deleted)
  /\ UNCHANGED <<relayVars, mem, checkVars, heard>>

\* An administrator removes the relay.
ForceUnregister ==
  /\ Fault /\ Send("unregister", "nobody")
  /\ UNCHANGED <<relayVars, managerVars>>
-----------------------------------------------------------------------------
(* The health check *)

\* What doHealthCheck lists.  Mutant: both by the same timeout.
UnhealthyWhenStale == mem.known /\ mem.age > StaleAfter /\ mem.healthy
Unhealthy == mem.known /\ mem.age > 1 /\ mem.age <= StaleAfter /\ mem.healthy
\* Mutant: only a healthy relay becomes stale.
StaleIfHealthy == mem.known /\ mem.age > StaleAfter /\ mem.healthy
Stale == mem.known /\ mem.age > StaleAfter

\* It lists the relays under a lock of its own.
Look ==
  /\ check = "idle" /\ ~ticked /\ ticked' = TRUE
  /\ check' = CASE Stale -> "remove" [] Unhealthy -> "mark" [] OTHER -> "idle"
  /\ UNCHANGED <<relayVars, request, mem, store, heard, faults>>

MarkUnhealthy ==
  /\ check = "mark" /\ check' = "idle"
  /\ mem' = [mem EXCEPT !.healthy = @ /\ mem.age <= 1]
  /\ UNCHANGED <<relayVars, request, store, ticked, heard, faults>>

\* removeStaleRelay looks again.
StillStale == mem.known /\ mem.age > StaleAfter

RemoveStale ==
  /\ check = "remove"
  /\ IF StillStale THEN mem' = NoEntry /\ check' = "delete"
                   ELSE check' = "idle" /\ UNCHANGED mem
  /\ UNCHANGED <<relayVars, request, store, ticked, heard, faults>>

RemoveStored ==
  /\ check = "delete" /\ check' = "idle"
  /\ Stored(Deleted) \/ NotStored(Deleted)
  /\ UNCHANGED <<relayVars, request, mem, ticked, heard>>
-----------------------------------------------------------------------------
(* Time, and restarts of the control plane *)

Storing == \E r \in Requests : request[r].at \in {"saved", "taken", "forgotten"}

TimePasses ==
  /\ ticked /\ check = "idle" /\ ~Storing
  /\ ticked' = FALSE
  /\ mem' = IF mem.known THEN [mem EXCEPT !.age = Older(@)] ELSE mem
  /\ store' = [store EXCEPT !.beat = Older(@)]
  /\ heard' = Older(heard)
  /\ UNCHANGED <<relayVars, request, check, faults>>

\* The heartbeat key is in Redis until it expires.
Alive == store.beat <= TTL

\* The process ends at any statement and a new one starts: loadFromStore, and a
\* health check before any request, which removes an entry that is not alive.
Restart ==
  /\ Fault
  /\ request' = [r \in Requests |->
       IF request[r].at \in {"saved", "taken", "forgotten"}
       THEN IF request[r].for = "nobody" THEN NoRequest ELSE [request[r] EXCEPT !.at = "error"]
       ELSE request[r]]
  /\ \/ /\ store.used /\ store.info /\ Alive
        /\ mem' = Entry /\ heard' = store.beat
        /\ UNCHANGED store
     \/ /\ store.used /\ store.info /\ ~Alive
        /\ mem' = NoEntry /\ store' \in {store, Deleted}
        /\ UNCHANGED heard
     \/ mem' = NoEntry /\ UNCHANGED <<store, heard>>   \* no store, nothing in it, or it cannot be read
  /\ check' = "idle" /\ ticked' = FALSE
  /\ UNCHANGED relayVars
-----------------------------------------------------------------------------
Init ==
  /\ relay = "off" /\ registered = FALSE /\ loop = "beat"
  /\ request = [r \in Requests |-> NoRequest]
  /\ mem = NoEntry
  /\ store \in {[used |-> u, info |-> FALSE, beat |-> Old] : u \in BOOLEAN}
  /\ check = "idle" /\ ticked = FALSE
  /\ heard = Old /\ faults = 0

Handle(r) ==
  \/ Register(r) \/ RegisterKnown(r)
  \/ Heartbeat(r) \/ HeartbeatStored(r)
  \/ Unregisters(r) \/ UnregisterStored(r)

Hear(r) == \E answer \in Answers : Started(r, answer) \/ Beaten(r, answer) \/ Unregistered(r, answer)

HealthCheck == Look \/ MarkUnhealthy \/ RemoveStale \/ RemoveStored

Next ==
  \/ Start \/ Beat \/ Stop \/ Unregister \/ RelayDies
  \/ \E r \in Requests : Handle(r) \/ Hear(r)
  \/ ForceUnregister
  \/ HealthCheck \/ TimePasses \/ Restart

Spec == Init /\ [][Next]_vars

\* Requests are handled and answered or time out, the loop goes on, the health
\* check's ticker does too, and a relay that stops goes on stopping.
FairSpec ==
  /\ Spec
  /\ WF_vars(Beat) /\ WF_vars(Unregister)
  /\ \A r \in Requests : WF_vars(Handle(r)) /\ WF_vars(Hear(r))
  /\ WF_vars(HealthCheck) /\ WF_vars(TimePasses)
-----------------------------------------------------------------------------
(* Properties *)

TypeOK ==
  /\ relay \in {"off", "starting", "up", "stopping"} /\ registered \in BOOLEAN
  /\ loop \in {"beat", "register"}
  /\ request \in [Requests -> [asks : {"nothing", "register", "heartbeat", "unregister"},
                               at : {"none", "sent", "saved", "taken", "forgotten"} \cup Answers,
                               for : {"nobody", "main", "loop"}]]
  /\ mem \in [known : BOOLEAN, age : 0 .. Old, healthy : BOOLEAN]
  /\ store \in [used : BOOLEAN, info : BOOLEAN, beat : 0 .. Old]
  /\ check \in {"idle", "mark", "remove", "delete"} /\ ticked \in BOOLEAN
  /\ heard \in 0 .. Old /\ faults \in 0 .. MaxFaults

\* Sessions are only given to relays that are heard of: an entry that is
\* healthy belongs to a relay heard within a health check interval, and one look
\* more; with a store, a restart adds the time its heartbeat stays in Redis.
Restored == IF store.used THEN TTL ELSE 0
HealthyIsRecent == mem.healthy => mem.known /\ heard <= Restored + 2

RegistrationInv == TypeOK /\ HealthyIsRecent

\* A relay that stays up is known to the control plane again and again: after
\* lost heartbeats, restarts that forgot it and removals.
UpIsKnown == relay = "up" ~> mem.known \/ relay # "up"

\* A relay that is gone for good is forgotten, also if a late heartbeat or
\* registration of it arrived after it had unregistered.
GoneIsForgotten == <>[](relay = "off") => <>[]~mem.known

\* What is known in memory is in the store too once nothing is under way.
MemoryIsStored ==
  store.used /\ mem.known /\ check = "idle" /\ (\A r \in Requests : request[r] = NoRequest)
  => store.info
=============================================================================
