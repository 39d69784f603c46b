----------------------- MODULE RelayRegistrationProofs -----------------------
(***************************************************************************)
(* Proofs about the registration of a relay, for any requests, multiple of *)
(* the health check's interval, lifetime of a heartbeat in Redis and       *)
(* faults.                                                                 *)
(***************************************************************************)
EXTENDS RelayRegistration, TLAPS

(***************************************************************************)
(* The inductive invariant.  The entry in memory and the time since the    *)
(* relay was heard are reset by different actors, and a restart takes the  *)
(* time from Redis: the age of the entry bounds the time, and what the     *)
(* health check has looked at bounds the age of an entry that is healthy.  *)
(***************************************************************************)
\* An entry goes back to a request, or to a heartbeat that Redis still has.
AgeCountsSilence == mem.known => heard <= mem.age + Restored

\* The health check looks at every entry once in an interval.
CheckedInTime ==
  mem.healthy => mem.known /\ mem.age <= 2 /\ (ticked /\ check # "mark" => mem.age <= 1)

IInv == TypeOK /\ AgeCountsSilence /\ CheckedInTime

USE DEF relayVars, checkVars, managerVars

\* The parts of the invariant that a step may leave alone.
Relays ==
  /\ relay \in {"off", "starting", "up", "stopping"} /\ registered \in BOOLEAN
  /\ loop \in {"beat", "register"}
RequestsTyped ==
  request \in [Requests -> [asks : {"nothing", "register", "heartbeat", "unregister"},
                            at : {"none", "sent", "saved", "taken", "forgotten"} \cup Answers,
                            for : {"nobody", "main", "loop"}]]
StoreTyped == store \in [used : BOOLEAN, info : BOOLEAN, beat : 0 .. Old]
FaultsTyped == faults \in 0 .. MaxFaults
EntryKept ==
  /\ mem \in [known : BOOLEAN, age : 0 .. Old, healthy : BOOLEAN] /\ heard \in 0 .. Old
  /\ check \in {"idle", "mark", "remove", "delete"} /\ ticked \in BOOLEAN
  /\ AgeCountsSilence /\ CheckedInTime

\* No step gives a manager a store, or takes it away.
Steady == Restored' = Restored /\ Restored \in 0 .. TTL

\* The parts of the invariant, each about the variables of one actor.
LEMMA Parts ==
  /\ IInv => Relays /\ RequestsTyped /\ StoreTyped /\ FaultsTyped /\ EntryKept
  /\ Relays' /\ RequestsTyped' /\ StoreTyped' /\ FaultsTyped' /\ EntryKept' => IInv'
BY DEF IInv, TypeOK, Relays, RequestsTyped, StoreTyped, FaultsTyped, EntryKept

\* What a step leaves alone is kept.
LEMMA Untouched ==
  ASSUME IInv, Steady
  PROVE  /\ UNCHANGED relayVars => Relays'
         /\ UNCHANGED request => RequestsTyped'
         /\ UNCHANGED store => StoreTyped'
         /\ UNCHANGED faults \/ Fault => FaultsTyped'
         /\ UNCHANGED <<mem, checkVars, heard>> => EntryKept'
<1>1. UNCHANGED faults \/ Fault => FaultsTyped'
  BY RegistrationAssumption DEF IInv, TypeOK, FaultsTyped, Fault
<1>2. UNCHANGED <<mem, checkVars, heard>> => EntryKept'
  BY DEF IInv, TypeOK, EntryKept, AgeCountsSilence, CheckedInTime, Steady
<1> QED
  BY <1>1, <1>2 DEF IInv, TypeOK, Relays, RequestsTyped, StoreTyped

\* Requests are sent, given up, answered and handled.
LEMMA RequestSteps ==
  ASSUME IInv
  PROVE  /\ \A asks \in {"register", "heartbeat", "unregister"}, for \in {"nobody", "main", "loop"} :
              Send(asks, for) => RequestsTyped'
         /\ \A who : Abandon(who) => RequestsTyped'
         /\ \A r \in Requests, answer \in Answers :
              Answered(r, answer) => RequestsTyped' /\ (UNCHANGED faults \/ Fault)
         /\ \A r \in Requests, at \in {"saved", "taken", "forgotten"} \cup Answers :
              Onward(r, at) => RequestsTyped'
<1> USE DEF IInv, TypeOK, RequestsTyped
<1>1. ASSUME NEW asks \in {"register", "heartbeat", "unregister"}, NEW for \in {"nobody", "main", "loop"}, Send(asks, for)
      PROVE  RequestsTyped'
  BY <1>1 DEF Send
<1>2. ASSUME NEW who, Abandon(who) PROVE RequestsTyped'
  BY <1>2 DEF Abandon, NoRequest
<1>3. ASSUME NEW r \in Requests, NEW answer \in Answers, Answered(r, answer)
      PROVE  RequestsTyped' /\ (UNCHANGED faults \/ Fault)
  BY <1>3 DEF Answered, NoRequest
<1>4. ASSUME NEW r \in Requests, NEW at \in {"saved", "taken", "forgotten"} \cup Answers, Onward(r, at)
      PROVE  RequestsTyped'
  BY <1>4 DEF Onward, NoRequest
<1> QED
  BY <1>1, <1>2, <1>3, <1>4

\* Redis has what it had, what was written, or a trace of what was deleted.
LEMMA StoreSteps ==
  ASSUME IInv, Steady, NEW new \in {Saved, Touched, Deleted}, Stored(new) \/ NotStored(new)
  PROVE  StoreTyped' /\ FaultsTyped'
<1>1. 0 \in 0 .. Old /\ Old \in 0 .. Old
  BY RegistrationAssumption DEF Old
<1>2. new \in [used : BOOLEAN, info : BOOLEAN, beat : 0 .. Old]
  BY <1>1 DEF IInv, TypeOK, Saved, Touched, Deleted
<1> QED
  BY <1>2, Untouched DEF IInv, TypeOK, StoreTyped, Stored, NotStored

\* An entry that is heard of is new.
LEMMA EntryHeard ==
  ASSUME IInv, Steady, mem' = Entry, heard' \in 0 .. Restored, UNCHANGED checkVars \/ (check' = "idle" /\ ticked' = FALSE)
  PROVE  EntryKept'
<1>1. {heard', Restored'} \subseteq Nat /\ 0 \in 0 .. Old /\ heard' \in 0 .. Old /\ heard' <= Restored'
  BY RegistrationAssumption DEF Old, Steady
<1>2. check' \in {"idle", "mark", "remove", "delete"} /\ ticked' \in BOOLEAN
  BY DEF IInv, TypeOK
<1>3. mem'.known /\ mem'.age = 0 /\ mem'.healthy /\ mem' \in [known : BOOLEAN, age : 0 .. Old, healthy : BOOLEAN]
  BY <1>1 DEF Entry
<1>4. heard' <= mem'.age + Restored'
  BY <1>1, <1>3
<1>5. AgeCountsSilence' /\ CheckedInTime'
  BY <1>3, <1>4 DEF AgeCountsSilence, CheckedInTime
<1> QED
  BY <1>1, <1>2, <1>3, <1>5 DEF EntryKept

\* Nothing is claimed of one that is forgotten.
LEMMA EntryForgotten ==
  ASSUME mem' = NoEntry, heard' \in 0 .. Old, check' \in {"idle", "mark", "remove", "delete"}, ticked' \in BOOLEAN
  PROVE  EntryKept'
<1>1. 0 \in 0 .. Old
  BY RegistrationAssumption DEF Old
<1> QED
  BY <1>1 DEF EntryKept, AgeCountsSilence, CheckedInTime, NoEntry

(***************************************************************************)
(* The steps.                                                              *)
(***************************************************************************)
LEMMA RelayKept ==
  ASSUME IInv, Steady, \/ Start \/ Beat \/ Stop \/ Unregister \/ RelayDies \/ ForceUnregister \/ \E r \in Requests : Hear(r)
  PROVE  IInv'
<1> USE DEF Relays
<1>0. Relays
  BY Parts
<1>1. CASE Start \/ Unregister
  BY <1>0, <1>1, Parts, Untouched, RequestSteps DEF Start, Unregister
<1>2. CASE Beat
  BY <1>0, <1>2, Parts, Untouched, RequestSteps DEF Beat
<1>3. CASE Stop \/ RelayDies
  BY <1>0, <1>3, Parts, Untouched, RequestSteps DEF Stop, RelayDies
<1>4. CASE ForceUnregister
  BY <1>0, <1>4, Parts, Untouched, RequestSteps DEF ForceUnregister
<1>5. ASSUME NEW r \in Requests, NEW answer \in Answers, Started(r, answer) \/ Beaten(r, answer) \/ Unregistered(r, answer)
      PROVE  IInv'
  <2>1. Answered(r, answer) /\ UNCHANGED managerVars
    BY <1>5 DEF Started, Beaten, Unregistered
  <2>2. Relays'
    BY <1>0, <1>5 DEF Started, Beaten, Unregistered
  <2> QED
    BY <2>1, <2>2, Parts, Untouched, RequestSteps
<1> QED
  BY <1>1, <1>2, <1>3, <1>4, <1>5 DEF Hear

\* The backend's handlers keep the invariant: registering, heartbeats and unregistering.
LEMMA HandlerKept ==
  ASSUME IInv, Steady, NEW r \in Requests, Handle(r)
  PROVE  IInv'
<1>0. Relays /\ RequestsTyped /\ StoreTyped /\ FaultsTyped /\ EntryKept /\ 0 \in 0 .. Restored /\ {"ok", "notfound", "error"} \subseteq Answers
  BY Parts, RegistrationAssumption DEF Answers, Steady
<1>1. CASE Register(r)
  BY <1>0, <1>1, Parts, Untouched, RequestSteps, StoreSteps DEF Register
<1>2. CASE RegisterKnown(r)
  BY <1>0, <1>2, Parts, Untouched, RequestSteps, EntryHeard, EntryForgotten DEF RegisterKnown
<1>3. CASE Heartbeat(r)
  <2>1. EntryKept'
    BY <1>0, <1>3, Untouched, EntryHeard, EntryForgotten DEF Heartbeat
  <2> QED
    BY <1>0, <1>3, <2>1, Parts, Untouched, RequestSteps DEF Heartbeat, UnknownAnswer
<1>4. CASE HeartbeatStored(r)
  BY <1>0, <1>4, Parts, Untouched, RequestSteps, StoreSteps DEF HeartbeatStored
<1>5. CASE Unregisters(r)
  <2>1. EntryKept'
    BY <1>0, <1>5, EntryHeard, EntryForgotten DEF Unregisters, EntryKept
  <2> QED
    BY <1>0, <1>5, <2>1, Parts, Untouched, RequestSteps DEF Unregisters
<1>6. CASE UnregisterStored(r)
  BY <1>0, <1>6, Parts, Untouched, RequestSteps, StoreSteps DEF UnregisterStored
<1> QED
  BY <1>1, <1>2, <1>3, <1>4, <1>5, <1>6 DEF Handle

\* The health check marks an entry that is older than an interval before time
\* goes on, so that no entry is healthy longer than that.
LEMMA CheckKept ==
  ASSUME IInv, Steady, HealthCheck
  PROVE  IInv'
<1> USE RegistrationAssumption DEF Steady
<1>0. Relays /\ RequestsTyped /\ StoreTyped /\ FaultsTyped /\ EntryKept
  BY Parts
<1>1. CASE Look
  <2>1. EntryKept'
    BY <1>0, <1>1 DEF Look, EntryKept, AgeCountsSilence, CheckedInTime, Stale, Unhealthy
  <2> QED
    BY <1>1, <2>1, Parts, Untouched DEF Look
<1>2. CASE MarkUnhealthy
  <2>1. EntryKept'
    BY <1>0, <1>2 DEF MarkUnhealthy, EntryKept, AgeCountsSilence, CheckedInTime
  <2> QED
    BY <1>2, <2>1, Parts, Untouched DEF MarkUnhealthy
<1>3. CASE RemoveStale
  <2>1. CASE StillStale
    BY <1>0, <1>3, <2>1, Parts, Untouched, EntryHeard, EntryForgotten DEF RemoveStale, EntryKept
  <2>2. CASE ~StillStale
    <3>1. EntryKept'
      BY <1>0, <1>3, <2>2 DEF RemoveStale, EntryKept, AgeCountsSilence, CheckedInTime
    <3> QED
      BY <1>3, <2>2, <3>1, Parts, Untouched DEF RemoveStale
  <2> QED
    BY <2>1, <2>2
<1>4. CASE RemoveStored
  <2>1. EntryKept'
    BY <1>0, <1>4 DEF RemoveStored, EntryKept, AgeCountsSilence, CheckedInTime
  <2> QED
    BY <1>4, <2>1, Parts, Untouched, StoreSteps DEF RemoveStored
<1> QED
  BY <1>1, <1>2, <1>3, <1>4 DEF HealthCheck

\* Time that passes and a restart of the control plane keep the invariant.
LEMMA TimeKept ==
  ASSUME IInv, Steady, TimePasses \/ Restart
  PROVE  IInv'
<1> USE RegistrationAssumption DEF Steady
<1>0. Relays /\ RequestsTyped /\ StoreTyped /\ FaultsTyped /\ EntryKept
  BY Parts
<1>1. CASE TimePasses
  <2>1. \A age \in 0 .. Old : Older(age) \in 0 .. Old /\ Older(age) <= age + 1 /\ Older(age) = IF age < Old THEN age + 1 ELSE age
    BY DEF Older, Old
  <2>2. StoreTyped'
    BY <1>0, <1>1, <2>1 DEF TimePasses, StoreTyped
  <2>3. EntryKept'
    <3>1. /\ mem \in [known : BOOLEAN, age : 0 .. Old, healthy : BOOLEAN] /\ heard \in 0 .. Old /\ heard' = Older(heard)
          /\ AgeCountsSilence /\ CheckedInTime /\ ticked /\ check' = "idle" /\ check = "idle" /\ ~ticked' /\ ticked' \in BOOLEAN
      BY <1>0, <1>1 DEF TimePasses, EntryKept
    <3>2. Old \in Nat /\ Old > 2 /\ heard' \in 0 .. Old
      BY <2>1, <3>1 DEF Old
    <3>3. CASE mem.known
      <4>1. mem' = [mem EXCEPT !.age = Older(@)]
        BY <1>1, <3>3 DEF TimePasses
      <4>2. /\ mem'.age = Older(mem.age) /\ mem'.known = mem.known /\ mem'.healthy = mem.healthy
            /\ mem' \in [known : BOOLEAN, age : 0 .. Old, healthy : BOOLEAN]
        BY <2>1, <3>1, <4>1
      <4>3. mem.age \in 0 .. Old /\ (mem.healthy => mem.age <= 1) /\ heard <= mem.age + Restored
        BY <3>1, <3>3 DEF AgeCountsSilence, CheckedInTime
      <4>4. heard' <= Older(mem.age) + Restored
        BY <2>1, <3>1, <3>2, <4>3
      <4>5. mem.healthy => Older(mem.age) <= 2
        BY <2>1, <3>2, <4>3
      <4> QED
        BY <3>1, <3>2, <3>3, <4>2, <4>4, <4>5 DEF EntryKept, AgeCountsSilence, CheckedInTime
    <3>4. CASE ~mem.known
      BY <1>1, <3>1, <3>2, <3>4 DEF TimePasses, EntryKept, AgeCountsSilence, CheckedInTime
    <3> QED
      BY <3>3, <3>4
  <2> QED
    BY <1>1, <2>2, <2>3, Parts, Untouched DEF TimePasses
<1>2. CASE Restart
  <2>1. RequestsTyped'
    BY <1>0, <1>2 DEF Restart, RequestsTyped, NoRequest, Answers
  <2>2. StoreTyped'
    <3>1. Old \in 0 .. Old
      BY DEF Old
    <3> QED
      BY <1>0, <1>2, <3>1 DEF Restart, StoreTyped, Deleted
  <2>3. EntryKept'
    <3>1. CASE mem' = NoEntry /\ UNCHANGED heard
      BY <1>0, <1>2, <3>1, EntryHeard, EntryForgotten DEF Restart, EntryKept
    <3>2. CASE store.used /\ Alive /\ mem' = Entry /\ heard' = store.beat
      <4>1. store.beat \in 0 .. Restored
        BY <1>0, <1>2, <3>2 DEF Alive, StoreTyped, Restored, Restart
      <4> QED
        BY <1>2, <3>2, <4>1, EntryHeard DEF Restart
    <3> QED
      BY <1>2, <3>1, <3>2 DEF Restart
  <2> QED
    BY <1>2, <2>1, <2>2, <2>3, Parts, Untouched DEF Restart
<1> QED
  BY <1>1, <1>2

\* A manager that was given a store keeps it, with what it wrote and deleted in it.
LEMMA StoreStays == ASSUME IInv, [Next]_vars PROVE Steady
<1>1. store'.used = store.used
  <2> USE DEF IInv, TypeOK, Saved, Touched, Deleted, Stored, NotStored
  <2>1. CASE UNCHANGED store
    BY <2>1
  <2>2. CASE store' # store
    <3>1. CASE \E r \in Requests : Handle(r)
      BY <2>2, <3>1 DEF Handle, Register, RegisterKnown, Heartbeat, HeartbeatStored, Unregisters, UnregisterStored
    <3>2. CASE HealthCheck
      BY <2>2, <3>2 DEF HealthCheck, Look, MarkUnhealthy, RemoveStale, RemoveStored
    <3>3. CASE TimePasses \/ Restart
      BY <2>2, <3>3 DEF TimePasses, Restart
    <3>4. ~Start /\ ~Beat /\ ~Stop /\ ~Unregister /\ ~RelayDies /\ ~ForceUnregister /\ ~UNCHANGED vars
      BY <2>2 DEF Start, Beat, Stop, Unregister, RelayDies, ForceUnregister, vars
    <3>5. \A r \in Requests : ~Hear(r)
      BY <2>2 DEF Hear, Started, Beaten, Unregistered
    <3> QED
      BY <3>1, <3>2, <3>3, <3>4, <3>5 DEF Next
  <2> QED
    BY <2>1, <2>2
<1> QED
  BY <1>1, RegistrationAssumption DEF Steady, Restored

\* The invariant holds of every state of the system.
LEMMA Invariance == Spec => []IInv
<1>1. Init => IInv
  <2>1. Old \in 0 .. Old /\ 0 \in 0 .. Old /\ 0 \in 0 .. MaxFaults
    BY RegistrationAssumption DEF Old
  <2>2. ASSUME Init PROVE store \in [used : BOOLEAN, info : BOOLEAN, beat : 0 .. Old]
    <3>1. PICK u \in BOOLEAN : store = [used |-> u, info |-> FALSE, beat |-> Old]
      BY <2>2 DEF Init
    <3> QED
      BY <2>1, <3>1
  <2>3. ASSUME Init
        PROVE  request \in [Requests -> [asks : {"nothing", "register", "heartbeat", "unregister"},
                                         at : {"none", "sent", "saved", "taken", "forgotten"} \cup Answers,
                                         for : {"nobody", "main", "loop"}]]
    BY <2>3 DEF Init, NoRequest
  <2>4. ASSUME Init PROVE /\ mem \in [known : BOOLEAN, age : 0 .. Old, healthy : BOOLEAN]
                          /\ AgeCountsSilence /\ CheckedInTime
    BY <2>1, <2>4 DEF Init, NoEntry, AgeCountsSilence, CheckedInTime
  <2> QED
    BY <2>1, <2>2, <2>3, <2>4 DEF Init, IInv, TypeOK
<1>2. IInv /\ [Next]_vars => IInv'
  <2>1. CASE UNCHANGED vars
    BY <2>1, StoreStays, Parts, Untouched DEF vars
  <2> QED
    BY <2>1, StoreStays, RelayKept, HandlerKept, CheckKept, TimeKept DEF Next
<1> QED
  BY <1>1, <1>2, PTL DEF Spec

(***************************************************************************)
(* What follows for those who ask for a relay.                             *)
(***************************************************************************)
\* A relay that is given sessions was heard of not long ago, through restarts
\* of the control plane, late requests, and a health check that looks and acts
\* in different moments.
THEOREM RegistrationInvariant == Spec => []RegistrationInv
<1>1. IInv => RegistrationInv
  BY RegistrationAssumption DEF IInv, RegistrationInv, TypeOK, HealthyIsRecent, AgeCountsSilence, CheckedInTime, Restored, Old
<1> QED
  BY <1>1, Invariance, PTL
=============================================================================
