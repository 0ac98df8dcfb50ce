--------------------------- MODULE AircraftSession --------------------------
(***************************************************************************)
(* When the program may believe what it knows of the flight:               *)
(* camera/aircraft_identity.hpp and camera/body_pose_provider.cpp.         *)
(*                                                                         *)
(* A worker reads one SimConnect connection: lifecycle events, the body    *)
(* stream, camera replies, and polls of the aircraft's type and path.      *)
(* Flights are loaded, teleported and ended while packets are queued.  The *)
(* worker counts flight sessions in an epoch and drops every cached sample *)
(* at each boundary; the camera thread reports an invalid world and        *)
(* calibrates; the control thread selects profiles and reopens the         *)
(* connection.  Everything under the cache lock is one step.               *)
(*                                                                         *)
(* A sample is the world it was taken in, whether that world was being     *)
(* flown, and its aircraft; its age is kept as being fresh or not.  The    *)
(* simulator, as the worker sees it, announces a change of the world       *)
(* before it answers from the new one.  With Lossless, nothing is          *)
(* announced to a connection that is closed or about to close.             *)
(*                                                                         *)
(* observed is history: the epoch and the world of the last readiness      *)
(* somebody acted on.                                                      *)
(***************************************************************************)
EXTENDS Naturals, Sequences, SequencesExt

CONSTANTS
  Crafts,        \* aircraft, all of them supported
  NoCraft,
  Distinct,      \* 3: camera samples that make a calibration
  MaxChanges,    \* bound of the model: disturbances of the simulator
  MaxQueued,     \* bound of the model: packets waiting, one event beyond it
  MaxPolls,      \* bound of the model: identity polls that can be told apart
  Lossless       \* whether lifecycle events always reach the worker

(* What the constants are assumed to be; the runs evaluate it.             *)
SessionAssumption ==
  /\ NoCraft \notin Crafts /\ Lossless \in BOOLEAN
  /\ Distinct \in Nat \ {0} /\ MaxChanges \in Nat /\ MaxQueued \in Nat /\ MaxPolls \in Nat

VARIABLES
  sim,          \* the simulator: world, what it is busy with, aircraft, running
  asked,        \* identity requests not answered yet
  inbox,        \* packets the worker has not dispatched
  link,         \* the worker's connection: open, closing or closed
  stop,         \* whether the worker has been told to stop
  lifecycle,    \* AircraftSessionLifecycle
  identity,     \* AircraftIdentityCache
  body, camera, \* the cached samples
  invalid,      \* invalid_world: bits 1 and 2
  calibration,
  observed

sources == <<sim, asked>>
cache   == <<lifecycle, identity, body, camera, invalid, calibration>>
worker  == <<link, stop>>
vars    == <<sources, inbox, worker, cache, observed>>

Begins   == {"load", "teleport", "end"}      \* end: FLIGHT_END, BACK_TO_MAIN_MENU
NoSample == [world |-> 0, flying |-> FALSE, craft |-> NoCraft]
Current  == [world |-> sim.world, flying |-> sim.busy = {}, craft |-> sim.craft]
NoIdentity == [poll |-> 0, type |-> NoCraft, path |-> NoCraft,
               value |-> <<NoCraft, NoCraft>>, fresh |-> FALSE]
NoCalibration == [samples |-> 0, counted |-> FALSE, candidate |-> 0, done |-> FALSE, world |-> 0]
Packet(kind, poll, what) == [kind |-> kind, poll |-> poll, what |-> what]
Event(name) == Packet("event", 0, name)
Events == {i \in DOMAIN inbox : inbox[i].kind = "event"}
-----------------------------------------------------------------------------
(* The cache.  Definitions named ..._Slip are plausible mistakes in the    *)
(* definition that follows; no action uses them.                           *)
running(life) == ~life.known \/ life.running
loading(life) == life.pending # {}

changed(life) == [life EXCEPT !.epoch = @ + 1]

(* accept: the lifecycle after a packet, and whether samples are void.     *)
Flow_SlipSilentCompletion(life, began, ended) ==
  LET pending == (life.pending \cup began) \ ended
      next    == [life EXCEPT !.pending = pending]
  IN [life    |-> IF began # {} /\ ~loading(life) THEN changed(next) ELSE next,
      invalid |-> began # {} /\ ~loading(life)]

Flow_SlipLoadsOnly(life, began, ended) ==
  LET pending == (life.pending \cup began) \ ended
      next    == [life EXCEPT !.pending = pending]
  IN [life    |-> IF began = {"load"} /\ ~loading(life) THEN changed(next) ELSE next,
      invalid |-> pending # life.pending]

Flow(life, began, ended) ==
  LET pending == (life.pending \cup began) \ ended
      next    == [life EXCEPT !.pending = pending]
  IN [life    |-> IF began # {} /\ ~loading(life) THEN changed(next) ELSE next,
      invalid |-> pending # life.pending]

SimState(life, on) ==
  LET turned == life.known /\ life.running # on /\ ~loading(life)
      next   == [life EXCEPT !.known = TRUE, !.running = on]
  IN [life |-> IF turned THEN changed(next) ELSE next, invalid |-> turned]

Loaded(life) ==
  IF loading(life) THEN [life |-> life, invalid |-> FALSE]
                   ELSE [life |-> changed(life), invalid |-> TRUE]

Accepted(life, event) ==
  CASE event[1] = "begin"  -> Flow(life, {event[2]}, {})
    [] event[1] = "done"   -> Flow(life, {}, {event[2]})
    [] event[1] = "sim"    -> SimState(life, event[2])
    [] event[1] = "loaded" -> Loaded(life)

reset_session_locked_SlipKeepsCalibration ==
  /\ identity' = NoIdentity /\ body' = NoSample /\ camera' = NoSample
  /\ UNCHANGED calibration

reset_session_locked ==
  /\ identity' = NoIdentity /\ body' = NoSample /\ camera' = NoSample
  /\ calibration' = NoCalibration

Telemetry == identity.fresh /\ body # NoSample /\ camera # NoSample

Ready == ~loading(lifecycle) /\ running(lifecycle) /\ 1 \notin invalid /\ Telemetry

(* readiness_locked also takes a serviced world back into service.         *)
Revalidated(ready) == IF ready THEN {} ELSE invalid
-----------------------------------------------------------------------------
(* The simulator and SimConnect.  An event is announced with the change.   *)
Connected == link = "open"
Announced == ~Lossless \/ (Connected /\ ~stop /\ Len(inbox) <= MaxQueued)
Announce(event) ==
  /\ Announced
  /\ inbox' = IF Connected THEN Append(inbox, Event(event)) ELSE inbox

Disturb(next) ==
  /\ sim.changes < MaxChanges
  /\ sim' = [next EXCEPT !.changes = @ + 1]

(* Any begin event changes the world; a teleport keeps the aircraft.       *)
Begin(kind) ==
  /\ kind \notin sim.busy
  /\ \E craft \in IF kind = "teleport" THEN {sim.craft} ELSE Crafts :
       Disturb([sim EXCEPT !.busy = @ \cup {kind}, !.world = @ + 1, !.craft = craft])
  /\ Announce(<<"begin", kind>>)
  /\ UNCHANGED <<asked, worker, cache, observed>>

Complete(kind) ==
  /\ kind \in sim.busy
  /\ sim' = [sim EXCEPT !.busy = @ \ {kind}]
  /\ Announce(<<"done", kind>>)
  /\ UNCHANGED <<asked, worker, cache, observed>>

(* An aircraft replaced with no flow event around it.                      *)
Replace ==
  /\ \E craft \in Crafts : Disturb([sim EXCEPT !.world = @ + 1, !.craft = craft])
  /\ Announce(<<"loaded", 0>>)
  /\ UNCHANGED <<asked, worker, cache, observed>>

Toggle ==
  /\ Disturb([sim EXCEPT !.running = ~@])
  /\ Announce(<<"sim", ~sim.running>>)
  /\ UNCHANGED <<asked, worker, cache, observed>>

Arrive(packet) ==
  /\ Connected /\ Len(inbox) < MaxQueued
  /\ inbox' = Append(inbox, packet)
  /\ UNCHANGED <<sim, worker, cache, observed>>

(* A frame of the body stream, an answer to CameraGet: values that make no *)
(* sense come from worlds that are not flown.                              *)
Stream == /\ \/ Arrive(Packet("body", 0, Current))
             \/ sim.busy # {} /\ Arrive(Packet("body", 0, NoSample))
          /\ UNCHANGED asked
CameraReply == /\ \/ Arrive(Packet("camera", 0, Current))
                  \/ sim.busy # {} /\ Arrive(Packet("camera", 0, NoSample))
               /\ UNCHANGED asked

Answer(request) ==
  /\ asked' = asked \ {request}
  /\ Arrive(Packet(request[1], request[2], sim.craft))
-----------------------------------------------------------------------------
(* The worker.                                                             *)
Used == {identity.poll} \cup {r[2] : r \in asked} \cup {inbox[i].poll : i \in DOMAIN inbox}

(* Polls are a second apart: the model starts the next one with at most    *)
(* one answer to the last still missing.                                   *)
begin_request ==
  /\ Connected /\ \A q, r \in asked : q = r
  /\ \E n \in 1..MaxPolls \ Used :
       /\ identity' = [identity EXCEPT !.poll = n, !.type = NoCraft, !.path = NoCraft]
       /\ asked' = asked \cup {<<"type", n>>, <<"path", n>>}
  /\ UNCHANGED <<sim, inbox, worker, lifecycle, body, camera, invalid, calibration, observed>>

(* invalid_world: bit 1 reports, bit 2 says the report has been serviced.  *)
service_world_invalidation(bits) ==
  IF 1 \in bits
  THEN /\ invalid' = {2}
       /\ lifecycle' = IF 2 \in bits \/ loading(lifecycle) THEN lifecycle ELSE changed(lifecycle)
       /\ reset_session_locked
  ELSE /\ invalid' = bits
       /\ UNCHANGED <<lifecycle, identity, body, camera, calibration>>

service ==
  /\ Connected /\ 1 \in invalid
  /\ service_world_invalidation(invalid)
  /\ UNCHANGED <<sources, inbox, worker, observed>>

Dispatch(kinds) == Connected /\ inbox # <<>> /\ Head(inbox).kind \in kinds /\ inbox' = Tail(inbox)

(* Void samples of a session that can fly on end the connection, and what  *)
(* is still queued is discarded with it.                                   *)
Link(void, life) ==
  link' = IF void /\ running(life) /\ ~loading(life) THEN "closing" ELSE link

accept_session_packet ==
  /\ Dispatch({"event"})
  /\ LET result == Accepted(lifecycle, Head(inbox).what)
     IN /\ lifecycle' = result.life
        /\ IF result.invalid \/ ~running(result.life) THEN reset_session_locked
           ELSE UNCHANGED <<identity, body, camera, calibration>>
        /\ Link(result.invalid, result.life)
  /\ UNCHANGED <<sources, stop, invalid, observed>>

(* The answers of a poll are taken together or not at all.                 *)
Polled(packet) ==
  IF packet.poll # identity.poll THEN identity
  ELSE [identity EXCEPT !.type = IF packet.kind = "type" THEN packet.what ELSE @,
                        !.path = IF packet.kind = "path" THEN packet.what ELSE @]

accept_identity_packet ==
  /\ Dispatch({"type", "path"})
  /\ LET pending == Polled(Head(inbox))
         both    == pending.type # NoCraft /\ pending.path # NoCraft
         value   == <<pending.type, pending.path>>
         turned  == both /\ identity.value[1] # NoCraft /\ value # identity.value
     IN IF turned
        THEN /\ lifecycle' = changed(lifecycle)
             /\ reset_session_locked
             /\ Link(TRUE, lifecycle)
        ELSE /\ identity' = IF both
                            THEN [pending EXCEPT !.type = NoCraft, !.path = NoCraft,
                                                 !.value = value, !.fresh = TRUE]
                            ELSE pending
             /\ UNCHANGED <<link, lifecycle, body, camera, calibration>>
  /\ UNCHANGED <<sources, stop, invalid, observed>>

accept_aircraft_packet ==
  /\ Dispatch({"body"})
  /\ body' = Head(inbox).what
  /\ camera' = IF Head(inbox).what = NoSample THEN NoSample ELSE camera
  /\ UNCHANGED <<sources, worker, lifecycle, identity, invalid, calibration, observed>>

accept_camera_packet ==
  /\ Dispatch({"camera"})
  /\ \/ /\ Head(inbox).what = NoSample
        /\ service_world_invalidation(invalid \cup {1})
     \/ /\ Head(inbox).what # NoSample
        /\ camera' = Head(inbox).what
        /\ calibration' = [calibration EXCEPT !.counted = FALSE]
        /\ UNCHANGED <<lifecycle, identity, body, invalid>>
  /\ UNCHANGED <<sources, worker, observed>>

(* The loop ends: the connection goes with everything queued.              *)
Close ==
  /\ asked' = {} /\ inbox' = <<>> /\ link' = "closed"
  /\ Lossless => Events = {}
  /\ UNCHANGED <<sim, stop, observed>>

close ==
  /\ link = "closing" \/ (Connected /\ stop)
  /\ Close /\ UNCHANGED cache

fault ==
  /\ Connected /\ Close
  /\ body' = NoSample /\ camera' = NoSample
  /\ UNCHANGED <<lifecycle, identity, invalid, calibration>>
-----------------------------------------------------------------------------
(* The control thread.                                                     *)
initialize_body_pose_provider ==
  /\ link = "closed" /\ link' = "open" /\ stop' = FALSE
  /\ UNCHANGED <<sources, inbox, cache, observed>>

MaySelect == ~loading(lifecycle) /\ running(lifecycle)

select_same_profile ==
  /\ MaySelect /\ link # "closed" /\ ~stop
  /\ reset_session_locked
  /\ UNCHANGED <<sources, inbox, worker, lifecycle, invalid, observed>>

(* Another profile, or the end of the camera controller: the worker is     *)
(* told to stop and may finish its round; a later attempt finds it gone    *)
(* and clears the cache.                                                   *)
request_stop ==
  /\ link # "closed" /\ stop' = TRUE
  /\ UNCHANGED <<sources, inbox, link, cache, observed>>

stop_provider_locked ==
  /\ link = "closed"
  /\ reset_session_locked
  /\ UNCHANGED <<sources, inbox, worker, lifecycle, invalid, observed>>
-----------------------------------------------------------------------------
(* The camera thread and everybody who asks.                               *)
notify_invalid_camera_world ==
  /\ sim.busy # {} /\ invalid' = invalid \cup {1}
  /\ UNCHANGED <<sources, inbox, worker, lifecycle, identity, body, camera, calibration, observed>>

get_aircraft_session_readiness ==
  /\ Ready
  /\ invalid' = {}
  /\ observed' = [epoch |-> lifecycle.epoch, world |-> body.world]
  /\ UNCHANGED <<sources, inbox, worker, lifecycle, identity, body, camera, calibration>>

(* A private camera position that matches the public one is a position in  *)
(* the world of the public one.  Distinct camera samples in one place make *)
(* the correction.                                                         *)
calibrate_body_pose(recent, matches, stable) ==
  LET ready  == Ready /\ recent
      afresh == calibration.samples = 0 \/ ~stable
      count  == IF afresh THEN 1 ELSE IF calibration.samples < Distinct THEN calibration.samples + 1 ELSE Distinct
      place  == IF afresh THEN camera.world ELSE calibration.candidate
  IN /\ matches => ready
     /\ stable => calibration.candidate = camera.world
     /\ IF matches /\ ~calibration.counted
          THEN calibration' = [samples |-> count, counted |-> TRUE, candidate |-> place,
                               done  |-> calibration.done \/ count = Distinct,
                               world |-> IF count = Distinct THEN camera.world ELSE calibration.world]
        ELSE calibration' = [calibration EXCEPT !.samples = IF ready /\ ~matches THEN 0 ELSE @]
     /\ invalid' = Revalidated(Ready)
     /\ UNCHANGED <<sources, inbox, worker, lifecycle, identity, body, camera, observed>>

reset_body_pose_calibration ==
  /\ calibration' = NoCalibration
  /\ UNCHANGED <<sources, inbox, worker, lifecycle, identity, body, camera, invalid, observed>>

(* Samples grow old.                                                       *)
Expire ==
  /\ \/ body' = NoSample /\ body # NoSample /\ UNCHANGED <<camera, identity>>
     \/ camera' = NoSample /\ camera # NoSample /\ UNCHANGED <<body, identity>>
     \/ identity' = [identity EXCEPT !.fresh = FALSE] /\ identity.fresh /\ UNCHANGED <<body, camera>>
  /\ UNCHANGED <<sources, inbox, worker, lifecycle, invalid, calibration, observed>>
-----------------------------------------------------------------------------
Init ==
  /\ \E craft \in Crafts :
       sim = [world |-> 1, busy |-> {}, craft |-> craft, running |-> TRUE, changes |-> 0]
  /\ asked = {} /\ inbox = <<>> /\ link = "closed" /\ stop = FALSE
  /\ lifecycle = [epoch |-> 0, known |-> FALSE, running |-> FALSE, pending |-> {}]
  /\ identity = NoIdentity /\ body = NoSample /\ camera = NoSample
  /\ invalid = {} /\ calibration = NoCalibration
  /\ observed = [epoch |-> 0, world |-> 0]

Simulator ==
  \/ \E kind \in Begins : Begin(kind) \/ Complete(kind)
  \/ Replace \/ Toggle \/ Stream \/ CameraReply
  \/ \E request \in asked : Answer(request)

Worker ==
  \/ begin_request \/ service
  \/ accept_session_packet \/ accept_identity_packet
  \/ accept_aircraft_packet \/ accept_camera_packet
  \/ close \/ fault

Others ==
  \/ initialize_body_pose_provider \/ select_same_profile \/ request_stop \/ stop_provider_locked
  \/ notify_invalid_camera_world \/ get_aircraft_session_readiness
  \/ \E recent, matches, stable \in BOOLEAN : calibrate_body_pose(recent, matches, stable)
  \/ reset_body_pose_calibration \/ Expire

Next == Simulator \/ Worker \/ Others

Spec == Init /\ [][Next]_vars
-----------------------------------------------------------------------------
(* Readiness is about one flight: body and camera were sampled in the same *)
(* world, while it was flown, and type and path name its aircraft, however *)
(* polls, streams and events were interleaved.                             *)
SamplesAgree ==
  Ready => /\ body.world = camera.world /\ body.flying /\ camera.flying
           /\ identity.value = <<body.craft, body.craft>>

(* "Aircraft/profile changes and same-aircraft airport loads or teleports  *)
(* use a full flight-session reset": whoever saw the program ready in an   *)
(* epoch still sees the same world when it is ready in that epoch again.   *)
OneWorldPerEpoch ==
  Ready /\ observed.world # 0 /\ observed.epoch = lifecycle.epoch => observed.world = body.world

(* A pose handed to the cameras is corrected by a calibration made in the  *)
(* world the pose is of.                                                   *)
PoseIsCurrent ==
  ~loading(lifecycle) /\ invalid = {} /\ running(lifecycle) /\ body # NoSample /\ calibration.done
    => calibration.world = body.world

(* What the session never gets wrong, together.                            *)
AircraftSafety ==
  SamplesAgree /\ OneWorldPerEpoch /\ PoseIsCurrent
=============================================================================
