---------------------------- MODULE BridgeControl ----------------------------
(***************************************************************************)
(* The control loop of the bridge, bridge/bridge_main.cpp, with the        *)
(* decisions of shared/scene_demand.hpp and shared/companion_control.hpp.  *)
(*                                                                         *)
(* One thread polls the companion's mailbox and the flight session, and    *)
(* brings three others to a common setup: the camera probe (a receipt for  *)
(* a token), the telemetry worker (a selected aircraft profile) and the    *)
(* GPU session (a generation).  Companion, simulator and observer move     *)
(* between any two steps of a round; a round is cut where the thread       *)
(* samples the others again.                                               *)
(*                                                                         *)
(* probe is what SceneSession promises of the probe; flight.phase is what  *)
(* AircraftSession reports.  A settled pair stays owned through Disconnect *)
(* and OFF; only another flight or profile makes the setup a full reset.   *)
(***************************************************************************)
EXTENDS Naturals

CONSTANTS
  Profiles,       \* aircraft profiles, positive numbers
  MaxEpoch,       \* bound of the model: flight sessions
  MaxChanges      \* bound of the model: what the companion does, and what
                  \* goes wrong in the bridge's calls, together

VARIABLES
  mailbox,        \* what the companion wrote last
  flight,         \* the flight session and the telemetry adapter
  probe,          \* the camera probe behind its mailbox
  gpu,            \* the device's scene session
  connection,     \* CompanionSetupSession
  setup,          \* the transition under way
  applied,        \* the setup it last completed
  scene,          \* requested, failed, and the outputs
  prewarm,        \* ScenePrewarm
  round,          \* where the loop is, and what it sampled: the copy of the
                  \* mailbox (CompanionControl), the flight, its own setup
  changes

vars == <<mailbox, flight, probe, gpu, connection, setup, applied, scene, prewarm, round, changes>>
bridge == <<gpu, connection, setup, applied, scene, prewarm, round>>

(* What the constants are assumed to be; the runs evaluate it.             *)
ControlAssumption == Profiles \subseteq Nat \ {0} /\ MaxEpoch \in Nat /\ MaxChanges \in Nat

Nobody  == [beat |-> FALSE, owner |-> 0, enabled |-> FALSE, request |-> 0, profile |-> 1, epoch |-> 0, want |-> FALSE]
NoSetup == [profile |-> 0, request |-> 0, epoch |-> 0, connection |-> 0]
Fresh   == [phase |-> "waiting", rendering |-> FALSE, over |-> {}]
Ended   == [Fresh EXCEPT !.phase = "ended"]   \* ready, timed_out, failed or foreground: no attempt is left
Top     == [pc |-> "top", control |-> Nobody, epoch |-> 0, ready |-> FALSE, owner |-> 0, background |-> FALSE]
Closed  == [requested |-> FALSE, failed |-> FALSE, mask |-> FALSE, suspended |-> TRUE]

control == round.control
disturb == changes < MaxChanges /\ changes' = changes + 1
-----------------------------------------------------------------------------
(* The companion: Connect, Disconnect, the end of its heartbeat, a new     *)
(* process, the preview, and the epoch, which every round publishes.       *)
connects ==
  /\ disturb
  /\ \E p \in Profiles :
       mailbox' = [mailbox EXCEPT !.enabled = TRUE, !.profile = p, !.request = @ + 1]
  /\ UNCHANGED <<flight, probe, bridge>>

disconnects ==
  /\ disturb /\ mailbox.enabled
  /\ mailbox' = [mailbox EXCEPT !.enabled = FALSE]
  /\ UNCHANGED <<flight, probe, bridge>>

dies ==
  /\ disturb /\ mailbox.beat
  /\ mailbox' = [mailbox EXCEPT !.beat = FALSE]
  /\ UNCHANGED <<flight, probe, bridge>>

restarts ==
  /\ disturb
  /\ mailbox' = [mailbox EXCEPT !.beat = TRUE, !.owner = @ + 1, !.want = FALSE]
  /\ UNCHANGED <<flight, probe, bridge>>

toggles ==
  /\ disturb
  /\ mailbox' = [mailbox EXCEPT !.want = ~@]
  /\ UNCHANGED <<flight, probe, bridge>>

acknowledges ==
  /\ mailbox.epoch # flight.epoch
  /\ mailbox' = [mailbox EXCEPT !.epoch = flight.epoch]
  /\ UNCHANGED <<flight, probe, bridge, changes>>
-----------------------------------------------------------------------------
(* The flight.  A load changes the epoch as it begins; an invalid world is *)
(* announced first and counted by the worker later.                        *)
loading == flight.phase \in {"loading", "invalid", "revalidate"}
ready   == flight.phase = "ready"

loads ==
  /\ flight.epoch < MaxEpoch /\ flight.phase \in {"ready", "settling"}
  /\ \E p \in Profiles : flight' = [flight EXCEPT !.phase = "loading", !.epoch = @ + 1, !.craft = p]
  /\ UNCHANGED <<mailbox, probe, bridge, changes>>

loses_world ==
  /\ flight.epoch < MaxEpoch /\ flight.phase = "ready"
  /\ flight' = [flight EXCEPT !.phase = "invalid"]
  /\ UNCHANGED <<mailbox, probe, bridge, changes>>

gap ==
  /\ disturb /\ ready
  /\ flight' = [flight EXCEPT !.phase = "settling"]
  /\ UNCHANGED <<mailbox, probe, bridge>>

service_world_invalidation ==
  /\ flight.phase = "invalid"
  /\ flight' = [flight EXCEPT !.phase = "revalidate", !.epoch = @ + 1]
  /\ UNCHANGED <<mailbox, probe, bridge, changes>>

settles ==
  /\ flight.phase \in {"loading", "revalidate", "settling"}
  /\ flight' = [flight EXCEPT !.phase = IF @ = "loading" THEN "settling" ELSE "ready"]
  /\ UNCHANGED <<mailbox, probe, bridge, changes>>

(* select_aircraft_profile: the samples of the selected adapter are void.  *)
selectable == flight.phase # "loading"
Selected(p) == [flight EXCEPT !.selected = p, !.phase = IF @ = "ready" THEN "settling" ELSE @]
matches_profile == ready /\ flight.craft = flight.selected
-----------------------------------------------------------------------------
(* The probe.  A token says whose request the last one was.  An observer   *)
(* that never ran leaves nothing to wait for.                              *)
Reset(p, whose, id) == [p EXCEPT !.token = whose, !.id = id, !.kind = "reset",
                                 !.state = IF p.enabled THEN "pending" ELSE "ready"]

request_scene_session_reset(id) == Reset(probe, "loop", id)

request_scene_profile_transition(id) ==
  IF probe.kind = "reset" THEN Reset(probe, "loop", id)
  ELSE [probe EXCEPT !.token = "loop", !.id = id, !.kind = "hold", !.state = IF probe.pair THEN "pending" ELSE "ready"]

observer_resets ==
  /\ probe.enabled /\ probe.kind # "reset"
  /\ loading \/ (probe.pair /\ probe.authorised # flight.epoch)
  /\ probe' = Reset(probe, "observer", probe.id)
  /\ UNCHANGED <<mailbox, flight, bridge, changes>>

observer_acknowledges ==
  /\ probe.state = "pending"
  /\ \/ /\ probe.kind = "reset" /\ (probe.pair => ready)
        /\ probe' = [probe EXCEPT !.state = "ready", !.pair = FALSE]
        /\ UNCHANGED changes
     \/ /\ probe.kind = "hold"
        /\ probe' = [probe EXCEPT !.state = "ready"]
        /\ UNCHANGED changes
     \/ /\ probe.kind = "hold" /\ disturb        \* the pair is not the one that was held
        /\ probe' = [probe EXCEPT !.state = "failed"]
  /\ UNCHANGED <<mailbox, flight, bridge>>

(* request_scene_test: accepted, refused, or deferred for readiness.       *)
startable == ready /\ (probe.kind = "reset" => probe.state = "ready")
held == probe.kind = "hold" /\ probe.pair
Started == [probe EXCEPT !.enabled = TRUE, !.kind = "none", !.state = "none", !.pair = TRUE,
                         !.authorised = IF held THEN @ ELSE flight.epoch]
-----------------------------------------------------------------------------
(* CompanionControl::refresh: an abandoned or invalid message is nobody.   *)
(* Contention keeps the copy: that is to read before the companion wrote.  *)
refresh(copy) ==
  \/ copy = mailbox /\ UNCHANGED changes
  \/ copy = Nobody /\ disturb

connected(c) == c.beat

(* CompanionSetupSession::observe.  A generation is compared with the two  *)
(* the loop remembers, and may be used again when it remembers others.     *)
Unused == CHOOSE g \in 1..4 : g \notin {connection.generation, applied.connection, setup.pending.connection}

observe(c) ==
  LET active == connected(c) /\ c.enabled /\ c.owner # 0
      begun  == active /\ (~connection.active \/ c.owner # connection.owner \/ c.request # connection.request)
  IN [active |-> active, owner |-> c.owner, request |-> c.request,
      generation |-> IF begun THEN Unused ELSE connection.generation]

Wanted(c, gen, epoch) == [profile |-> c.profile, request |-> c.request, epoch |-> epoch, connection |-> gen]

(* The top of a round.                                                     *)
observe_companion(copy, next) ==
  /\ round.pc = "top"
  /\ connection' = observe(copy)
  /\ round' = [pc |-> next, control |-> copy, epoch |-> flight.epoch, ready |-> ready, owner |-> copy.owner,
               background |-> FALSE]

is_stopped == connection.active /\ ~connection'.active
must_change(wanted) == connection'.active /\ (setup.changing \/ wanted # applied)

(* Stop closes the output and leaves the pair held.                        *)
Unchanging(full, generation) ==
  [changing |-> FALSE, pending |-> NoSetup, full |-> full, token |-> "none", selected |-> FALSE, generation |-> generation]

stopped_SlipForgetsReset == Unchanging(FALSE, setup.generation)
stopped == Unchanging(setup.full, setup.generation)

stop_connection ==
  /\ \E copy \in {mailbox, Nobody} :
       /\ refresh(copy) /\ observe_companion(copy, "admit") /\ is_stopped
       /\ probe' = IF setup.full THEN probe
                   ELSE request_scene_profile_transition(IF applied.profile # 0 THEN applied.profile ELSE copy.profile)
  /\ setup' = stopped /\ scene' = Closed /\ prewarm' = Fresh
  /\ UNCHANGED <<mailbox, flight, gpu, applied>>

keep_setup ==
  /\ \E copy \in {mailbox, Nobody} :
       /\ refresh(copy) /\ observe_companion(copy, "admit")
       /\ ~is_stopped /\ ~must_change(Wanted(copy, connection'.generation, flight.epoch))
  /\ UNCHANGED <<mailbox, flight, probe, gpu, setup, applied, scene, prewarm>>

(* The beginning of a transition, or of the next one over it.  The loop    *)
(* renews prewarm only at the commit, but reads it no more before.         *)
full_reset_SlipLatestOnly(wanted) == applied.profile # 0 /\ (wanted.profile # applied.profile \/ wanted.epoch # applied.epoch)
full_reset(wanted) ==
  setup.full \/ (applied.profile # 0 /\ (wanted.profile # applied.profile \/ wanted.epoch # applied.epoch))

restart_due_SlipSameProfile(wanted) == ~setup.changing \/ wanted.profile # setup.pending.profile
restart_due(wanted) == ~setup.changing \/ wanted # setup.pending

reset_session(answers) ==       \* scene_runtime::reset_session, which may find no device
  [active |-> FALSE, generation |-> gpu.generation + (IF answers THEN 1 ELSE 0)]

Restarted(wanted, full) == [Unchanging(full, setup.generation) EXCEPT !.changing = TRUE, !.pending = wanted]

begin_transition ==
  /\ observe_companion(mailbox, "await")
  /\ LET wanted  == Wanted(mailbox, connection'.generation, flight.epoch)
         restart == restart_due(wanted)
         full    == IF restart THEN full_reset(wanted) ELSE setup.full
     IN  /\ must_change(wanted)
         /\ \E answers \in BOOLEAN :
              LET resets == full /\ (restart \/ setup.generation = 0)
                  begun  == IF restart THEN Restarted(wanted, full) ELSE setup
              IN  /\ resets \/ answers
                  /\ answers \/ changes < MaxChanges
                  /\ gpu' = IF resets THEN reset_session(answers) ELSE gpu
                  /\ changes' = IF answers THEN changes ELSE changes + 1
                  /\ setup' = [begun EXCEPT !.token = "loop",
                                           !.generation = IF resets THEN (IF answers THEN gpu'.generation ELSE 0) ELSE @]
                  /\ probe' = IF begun.token # "none" THEN probe
                              ELSE IF full THEN request_scene_session_reset(wanted.profile)
                              ELSE request_scene_profile_transition(wanted.profile)
         /\ scene' = IF restart THEN Closed ELSE [scene EXCEPT !.suspended = TRUE]
         /\ prewarm' = Fresh
  /\ UNCHANGED <<mailbox, flight, applied>>

(* The three acknowledgements, and the commit.  What is not ready yet ends *)
(* the round.                                                              *)
receipt == setup.token # "none" /\ probe.token = setup.token /\ probe.id = setup.pending.profile /\ probe.state = "ready"

public_ready(f) == f.phase = "ready" /\ f.epoch = setup.pending.epoch

resume_session == setup.full => setup.generation # 0 /\ gpu.generation = setup.generation

await_transition ==
  /\ round.pc = "await"
  /\ \/ /\ receipt /\ ~setup.selected /\ selectable
        /\ flight' = Selected(setup.pending.profile)
        /\ setup' = [setup EXCEPT !.selected = TRUE]
        /\ UNCHANGED changes
     \/ /\ receipt /\ ~setup.selected /\ (selectable => disturb) /\ (~selectable => UNCHANGED changes)
        /\ UNCHANGED <<flight, setup>>               \* loading, or the worker did not stop
     \/ /\ receipt => setup.selected
        /\ ~(receipt /\ public_ready(flight) /\ resume_session)
        /\ UNCHANGED <<flight, setup, changes>>
  /\ round' = Top
  /\ UNCHANGED <<mailbox, probe, gpu, connection, applied, scene, prewarm>>

commit_transition ==
  /\ round.pc = "await"
  /\ receipt /\ setup.selected /\ public_ready(flight) /\ resume_session
  /\ gpu' = IF setup.full THEN [gpu EXCEPT !.active = TRUE] ELSE gpu
  /\ applied' = setup.pending
  /\ setup' = Unchanging(FALSE, 0)
  /\ round' = [round EXCEPT !.pc = "admit"]
  /\ UNCHANGED <<mailbox, flight, probe, connection, scene, prewarm, changes>>
-----------------------------------------------------------------------------
(* ScenePrewarm.  Its two budgets pass with the clock; observe only sees   *)
(* whether they have.                                                      *)
running(w) == w.phase \in {"preparing", "warming"}
pending(w) == running(w) \/ w.phase \in {"waiting", "paused"}
started(w) == pending(w) /\ w.phase # "waiting"

budget_passes ==
  /\ started(prewarm)
  /\ \E budget \in {"startup"} \cup (IF prewarm.rendering THEN {"warmup"} ELSE {}) :
       /\ budget \notin prewarm.over
       /\ prewarm' = [prewarm EXCEPT !.over = @ \cup {budget}]
  /\ UNCHANGED <<mailbox, flight, probe, gpu, connection, setup, applied, scene, round, changes>>

Attempt(w, eligible, progress, fails) ==
  LET rendering == w.rendering \/ progress # "none"
  IN  IF fails \/ "startup" \in w.over THEN Ended
      ELSE IF ~eligible THEN [w EXCEPT !.phase = "paused"]
      ELSE IF progress = "pairs" \/ "warmup" \in w.over THEN Ended
      ELSE [w EXCEPT !.rendering = rendering, !.phase = IF rendering THEN "warming" ELSE "preparing"]

Observed_SlipPauseStopsTheClock(w, eligible, foreground, progress, fails) ==
  IF foreground THEN (IF pending(w) THEN Ended ELSE w)
  ELSE IF ~pending(w) \/ (w.phase = "waiting" /\ (~eligible \/ fails)) THEN w
  ELSE IF ~eligible THEN [w EXCEPT !.phase = "paused"]
  ELSE Attempt(w, eligible, progress, fails)

Observed(w, eligible, foreground, progress, fails) ==
  IF foreground THEN (IF pending(w) THEN Ended ELSE w)
  ELSE IF ~pending(w) \/ (w.phase = "waiting" /\ (~eligible \/ fails)) THEN w
  ELSE Attempt(w, eligible, progress, fails)

(* scene_demand.                                                           *)
scene_demand(mask, s, warm) ==
  LET wanted == mask \/ warm
  IN  [start |-> wanted /\ ~s.requested /\ ~s.failed, suspend |-> ~wanted \/ s.failed, mask |-> mask /\ ~s.failed]

setup_current_SlipSameFlight(c) == ready /\ flight.epoch = applied.epoch
setup_current(c) ==
  /\ ready /\ c.epoch = flight.epoch
  /\ connected(c) /\ c.enabled /\ c.owner = round.owner
  /\ Wanted(c, connection.generation, flight.epoch) = applied

(* The admission of demand: buttons, previews and the cut-off are want.    *)
admitted == connected(control) /\ control.epoch = round.epoch /\ round.ready /\ control.enabled /\ matches_profile /\ control.want

admit ==
  /\ round.pc = "admit"
  /\ LET mask    == admitted
         settled == [scene EXCEPT !.failed = @ /\ (mask \/ running(prewarm))]
     IN  \E suitable \in BOOLEAN, progress \in {"none", "views", "pairs"}, fails \in BOOLEAN :
           /\ progress # "none" => scene.requested /\ probe.pair
           /\ suitable => setup_current(control) /\ matches_profile
           /\ settled.failed => fails
           /\ prewarm' = Observed(prewarm, suitable, mask, progress, fails)
           /\ LET demand == scene_demand(mask, settled, running(prewarm'))
              IN  /\ scene' = [settled EXCEPT !.mask = demand.mask, !.suspended = demand.suspend]
                  /\ round' = IF demand.start THEN [round EXCEPT !.pc = "prepare", !.background = running(prewarm')]
                              ELSE Top
  /\ UNCHANGED <<mailbox, flight, probe, gpu, connection, setup, applied, changes>>

(* A start: after the preparation the companion is read again, and the     *)
(* exact setup checked, before anything is asked of the probe.             *)
closes == scene' = [scene EXCEPT !.mask = FALSE, !.suspended = TRUE]

prepare_again ==                                  \* a deferred background start waits for its turn
  /\ round.pc = "prepare" /\ round.background
  /\ round' = Top
  /\ UNCHANGED <<mailbox, flight, probe, gpu, connection, setup, applied, scene, prewarm, changes>>

(* finish_scene_start: only a foreground start can latch the failure.      *)
finish_SlipBackgroundLatches(w) == [prewarm |-> w, failed |-> TRUE]
finish(w) == [prewarm |-> IF round.background /\ running(w) THEN Ended ELSE w,
              failed  |-> ~round.background]

refused(w) ==
  /\ prewarm' = finish(w).prewarm
  /\ scene' = [scene EXCEPT !.failed = finish(w).failed, !.mask = FALSE, !.suspended = TRUE]

prepare ==
  /\ round.pc = "prepare"
  /\ \E copy \in {mailbox, Nobody}, suitable \in BOOLEAN, prepared \in BOOLEAN :
       /\ refresh(copy)
       /\ suitable => matches_profile
       /\ LET w == IF round.background THEN Observed(prewarm, suitable, FALSE, "none", ~prepared) ELSE prewarm
          IN  IF ~setup_current(copy)
              THEN closes /\ round' = Top /\ UNCHANGED prewarm
              ELSE IF prepared /\ (round.background => running(w))
              THEN round' = [round EXCEPT !.pc = "request", !.control = copy] /\ prewarm' = w /\ UNCHANGED scene
              ELSE refused(w) /\ round' = Top
  /\ UNCHANGED <<mailbox, flight, probe, gpu, connection, setup, applied>>

request_scene_test ==
  /\ round.pc = "request"
  /\ \/ /\ startable /\ ~(probe.kind = "hold" /\ probe.pair /\ probe.state # "ready")
        /\ probe' = Started
        /\ scene' = [scene EXCEPT !.requested = TRUE, !.failed = FALSE]
        /\ UNCHANGED <<prewarm, changes>>
     \/ /\ \/ /\ ~startable \/ (held /\ probe.state # "ready")
              /\ UNCHANGED changes
           \/ startable /\ disturb                   \* a contract was refused
        /\ IF ~startable /\ round.background
           THEN closes /\ UNCHANGED prewarm
           ELSE refused(prewarm)
        /\ UNCHANGED probe
  /\ round' = Top
  /\ UNCHANGED <<mailbox, flight, gpu, connection, setup, applied>>
-----------------------------------------------------------------------------
Init ==
  /\ \E want \in BOOLEAN : mailbox = [Nobody EXCEPT !.beat = TRUE, !.owner = 1, !.enabled = TRUE, !.want = want]
  /\ flight = [phase |-> "ready", epoch |-> 0, craft |-> 1, selected |-> 1]
  /\ probe = [enabled |-> FALSE, token |-> "none", id |-> 1, kind |-> "none", state |-> "none", pair |-> FALSE, authorised |-> 0]
  /\ gpu = [active |-> TRUE, generation |-> 1]
  /\ connection = [active |-> FALSE, owner |-> 0, request |-> 0, generation |-> 0]
  /\ setup = Unchanging(FALSE, 0)
  /\ applied = NoSetup
  /\ scene = Closed /\ prewarm = Fresh
  /\ round = Top
  /\ changes = 0

companion == connects \/ disconnects \/ dies \/ restarts \/ toggles \/ acknowledges
simulator == loads \/ loses_world \/ gap \/ service_world_invalidation \/ settles
observer  == observer_resets \/ observer_acknowledges
run_impl  == \/ stop_connection \/ keep_setup \/ begin_transition \/ await_transition \/ commit_transition
             \/ admit \/ prepare_again \/ prepare \/ request_scene_test

Next == companion \/ simulator \/ observer \/ budget_passes \/ run_impl

(* The loop polls every 25 ms; the simulator runs updates and finishes its *)
(* loads; the clock passes; a companion that lives answers the status.  An *)
(* enabled start is tried: a deferred one for lack of time only so often.  *)
Fairness ==
  /\ WF_vars(run_impl) /\ WF_vars(observer) /\ WF_vars(budget_passes) /\ WF_vars(acknowledges)
  /\ WF_vars(service_world_invalidation \/ settles)

Spec == Init /\ [][Next]_vars /\ Fairness
-----------------------------------------------------------------------------
(* Every variable has its type.                                            *)
Setups == [profile : Profiles \cup {0}, request : Nat, epoch : 0..MaxEpoch, connection : Nat]
TypeOK ==
  /\ {mailbox, round.control} \subseteq [beat : BOOLEAN, owner : Nat, enabled : BOOLEAN, request : Nat,
                                  profile : Profiles, epoch : 0..MaxEpoch, want : BOOLEAN]
  /\ flight \in [phase : {"loading", "invalid", "revalidate", "settling", "ready"},
                 epoch : 0..MaxEpoch, craft : Profiles, selected : Profiles]
  /\ probe \in [enabled : BOOLEAN, token : {"none", "loop", "observer"}, id : Profiles, kind : {"none", "reset", "hold"},
                state : {"none", "pending", "ready", "failed"}, pair : BOOLEAN, authorised : 0..MaxEpoch]
  /\ gpu \in [active : BOOLEAN, generation : Nat]
  /\ applied \in Setups /\ setup.pending \in Setups
  /\ prewarm \in [phase : {"waiting", "preparing", "warming", "paused", "ended"}, rendering : BOOLEAN,
                  over : SUBSET {"startup", "warmup"}]
  /\ changes \in 0..MaxChanges

(* A GPU session that was stopped is owed a full reset, over Stop, another *)
(* Connect and a profile switched there and back; and the generation to    *)
(* resume is the one of the last stop (bridge_main.cpp:176, :226).         *)
ResetIsOwed ==
  /\ ~gpu.active => setup.full
  /\ setup.generation \in {0, gpu.generation}

(* Whatever the loop lets through - a stamped display, a start, a scene it *)
(* believes requested - goes to a telemetry adapter, a probe and a GPU     *)
(* session that were all brought to the profile it applied.                *)
OneSetup ==
  scene.mask \/ scene.requested \/ round.pc \in {"prepare", "request"} =>
    /\ gpu.active /\ ~setup.full
    /\ applied.profile # 0 /\ flight.selected = applied.profile /\ probe.id = applied.profile

(* Between Connect and demand stands the whole setup, over every way a    *)
(* transition can be cut short (bridge_main.cpp:161, :176, :226).          *)
SetupSafety == TypeOK /\ ResetIsOwed /\ OneSetup

(* A start is only asked for while the companion read after preparing is   *)
(* the one whose setup was applied, and it never latches a failure that    *)
(* the pilot did not ask for (scene_demand.hpp:122).                       *)
StartsAreWanted ==
  [][/\ probe.pair' /\ ~scene.requested /\ scene'.requested =>
          control.enabled /\ control.owner = connection.owner /\ control.request = applied.request
     /\ scene'.failed /\ ~scene.failed => scene.mask \/ ~round.background]_vars

(* When companion and flight leave the loop alone, it ends up with what    *)
(* they ask, unless the probe refuses the pair it holds: no receipt the    *)
(* observer replaced is awaited for ever (bridge_main.cpp:226).            *)
Settled == ~setup.changing /\ applied = Wanted(mailbox, connection.generation, flight.epoch)
SetupSettles ==
  []<>(~mailbox.beat \/ ~mailbox.enabled \/ probe.state = "failed" \/ Settled)

(* A warm-up that began ends: neither a pause nor a start deferred again   *)
(* and again gives it more time (scene_demand.hpp:85).                     *)
WarmupEnds == started(prewarm) ~> ~started(prewarm)
=============================================================================
