---------------------------- MODULE FrameService ----------------------------
(***************************************************************************)
(* From captured camera frames to the patches copied into the displays:    *)
(* graphics/scene_runtime, with graphics/scene_frame_output, for one       *)
(* device.  One lock covers the whole of service() and every other entry   *)
(* point here; the capture manager, the scene handoff and the GPU go on    *)
(* between its steps, which is why service has three.                      *)
(*                                                                         *)
(* A packet of the manager holds a frame.  Its order is the value of the   *)
(* timeline at which it was captured.  A composition is known by the       *)
(* orders of its two frames, a patch by the composition it was drawn from. *)
(* The calibration output has no camera images; what it signals on the     *)
(* timeline nobody here waits for, and is left out.                        *)
(***************************************************************************)
EXTENDS Naturals, FiniteSets

CONSTANTS
  Packets, Formats,
  Profiles,      \* aircraft profiles, each with patches of a shape of its own
  MaxCaptures,   \* bound of the model: captures
  MaxChanges     \* bound of the model: sessions, scenes, profiles, settings

(* What the constants are assumed to be; the runs evaluate it.             *)
FrameServiceAssumption ==
  /\ MaxCaptures \in Nat /\ MaxChanges \in Nat
  /\ Profiles # {} /\ Cardinality(Profiles \X Formats) <= 8

VARIABLES
  scene,                         \* epoch of the live scene, 0 for none
  packet, last_signal,           \* the manager's packets and timeline
  owner,                         \* the manager's device
  pc, incoming,                  \* service under way
  item,                          \* Device of the runtime
  pending, newest, committed,
  queue_config, queue_snapshot,
  patches,                       \* camera patches: what each buffer shows
  reading,                       \* packets the composition on the GPU reads
  composed,                      \* history: the last composition ever submitted
  captures, changes

runtime  == <<item, pending, newest, committed, queue_config, queue_snapshot, patches>>
bounds   == <<captures, changes>>
vars     == <<scene, packet, last_signal, owner, pc, incoming, runtime, reading, composed, bounds>>

Feeds   == {0, 1}
Keys    == Profiles \X Formats
Generations == 0..MaxChanges + 1

Empty     == [state |-> "free", feed |-> 0, order |-> 0, epoch |-> 0, session |-> 0, until |-> 0]
NoFrames  == [f \in Feeds |-> {}]
NoPair    == [f \in Feeds |-> 0]
NoConfig  == [generation |-> 0, camera |-> FALSE, format |-> CHOOSE x \in Formats : TRUE, profile |-> 0]
NoPatches == [generation |-> 0, profile |-> 0, camera |-> FALSE, shows |-> NoPair, calibration |-> FALSE]
NoMatch   == [f \in Feeds |-> [order |-> 0, epoch |-> 0, session |-> 0]]
-----------------------------------------------------------------------------
is_current(epoch) == epoch # 0 /\ epoch = scene
current_output    == item.session_active /\ item.output /\ \A f \in Feeds : is_current(committed[f].epoch)

(* The timeline stands before the composition that is on the GPU: what is  *)
(* queued after it waits for it, and the rest may have ended.              *)
done == IF item.busy # 0 THEN item.busy - 1 ELSE last_signal

(* The manager's finish_consumption: back once the timeline has passed v.  *)
Consume(table, set, v) ==
  [p \in Packets |-> IF p \in set /\ table[p].state = "leased"
                       THEN IF v <= done THEN Empty ELSE [table[p] EXCEPT !.state = "consuming", !.until = v]
                       ELSE table[p]]

discard_frame(set) == Consume(packet, set, last_signal)

Held == pending[0] \cup pending[1]

(* fail_device of the manager: nothing it has handed out comes back.       *)
Quarantined(table) ==
  [p \in Packets |-> IF table[p].state = "free" THEN table[p] ELSE [table[p] EXCEPT !.state = "quarantined"]]
-----------------------------------------------------------------------------
(* The manager, the GPU and the scene, on their own.  Captures and the GPU *)
(* are kept between the calls of service, whose steps they commute with,   *)
(* and nothing is captured for a device that failed.                       *)
capture(p, f) ==
  /\ pc = "idle" /\ ~item.failed
  /\ packet[p].state = "free" /\ owner.session_active /\ ~owner.failed /\ scene # 0
  /\ captures < MaxCaptures /\ captures' = captures + 1
  /\ last_signal' = last_signal + 1
  /\ packet' = [packet EXCEPT ![p] = [state |-> "recorded", feed |-> f, order |-> last_signal', epoch |-> scene,
                                      session |-> owner.generation, until |-> 0]]
  /\ UNCHANGED <<scene, owner, pc, incoming, runtime, reading, composed, changes>>

(* The recording is reset by the application, in any order.                *)
retire(p) ==
  /\ pc = "idle" /\ ~item.failed
  /\ packet[p].state = "recorded"
  /\ packet' = [packet EXCEPT ![p].state = "ready"]
  /\ UNCHANGED <<scene, last_signal, owner, pc, incoming, runtime, reading, composed, bounds>>

(* The GPU ends the composition, and all that was queued before it ends.   *)
finish_composition ==
  /\ pc = "idle" /\ item.busy # 0
  /\ item' = [item EXCEPT !.busy = 0] /\ reading' = {}
  /\ packet' = [p \in Packets |->
                  IF packet[p].state = "consuming" /\ packet[p].until <= last_signal THEN Empty ELSE packet[p]]
  /\ UNCHANGED <<scene, last_signal, owner, pc, incoming, pending, newest, committed, queue_config, queue_snapshot, patches,
                 composed, bounds>>

(* A failed device is only destroyed.                                      *)
Changing == changes < MaxChanges /\ ~item.failed /\ changes' = changes + 1

first_scene ==
  /\ changes = 0 /\ scene = 0
  /\ scene' = 1
  /\ UNCHANGED <<packet, last_signal, owner, pc, incoming, runtime, reading, composed, bounds>>

scene_changes ==
  /\ Changing
  /\ scene' \in {0, changes' + 1} /\ scene' # scene
  /\ UNCHANGED <<packet, last_signal, owner, pc, incoming, runtime, reading, composed, captures>>

fail_device ==
  /\ Changing /\ ~owner.failed
  /\ owner' = [owner EXCEPT !.failed = TRUE]
  /\ packet' = Quarantined(packet)
  /\ UNCHANGED <<scene, last_signal, pc, incoming, runtime, reading, composed, captures>>
-----------------------------------------------------------------------------
(* publish_queue_patches.                                                  *)
Published(it, shown, buffers) ==
  LET c   == queue_config
      buf == buffers[<<it.patch_profile, c.format>>] IN
  IF ~it.session_active \/ it.failed \/ c.generation = 0 \/ c.profile # it.patch_profile THEN NoPatches
  ELSE [generation |-> c.generation, profile |-> c.profile,
        camera |-> c.camera /\ it.output /\ (\A f \in Feeds : is_current(shown[f].epoch)) /\ buf \notin {{}, {NoPair}},
        shows |-> IF c.camera /\ Cardinality(buf) = 1 THEN CHOOSE b \in buf : TRUE ELSE NoPair,
        calibration |-> ~c.camera /\ it.calibrated]

(* service(): what the manager has ready, then the frames one by one.      *)
service_poll ==
  /\ pc = "idle"
  /\ LET ready == {p \in Packets : packet[p].state = "ready" /\ packet[p].order <= done}
         live  == {p \in ready : /\ owner.session_active /\ packet[p].session = owner.generation
                                 /\ is_current(packet[p].epoch)} IN
     /\ packet' = [p \in Packets |->
                     IF p \notin ready THEN packet[p]
                     ELSE IF p \in live THEN [packet[p] EXCEPT !.state = "leased"]
                     ELSE IF last_signal <= done THEN Empty
                     ELSE [packet[p] EXCEPT !.state = "consuming", !.until = last_signal]]
     /\ incoming' = live
  /\ pc' = "admit"
  /\ UNCHANGED <<scene, last_signal, owner, runtime, reading, composed, bounds>>

Admitted_SlipRestarts(f) ==
  {p \in incoming : /\ item.session_active /\ packet[p].session = item.generation /\ item.initialized /\ ~item.failed
                    /\ packet[p].feed = f /\ is_current(packet[p].epoch)
                    /\ pending[f] = {} \/ packet[p].order > newest[f]}

Admitted(f) ==
  {p \in incoming : /\ item.session_active /\ packet[p].session = item.generation /\ item.initialized /\ ~item.failed
                    /\ packet[p].feed = f /\ is_current(packet[p].epoch)
                    /\ packet[p].order > newest[f]}

Last(set) == {p \in set : \A q \in set : packet[q].order <= packet[p].order}

service_admit ==
  /\ pc = "admit"
  /\ LET kept(f) == Last(Admitted(f)) IN
     /\ pending' = [f \in Feeds |-> IF kept(f) # {} THEN kept(f) ELSE pending[f]]
     /\ newest' = [f \in Feeds |-> IF kept(f) # {} THEN packet[CHOOSE p \in kept(f) : TRUE].order ELSE newest[f]]
  /\ packet' = discard_frame((incoming \cup Held) \ (pending'[0] \cup pending'[1]))
  /\ incoming' = {} /\ pc' = "queue"
  /\ UNCHANGED <<scene, last_signal, owner, item, committed, queue_config, queue_snapshot, patches, reading, composed, bounds>>

(* The device's patches: those asked for, the calibration output, and      *)
(* those to show.  deferred is the manager's contention.                   *)
Requested(buffers) ==
  IF queue_config.camera /\ queue_config.profile = item.patch_profile
    THEN [buffers EXCEPT ![<<item.patch_profile, queue_config.format>>] = IF @ = {} THEN {NoPair} ELSE @]
    ELSE buffers

service_queue(calibration) ==
  /\ pc = "queue"
  /\ LET seen  == [item EXCEPT !.output = current_output]
         draws == queue_config.generation # 0 /\ ~queue_config.camera IN
     /\ calibration # "none" => draws
     /\ calibration = "drawn" => ~owner.failed
     /\ IF ~item.session_active \/ item.failed
          THEN UNCHANGED <<item, patches>> /\ queue_snapshot' = NoPatches /\ pc' = "idle" /\ calibration = "none"
          ELSE /\ patches' = Requested(patches)
               /\ item' = CASE calibration = "none"   -> seen
                            [] calibration = "drawn"  -> [seen EXCEPT !.calibrated = TRUE]
                            [] calibration = "failed" -> [seen EXCEPT !.failed = TRUE]
               /\ queue_snapshot' = IF item'.failed THEN NoPatches ELSE Published(item', committed, patches')
               /\ pc' = IF item'.failed THEN "idle" ELSE "compose"
  /\ UNCHANGED <<scene, packet, last_signal, owner, incoming, pending, newest, committed, queue_config, reading, composed, bounds>>

(* Frames that are no longer of the scene are dropped, then the pair.      *)
Stale == {p \in Held : ~is_current(packet[p].epoch)}

compose_waits ==
  /\ pc = "compose"
  /\ LET drops == item.initialized /\ item.busy = 0
         left  == [f \in Feeds |-> pending[f] \ IF drops THEN Stale ELSE {}] IN
     /\ ~drops \/ \E f \in Feeds : left[f] = {}
     /\ pending' = left /\ packet' = discard_frame(Held \ (left[0] \cup left[1]))
  /\ pc' = "idle"
  /\ UNCHANGED <<scene, last_signal, owner, incoming, item, newest, committed, queue_config, queue_snapshot, patches, reading,
                 composed, bounds>>

Composable ==
  /\ pc = "compose" /\ pc' = "idle"
  /\ item.initialized /\ item.busy = 0
  /\ Stale = {} /\ \A f \in Feeds : pending[f] # {}

(* Nothing reached the GPU, and both leases are kept for the next call.    *)
compose_deferred ==
  /\ Composable
  /\ UNCHANGED <<scene, packet, last_signal, owner, incoming, runtime, reading, composed, bounds>>

(* prepare failed, and may have recorded the images; or the manager        *)
(* refused the transaction, and what was recorded is discarded.            *)
compose_refused(discards) ==
  /\ Composable
  /\ discards => owner.failed
  /\ item' = [item EXCEPT !.failed = TRUE]
  /\ IF discards THEN pending' = NoFrames /\ packet' = discard_frame(Held) ELSE UNCHANGED <<pending, packet>>
  /\ UNCHANGED <<scene, last_signal, owner, incoming, newest, committed, queue_config, queue_snapshot, patches, reading, composed,
                 bounds>>

Pair == [f \in Feeds |-> packet[CHOOSE p \in pending[f] : TRUE].order]

(* Executed, but one of the two fences was not signalled: what the GPU     *)
(* reads stays leased.                                                     *)
compose_fails(ordered) ==
  /\ Composable /\ ~owner.failed
  /\ last_signal' = IF ordered THEN last_signal + 1 ELSE last_signal
  /\ item' = [item EXCEPT !.failed = TRUE, !.busy = IF ordered THEN last_signal' ELSE 0]
  /\ reading' = Held /\ composed' = Pair
  /\ owner' = [owner EXCEPT !.failed = ~ordered]
  /\ packet' = IF ordered THEN packet ELSE Quarantined(packet)
  /\ UNCHANGED <<scene, incoming, pending, newest, committed, queue_config, queue_snapshot, patches, bounds>>

(* Every patch that was ever asked for is drawn again.                     *)
Drawn_SlipOnce(buffers, pair) == [k \in Keys |-> IF buffers[k] = {NoPair} THEN {pair} ELSE buffers[k]]

Drawn(buffers, pair) == [k \in Keys |-> IF buffers[k] # {} THEN {pair} ELSE {}]

Consumed_SlipBeforeOwn(value) == value - 1
Consumed(value) == value

compose ==
  /\ Composable /\ ~owner.failed
  /\ last_signal' = last_signal + 1
  /\ committed' = [f \in Feeds |-> LET p == CHOOSE q \in pending[f] : TRUE IN
                     [order |-> packet[p].order, epoch |-> packet[p].epoch, session |-> packet[p].session]]
  /\ packet' = Consume(packet, Held, Consumed(last_signal'))
  /\ reading' = Held /\ composed' = Pair
  /\ pending' = NoFrames
  /\ item' = [item EXCEPT !.output = TRUE, !.busy = last_signal']
  /\ patches' = Drawn(patches, Pair)
  /\ queue_snapshot' = Published(item', committed', patches')
  /\ UNCHANGED <<scene, owner, incoming, newest, queue_config, bounds>>
-----------------------------------------------------------------------------
(* The control thread, between calls of service.                           *)
Between == pc = "idle" /\ UNCHANGED <<pc, scene, last_signal, incoming, reading, composed, captures>>

prepare ==
  /\ Between /\ ~item.initialized /\ ~item.failed
  /\ \E ok \in BOOLEAN : item' = [item EXCEPT !.initialized = ok, !.failed = ~ok]
  /\ UNCHANGED <<packet, owner, pending, newest, committed, queue_config, queue_snapshot, patches, changes>>

(* The control loop asks for camera patches only of a scene it started,    *)
(* and starts one only once prepare succeeded.                             *)
configure_queue_patches ==
  /\ Between /\ Changing
  /\ item.session_active /\ ~item.failed
  /\ \E camera \in BOOLEAN, format \in Formats :
       /\ camera => item.initialized
       /\ queue_config' = [generation |-> changes', camera |-> camera, format |-> format, profile |-> item.patch_profile]
  /\ queue_snapshot' = NoPatches
  /\ UNCHANGED <<packet, owner, item, pending, newest, committed, patches>>

set_patch_profile(profile) ==
  /\ Between /\ Changing
  /\ item' = [item EXCEPT !.patch_profile = profile, !.output = @ /\ profile = item.patch_profile]
  /\ queue_snapshot' = NoPatches /\ queue_config' = NoConfig
  /\ UNCHANGED <<packet, owner, pending, newest, committed, patches>>

(* copy_patch may ask for a patch of its own format.                       *)
copy_patch(format) ==
  /\ Between /\ current_output /\ ~item.failed
  /\ patches[<<item.patch_profile, format>>] = {}
  /\ patches' = [patches EXCEPT ![<<item.patch_profile, format>>] = {NoPair}]
  /\ UNCHANGED <<packet, owner, item, pending, newest, committed, queue_config, queue_snapshot, changes>>

reset_feed ==
  /\ Between /\ Changing /\ ~item.failed
  /\ packet' = discard_frame(Held) /\ pending' = NoFrames
  /\ item' = [item EXCEPT !.output = FALSE]
  /\ queue_snapshot' = NoPatches /\ committed' = NoMatch
  /\ UNCHANGED <<owner, newest, queue_config, patches>>

(* Refused by a manager whose device is gone; the newest orders are kept.  *)
reset_session_SlipKeepsFrames ==
  /\ Between /\ Changing
  /\ item' = [item EXCEPT !.session_active = FALSE, !.output = FALSE, !.generation = IF owner.active THEN @ + 1 ELSE @]
  /\ owner' = IF owner.active THEN [owner EXCEPT !.session_active = FALSE, !.generation = @ + 1] ELSE owner
  /\ queue_config' = NoConfig /\ queue_snapshot' = NoPatches /\ committed' = NoMatch
  /\ UNCHANGED <<packet, pending, newest, patches>>

reset_session ==
  /\ Between /\ Changing
  /\ item' = [item EXCEPT !.session_active = FALSE, !.output = FALSE, !.generation = IF owner.active THEN @ + 1 ELSE @]
  /\ owner' = IF owner.active THEN [owner EXCEPT !.session_active = FALSE, !.generation = @ + 1] ELSE owner
  /\ queue_config' = NoConfig /\ queue_snapshot' = NoPatches /\ committed' = NoMatch
  /\ IF owner.active /\ ~item.failed THEN packet' = discard_frame(Held) /\ pending' = NoFrames ELSE UNCHANGED <<packet, pending>>
  /\ UNCHANGED <<newest, patches>>

resume_session ==
  /\ Between
  /\ ~item.session_active /\ ~item.failed /\ owner.active /\ ~owner.failed
  /\ item' = [item EXCEPT !.session_active = TRUE]
  /\ owner' = [owner EXCEPT !.session_active = TRUE]
  /\ UNCHANGED <<packet, pending, newest, committed, queue_config, queue_snapshot, patches, changes>>

destroy_device ==
  /\ Between /\ UNCHANGED changes /\ owner.active
  /\ pending' = NoFrames
  /\ item' = [item EXCEPT !.failed = TRUE, !.session_active = FALSE, !.output = FALSE]
  /\ queue_snapshot' = NoPatches
  /\ owner' = [owner EXCEPT !.active = FALSE, !.failed = TRUE]
  /\ packet' = Quarantined(discard_frame(Held))
  /\ UNCHANGED <<newest, committed, queue_config, patches>>
-----------------------------------------------------------------------------
Init ==
  /\ scene = 0 /\ packet = [p \in Packets |-> Empty] /\ last_signal = 0
  /\ owner = [active |-> TRUE, session_active |-> TRUE, generation |-> 1, failed |-> FALSE]
  /\ pc = "idle" /\ incoming = {}
  /\ item = [initialized |-> FALSE, session_active |-> TRUE, generation |-> 1, failed |-> FALSE, output |-> FALSE,
             busy |-> 0, calibrated |-> FALSE, patch_profile |-> CHOOSE p \in Profiles : TRUE]
  /\ pending = NoFrames /\ newest = NoPair /\ committed = NoMatch
  /\ queue_config = NoConfig /\ queue_snapshot = NoPatches
  /\ patches = [k \in Keys |-> {}] /\ reading = {} /\ composed = NoPair
  /\ captures = 0 /\ changes = 0

Next ==
  \/ \E p \in Packets, f \in Feeds : capture(p, f)
  \/ \E p \in Packets : retire(p)
  \/ finish_composition \/ first_scene \/ scene_changes \/ fail_device
  \/ service_poll \/ service_admit
  \/ \E calibration \in {"none", "drawn", "failed"} : service_queue(calibration)
  \/ compose_waits \/ compose_deferred \/ compose
  \/ \E b \in BOOLEAN : compose_refused(b) \/ compose_fails(b)
  \/ prepare \/ configure_queue_patches \/ reset_feed \/ reset_session \/ resume_session \/ destroy_device
  \/ \E p \in Profiles : set_patch_profile(p)
  \/ \E f \in Formats : copy_patch(f)

Spec == Init /\ [][Next]_vars
-----------------------------------------------------------------------------
(* Every field stays within its domain.                                    *)
TypeOK ==
  /\ \A p \in Packets : packet[p].state \in {"free", "recorded", "ready", "leased", "consuming", "quarantined"}
  /\ item.busy <= last_signal
  /\ owner.generation \in Generations /\ item.generation \in Generations
  /\ \A f \in Feeds : Cardinality(pending[f]) <= 1
  /\ pc \in {"idle", "admit", "queue", "compose"}
  /\ pc # "admit" => incoming = {}

(* A frame that was handed out is held in one place until it is given      *)
(* back: none is lost, and none is held twice.                             *)
LeasesAreHeld ==
  /\ {p \in Packets : packet[p].state = "leased"} \subseteq incoming \cup Held
  /\ \A p \in incoming \cup Held : packet[p].state \in {"leased", "quarantined"}
  /\ pending[0] \cap pending[1] = {} /\ incoming \cap Held = {}

(* What a composition on the GPU may read is not captured into again.      *)
NotReusedWhileRead == \A p \in reading : packet[p].state \in {"leased", "consuming", "quarantined"}

(* What is offered to the display copies: for the settings now in force,   *)
(* the patch of the composition last committed, whose frames are of one    *)
(* scene and of this session.                                              *)
Offered == queue_snapshot.generation # 0 /\ item.session_active /\ ~item.failed

OfferedIsCommitted ==
  /\ Offered => queue_snapshot.generation = queue_config.generation /\ queue_snapshot.profile = item.patch_profile
  /\ Offered /\ queue_snapshot.camera =>
       /\ \A f \in Feeds : queue_snapshot.shows[f] = committed[f].order /\ committed[f].session = item.generation
       /\ committed[0].epoch = committed[1].epoch

FrameSafety == TypeOK /\ LeasesAreHeld /\ NotReusedWhileRead /\ OfferedIsCommitted

(* Whatever order recordings retire in, and across sessions, a composition *)
(* never shows a frame of either camera that is not newer than the last.   *)
NewerEveryTime == [][composed' # composed => \A f \in Feeds : composed'[f] > composed[f]]_vars
=============================================================================
