# Taxi Cam: a TLA+ verification project

This directory models the concurrent core of Taxi Cam 0.9.28
(`src/taxi-cam-0.9.28-build.41`), an add-on for Microsoft Flight Simulator that
renders the nose and tail taxi cameras of the A350 and draws them onto the
pilots' primary flight displays (PFD). All paths below are relative to that
directory; `src/` in PROJECT.json is the repository's root.

`PROJECT.json` lists components, runs, mutants, the map from every definition
to the lines it models, findings, hazards and theorems. This file explains
them.

## 1. The system

Two programs work together.

* The **companion** `taxi-cam.exe` (`src/app`) is a tray application. It keeps
  the settings, finds the simulator, loads the bridge into it once per
  attachment and talks to it through a shared-memory mailbox with a heartbeat
  (`src/shared`).
* The **bridge** is a DLL inside the simulator. It has no main thread of its
  own choosing: it runs in the simulator's threads as much as in its own.

| thread | what runs there |
|---|---|
| control loop | `bridge_main.cpp`: reads the mailbox, decides what is wanted, drives the others, answers |
| SimConnect worker | `body_pose_provider.cpp`: one connection to the simulator; telemetry, flight lifecycle, TAXI buttons |
| simulator update | `probe.cpp` and `entry_pair.cpp`: the hook in the camera manager's update; creates and erases the two cameras |
| graphics callbacks | hooks on Direct3D 12 objects: registration of devices and resources, recording of command lists |
| submission threads | `queue_submit_observer.cpp` and `scene_capture_manager.cpp`: the hook on ExecuteCommandLists |
| service thread | `scene_runtime.cpp`: leases finished snapshots, composes them, hands the image to the PFD copies |
| the GPU | executes what the queues hold, in the order its fences allow |

Nothing in the bridge waits for the GPU or suspends a thread of the simulator
(`docs/architecture.md`). Every hand-over is therefore a protocol over
generation numbers, fences, mailboxes and atomics, and every one of them has to
survive the other side disappearing: resources are destroyed and their
addresses reused, flights are reloaded, connections drop, devices are lost.

### Components, their state and what makes them correct

| component | state | hard because | correct when |
|---|---|---|---|
| Scene handoff (`graphics/scene_handoff`) | registries of devices and resources by address with a generation each, the active scene, inspection tickets, one published pair, two lock-free hints | inspection reads engine memory without a lock while addresses are freed and reused | what is published, or later still accepted, is exactly what was inspected and is alive; exhausted counters shut it for good |
| Source state tracking (`graphics/scene_source_state`) | a bounded log of effects per recording, what is known of each source image | logs run again and again, overflow, refer to dead generations | the belief is what the executed effects prove, or unknown |
| Capture manager, packet, queue observer (`graphics/scene_capture_*`, `hooks/queue_submit_observer`) | packets with two fences, recordings per list, one timeline of receipts over all queues, notices of escaped batches | several submitting threads, calls failing half-way, a fence as the only evidence | no packet is rewritten under the GPU, a leased frame is final, receipts are serial, no wait cycle |
| Display copy pool (`graphics/pfd_submission_pool`) | slots with a list, leases and the covering fence value | the covering Signal may fail | leases outlive the GPU's work, slots come back |
| Scene runtime, frame output (`graphics/scene_runtime`, `scene_frame_output`) | pending and committed pair, high-water marks, queue patches, leases of the compositor | slower recordings finish later, in the session after | a composed image is of one session and newer than the last, packets are returned |
| Display detection and routing (`graphics/pfd_target_detector`, `taxi_button_routes`, and their use in `d3d12_bridge`) | candidate windows, the two routes, what the user selected | detection, destruction and the user reach the sides in any order | a living display keeps its side; the sides differ |
| Late bind hints (`d3d12_bridge.cpp`) | which texture a list named before its view was seen | lists are reset, addresses reused | a recovered view is one this very recording entered |
| Recording proofs, submission proofs, stamping (`d3d12_bridge`, `hooks/render_boundary_observer`, `graphics/pfd_*`, `query_scope`) | per list everything observed from Reset to Close; the plan of a batch; the list's own pipeline, root arguments, heaps | demand changes mid-recording, a later list overwrites | nothing is injected into unobserved state; the list's own state is restored |
| Hook installation (`hooks/*`, `bridge/native_hooks`) | slots of foreign tables, page protection, which objects are registered | other software wraps the same slots; restoring the protection fails | foreign wrappers stay, owed protections are repaired |
| Camera entries (`camera/entry_pair`) | requests in a mailbox, the owned entries, the published snapshot | the mailbox is taken before an engine call and cancelled during it; every engine call may fail | no entry is forgotten, none of a foreign lifetime erased, a disable drains |
| Camera probe (`camera/probe`, `scene_session_reset`, `scene_recovery`, `retained_profile`, `view_*`, `render_schedule`) | observer phase, reset, recovery episode, resize permission, gates, retirement | control thread and simulator update interleave at every unlock | a reset drains before it acknowledges, retries are bounded, no gate is written unadmitted |
| Pooled views, bounded memory reads (`camera/view_pool`, `view_aa`, `local_memory`) | ledgers of views and bits; a batch of regions and pages | the simulator changes its memory between proof and copy | what a batch declares good was; foreign views are not touched |
| Aircraft session (`camera/body_pose_provider`, `aircraft_identity`) | lifecycle latches, identity, samples, epoch, connection | events, polls and streams interleave; another thread invalidates the world | readiness and the pose speak of one world and one aircraft |
| TAXI buttons, speed cutoff (`camera/taxi_button_command`, `taxi_speed_cutoff`) | latch samples, the request, events in flight | some aircraft only have a toggle | no toggle on stale knowledge, one event per request, the cutoff gets through |
| Bridge control loop (`bridge/bridge_main`, `shared/companion_control`, `scene_demand`) | connection, transition and its acknowledgements, demand, warm-up | three acknowledgements polled in different rounds | a new epoch restarts all of them, no camera between |
| Companion and launcher (`app/companion`, `app/launcher`) | attach worker, requests, heartbeat watermark | edits, worker and simulator race; DLL loads time out | one load per attachment, Disconnect holds |
| Persistent files, shortcuts, updater (`app/settings_store`, `startup_state`, `camera_hotkeys`, `updater`, `shared/rotating_log`) | files, the panel's edits, registered chords, the download | crashes between two writes, queued messages, merged checks | old or new file, never between; a message acts as saved; the verified installer is started |

Not modelled, with reasons in PROJECT.json: native layout contracts, mounts and
poses, write budget and exposure, crash evidence, aircraft catalog, installer
and tests.

## 2. Modules

| module | models | environment inside the module |
|---|---|---|
| `SceneHandoff` | scene handoff | inspectors, graphics callbacks, consumers of matches |
| `FrameService` | scene runtime, frame output | capture completions, compositor, GPU |
| `SceneSourceState` | recording logs and tracker | lists replayed in any order |
| `DisplayRouting` | detector, assignment, routes | displays created and destroyed, the user |
| `CaptureManager` | capture manager, packet, queue observer, leases | threads of the application, the GPU |
| `HookSlots` | installation and repair of hooks | other software, the page's protection |
| `LateBind` | late bind hints and view recovery | lists, textures, views |
| `SubmissionPool` | display copy pool | receipts, GPU, service |
| `PfdRecording` | one recording, copy proof, boundary observer | demand changing at any time |
| `PfdSubmission` | the plan of a batch, query and pass scope | later lists of the batch |
| `PfdStamp` | shadow of a list's own state and its restoration | what the list binds |
| `EntryPair`, `CameraOwnership` | PairController, and what it promises | engine, request threads |
| `SceneSession` | requests, sessions, resets, creations of the probe | control thread, world, calibration |
| `ScenePass` | one pass of the engine update: gates, resize, retirement | engine, output readiness |
| `AircraftSession` | lifecycle, identity, samples, epoch, connection | simulator, reader of poses |
| `TaxiButtons` | request, cutoff, flights, worker round | SimConnect FIFO, aircraft, pilot, clock |
| `MemoryProof` | `local_memory` read, write and page batches | a memory map that changes |
| `ViewPool` | view pool and antialiasing ledgers | renderer |
| `BridgeControl` | control loop, demand, warm-up | companion, flight, probe |
| `CompanionLink` | connection worker, launcher | simulator processes, user |
| `SettingsFiles`, `CameraHotkeys`, `RotatingLog`, `Updater` | the companion's files and helpers | crashes, message queue, file sharing |
| `MC*` | constants, and the composition for one run | |
| `*Proofs` | theorems (section 5) | |

An operator named `X_SlipYyy` just before `X` is a plausible mistake in `X`. It
is used nowhere in the specifications; put in X's place (the `mutants` of
PROJECT.json) it shows that a property depends on that code.

### How modules are composed

Components that meet in the code are composed by what one assumes of the other:
each module holds the most general behaviour of its neighbours as environment
actions (`SubmissionPool` any outcome of a receipt, `SceneSession` any order of
engine passes, `CaptureManager` any answer of `is_current`), so that its
properties hold whatever the neighbour does. `EntryPair` is composed with its
abstract specification `CameraOwnership` by refinement: `OwnsAsPromised` says
that every behaviour of the controller is one of `CameraOwnership`.

The MC modules put several components that answer one question of section 4 in
one run. A variable `component` says which of them a behaviour is of; the others
stay in their initial state. This is a union of state spaces, not a product: it
claims nothing about interleavings across components, because these share no
variable in the models. Each composite property (`CompanionSafety`, ...) is the
conjunction of the components' invariants.

### How state and actions correspond to the code

*Granularity.* A section under a mutex is one action. A function that releases
the lock, calls foreign code (the engine, Direct3D, SimConnect, Win32) or stores
two atomics one after the other is cut there. What happens in the gap is up to
every other actor.

*Numbers.* Generations and fence values are kept as numbers with their limit
(the code's `max()`), made small so that exhaustion happens in the model. Times
are ages that saturate beyond the code's largest limit.

**SceneHandoff.** A ticket is the snapshot taken by `begin_inspection`; an
inspector then picks any two addresses, as a reader of unlocked memory might,
and publishes. `held` are the matches GPU callbacks have taken and keep as
values. The two hints are separate variables, read outside the lock.
Diagnostics counters are left out.

**SceneSourceState.** Logs are sequences of effects of bounded length
(`LogCapacity`); the tracker has `Capacity` slots. `done` is a history of what
was really executed, against which the tracker's models are judged.

**CaptureManager.** One device and one feed. `finish_transaction` is two
actions, `finish_tail` and `finish_signal`, with the submission mutex held
between them. The GPU is a FIFO of waits, executions, signals and fences per
queue; `native` is what command lists really hold, `content` what the snapshots
really show. `Faults` chooses which native calls may fail. Environment: the
application does not reset a list between its call of ExecuteCommandLists and
the moment the native call has taken it; batches that hold no owned work leave
nothing on the queue; nested batches hold no recorded captures. Whether a tail
capture's source is proven, and whether a frame is current, are free choices
here; `SceneSourceState` and `SceneHandoff` answer them.

**SubmissionPool.** Slots, the covering fence value and the GPU's own progress.
The geometry checks of `valid_copy` are a refusal that changes nothing.

**FrameService.** Frames carry their sequence number; `captures` is the
environment that completes them in any order. 8 patch slots fit exactly two
shapes in four formats, so `request_queue_patches` never runs out with the
calls the control loop makes.

**PfdRecording, PfdSubmission, PfdStamp.** One recording at a time, because all
state is per list; the demand flag and the observation epoch change between any
two calls. Resource states are the classes the proofs tell apart. `native`,
`works` and `drawn` are what the list really holds, against which the proofs are
judged. `PfdStamp.Unregistered` are root signatures whose lifetime registration
failed.

**HookSlots.** `Init` picks one of the five installers, which hold different
locks and share no slot. Publication of the forward address, protection,
compare-and-swap and restoration are separate steps; other software may exchange
the slot at any of them.

**EntryPair.** `process_update` is cut at every engine call. The engine may
refuse, answer with an ID already used, or fail to confirm an erase. The
different blocked reasons are one, `"blocked"`.

**SceneSession, ScenePass.** The probe's observer runs once per engine update.
`SceneSession` cuts it at every unlock, with the control thread and the world in
between; `ScenePass` has the two views and their gates, dimensions and native
calls within and across updates. Each treats the other's decisions as free
choices.

**AircraftSession.** Every sample carries the world, the flying aircraft and its
identity at the time it was taken; these tags are invisible to the code and the
properties are about them. Identity needs `Distinct` agreeing answers (3 in the
code, 2 here). `Lossless` says that the simulator announces nothing to a
connection that is closed, closing or told to stop: see the hazard at
`body_pose_provider.cpp:612`.

**TaxiButtons.** The clock read before the lock (`command_now`) may be up to
`Stall` ticks old. SimConnect is a FIFO of commands, answers and rejections.
Polls that overtake an awaited poll are left out, as is the end of the
connection.

**MemoryProof.** What is true of each page, and what was seen of it; the
environment may change the map between any two system calls, except between
`finish()`'s own. An ABA of what Windows shows is accepted, as `local_memory.hpp`
says. Memory that is unreadable or of another kind ends only the read in a
stage of regions and fails a stage of pages; a full table, and bytes that cannot
be copied, fail both.

**BridgeControl, CompanionLink.** Rounds of the two loops, cut where the code
releases a mutex or looks at the other program again. A heartbeat is none, old
or new, which is all a watermark can tell.

**SettingsFiles, RotatingLog, Updater, CameraHotkeys.** A write is its steps
(temporary file, flush, replace); a crash loses what was not flushed. A file may
be one that `valid_settings` refuses: torn by a crash, imported, or made so from
outside (`spoils`, for the aircraft in `Spoiled`). `load_settings` then returns
false: a switch ends with the departing aircraft saved and still current; a
start goes on with the defaults of the first aircraft, whichever is selected.

## 3. Bounds

Each property speaks of at most two of everything (an old and a new generation,
an owner and an intruder, two completions in the opposite order, two lists of a
batch), so two of each is where it can first fail. The mutants confirm that the
instance reaches the case: every property is broken by one changed definition
under the same cfg. Symmetry is used only where no liveness is checked; a VIEW
leaves out history that neither a guard nor a property can tell apart.

| run | instance |
|---|---|
| `handoff` | 1 device, 2 addresses, 1 manager, 2 entry ids, 2 inspectors, counters to 6, 2 scenes; 2 pool slots, 3 views, 2 pairs, 1 foreign view, 1 fault |
| `sources` | 2 addresses, one under two generations, logs of 2, table of 2, 3 executed effects; 3 displays, windows of 3 draws, 1 change by the user |
| `capture` | 1 application thread and the service, 2 queues, 1 list, 1 packet, 2 packet tokens, 2 sessions, at most five of signals, sessions and tokens together, no fault but the loss of the device; 2 slots and 1 hooked object per installer; 2 addresses and 2 views |
| `receipts` | 1 thread, 1 queue, a list once or twice in a batch, 1 packet token, 1 session, every fault but those of the signal and the device; 2 pool slots (one in flight, one free or quarantined), 2 values, all failures |
| `recording` | 1 list and 1 change of demand; 2 lists of a batch and 1 change; 1 pipeline, 1 known and 1 unregistered root signature, 2 heaps |
| `buttons` | 1 side, all controls, presses, resets; and alone with a toggle |
| `worker` | 2 sides, toggle, rejections; 2 crafts, 1 world change, 2 polls, 1 queued message |
| `camera` | 2 cameras, 1 resize retry, 1 output wait, 1 start; the engine disturbs one of the two views; 2 profiles, 2 pairs, 2 calls of the control thread |
| `memory` | 3 packets, 4 captures, 2 profiles, 1 change of configuration; 3 pages, 2 regions, 2 changes of the map |
| `companion` | 2 processes, 3 requests, 1 retry, 1 recovery, 3 changes; 2 profiles and 2 changes of setup; 2 manager lifetimes and 3 ids; 3 caches, 1 crash, 2 edits; 2 shortcuts; 2 log writers; the file of the first aircraft may be made invalid |
| `companion_live` | the same with 2 changes, 1 change of setup, 2 ids, no file made invalid |

`MaxChanges`, `MaxQueued`, `MaxPolls`, `MaxSerial`, `MaxId`, `MaxToken`,
`MaxCalls`, `MaxCrashes`, `MaxFaults`, `MaxEdits`, `MaxBorn` and their like bound
the environment only. `MaximumSignal`, `MaximumToken`, `MaximumSession`,
`MaxCounter`, `Capacity`, `LogCapacity`, `SlotCount`, `LedgerSize` and the
`*Limit` constants are the code's own limits made small, so that its handling of
them runs.

`capture` has one application thread, so the batch refused under contention
(`classify` in CaptureManager) is not reached there; that case rests on the
theorem `CaptureSafe`, which is about any number of threads.

`companion` assumes that from outside only the file of the first aircraft, the
A380, is made invalid (`Damaged = {"a"}`). A file that a crash tears is never the
selected one, so no start finds the file of another selected aircraft refused.
Without the assumption a saved calibration can be lost: see section 6.

Two runs are cut by a `CONSTRAINT` in their MC module, because the parts they
compose are independent enough that the product says little more: `Bounded` of
MCCapture keeps sessions, signals and tokens from all reaching their limits in
one behaviour, and its bindings either make two textures or change the session;
`OneDisturbed` of MCCamera lets the engine take away or
disturb one of the two views. MCMemory starts the second region as a private
allocation.

*Deadlock* is checked everywhere. Components that rest by design (exhausted
generations end the handoff; the captures of the model end the frames; the environment's bounds end the link) have an
explicit `Rests` step in their MC module.

## 4. What TLC checks

| run | properties | shows |
|---|---|---|
| `handoff` | `HandoffSafety`, `DeadStaysDead`, `PublishedAsInspected` | a publication is two live resources of one device, under the generations inspected; hints agree; one owner per scene; late publications lose; a dead match stays dead; exhaustion is final |
| | `ViewPoolSafety` | the ownership of the renderer's pooled views |
| `sources` | `DisplaySafety`, `SidesAreKept` | collapse loses nothing, draw evidence is of this batch, beliefs are proven or unknown; displays keep their sides |
| `capture` | `CaptureSafety` | no reuse under the GPU, output races are noticed, receipts are serial, the GPU is never stuck |
| | `BindingSafety`, `HooksAreConsiderate`, `BoundIsEntered` | hooks and hints |
| `receipts` | `LeasedFrameIsFinal`, `FramesEnd` | leased frames are final; every receipt gets a verdict, every consumed packet returns |
| | `LeasesCoverTheGpu`, `QuarantineIsForever`, `PoolSlotsReturn` | the copy pool |
| `recording` | `RecordingSafety`, `SubmissionSafety` | insertions only where the state is proved, the plan of a batch holds when it is executed, the list's own state is restored |
| `buttons` | `RequestEnds`, `CutoffDelivered` | every request ends; above the limit for good the button ends up off |
| `worker` | `TaxiSafety`, `AircraftSafety` | no toggle on a stale latch, one event per request, no ON past the cutoff; readiness and poses are of one world |
| `camera` | `CameraSafety`, `NativeCallsAreAdmitted`, `RetirementIsGentle`, `ResolutionKeepsThePair` | reset, recovery and creation of the probe; gates and dimensions of the two views |
| `memory` | `FrameSafety`, `NewerEveryTime` | packets are leased while read, offers were committed; no composition repeats or goes back, across sessions |
| | `MemorySafety` | proofs of memory |
| `companion` | `EntryPairSafety`, `CompanionSafety`, `LinkHolds`, `StartsAreWanted`, `OwnsAsPromised` | one load per attachment, setup before demand, no entry forgotten, the verified installer; the entry controller refines `CameraOwnership` |
| | `FilesSafety`, `SavedIsMeant` | files and shortcuts |
| `companion_live` | `ConnectAnswered`, `SetupSettles`, `WarmupEnds`, `ManualIsAnswered`, `PairDrains` | what was asked for comes to an end |
| `taxi_reselect` | `EventsKeepTheirMeaning` (violated) | finding 1 |

`worker` checks `TaxiSafety` with `Resets = {}` because of finding 1.

### Fairness

* `CaptureManager`, `SubmissionPool`: weak fairness of the GPU's execution, of a
  thread's steps inside the hook (running code without waits), and of the
  service's polling, which the control loop repeats.
* `EntryPair`: strong fairness of an update that takes the mailbox (updates
  recur while the simulator runs) and of an erase that is confirmed in the end;
  without the latter the code keeps the entry for ever by design. Weak fairness
  of the steps inside an update.
* `TaxiButtons`: `RequestEnds` needs only weak fairness of the worker and that
  time goes on. `CutoffDelivered` also needs what the code cannot force
  (`Responsive`): answers do come, polls fall due, an event is accepted in the
  end, the aircraft executes it.
* `BridgeControl`, `CompanionLink`, `Updater`: weak fairness of each loop's
  round, of its timers, and of the answers the other component's own run shows
  to come (`acknowledges`, `settles`).

## 5. What TLAPS proves

TLC checks an instance; the theorems hold for every value of the constants that
satisfies the module's one named assumption. Each proof has the same shape: an
inductive invariant `IInv`, a conjunction of named parts, of which TLC checked
every part first; `Init => IInv`; `IInv /\ [Next]_vars => IInv'` with one step
per action; `IInv` implies the property. Action properties follow from `IInv`
and one more pass over the actions. Lemmas say once what a helper of the model
does (`LifecycleEventEffect`, `ConsumeEffect`, `LeaveEffect`, ...), and only
they expand it.

| module | theorems | property of the runs |
|---|---|---|
| `SceneHandoffProofs` | `HandoffSafe` and its parts, `DeadForever`, `PublishedInspected`; `ViewPoolSafe` | `HandoffSafety`, `DeadStaysDead`, `PublishedAsInspected`; `ViewPoolSafety` |
| `FrameServiceProofs` | `FramesSafe`, `FramesAreNewer`; `MemorySafe` | `FrameSafety`, `NewerEveryTime`; `MemorySafety` |
| `ScenePassProofs` | `CallsAreAdmitted`, `RetirementGentle`, `ResolutionKeeps`; `PassSafe`, a part of `CameraSafety` | `NativeCallsAreAdmitted`, `RetirementIsGentle`, `ResolutionKeepsThePair` |
| `EntryPairProofs` | `PairIsSafe`, `PairKeepsPromise` | `EntryPairSafety`, `OwnsAsPromised` |
| `PfdRecordingProofs` | `RecordingSafe`, `SubmissionSafe` | `RecordingSafety`, `SubmissionSafety` |
| `WorkerProofs` | `ButtonsSafe`, `SessionSafe` | `TaxiSafety`, `AircraftSafety` |
| `CaptureManagerProofs` | `CaptureSafe` | `CaptureSafety` |
| `SubmissionPoolProofs` | `PoolKeepsLeases`, `QuarantineStays` | `LeasesCoverTheGpu`, `QuarantineIsForever` |

**Assumptions.** `HandoffAssumption`: the absent value is no device, address or
manager, and the widths are naturals, the counters' positive. `FrameServiceAssumption`: the bounds are
naturals, there is a profile, and the profiles times the formats fit the eight
patch slots. `ScenePassAssumption`, `EntryPairAssumption`: the limits are
naturals, and the absent key is no key. `PfdRecordingAssumption`: there is at
least one list, and the changes are counted by naturals. `PfdSubmissionAssumption`:
a batch may hold a list, and the bounds are naturals. `PfdStampAssumption`: the
unregistered signatures are signatures, values are positive, and the names the
model uses for "nothing", "the stamp's own" and "not known" are no object of the
application. `ViewPoolAssumption`: the sizes and
bounds are naturals, there is a slot and room for one retired view, and at least a
view per slot. `MemoryProofAssumption`: the sizes and limits are positive
naturals, the number of changes a natural. `SessionAssumption`: the name of no aircraft is no
aircraft, and the bounds are naturals, one of them positive. `TaxiAssumption`:
the sides are the code's two, and an age beyond all limits is beyond them also
after the ticks between reading and deciding. `ManagerAssumption`: the faults are
some of the model's, the service is no application thread and its queue no
application queue, batches are non-empty sequences of lists, the counters'
limits are naturals (the session's positive, as it starts at 1), and the absent
transaction is none. `SubmissionPool` needs none. The runs evaluate all of them.

**SceneHandoff.** Why the safety is not inductive alone: a publication is live
only because everything that could kill one of its resources passes through
`lifecycle_event`, which drops it or does not name its handles. So `IInv` adds
that registered generations were drawn (`RegistryDrawn`), that a retained match
and the publication lie below the counters (`HeldDrawn`, `PublicationDrawn`),
that an exhausted handoff is idle, and which owner a scene is bound to
(`OwnerOfPublication`, `OwnerOfHeld`). Then a generation drawn later differs from
all that are held, which is what makes address reuse harmless.
`PublishedInspected` adds that the snapshot of an open ticket is the registry
while the lifecycle epoch has not moved.

**ViewPool.** The snapshot of the pool is older than the creation it permits, and
the engine, not the bridge, chooses the slot. `SnapFits` says in which way it may
be out of date: what is free is what was free, and a slot shows the view that was
read, drained at most, or a new one; a new view has left no trace anywhere
(`NewIsNew`). So the first free slots of the snapshot are the first free slots, and
what was checked of them still holds. The other half is a record kept across
teardowns: a view of the bridge is identified in the pair's record or counted as
never identified (`OursIsKnown`), the entries are the slots that are its own
(`IdsFit`), and the record is cleared only into the ledger (`RetiredRemembered`).
The theorem has any sizes; when the ledger of cleared bits is full, the view it
could not take is counted in `unnoted`, as the code ignores what `note` returns
(`probe.cpp:692`).

**FrameService.** The hard part is that three parties look at a packet: the
manager, the runtime and the GPU. `IInv` is

* `OrdersAreOwn`: no two packets that are not free hold the same value of the
  timeline. Hence one frame of each feed waits at most: two would both be the
  newest.
* `LeasesAreHeld`: what was handed out is in exactly one place.
* `PendingIsNewest`: a pending frame has the order `newest`, the session of the
  runtime and, while the device works, an order above all that was composed.
  `reset_session` keeps `newest` for this: without that, `FramesAreNewer` would
  fail in the next session.
* `ReadingIsCovered`: until the GPU is done, what it reads is leased or waits for
  it, or is quarantined. It needs that `busy` is above every value `done` can
  take, so that giving a lease back while the GPU works frees nothing.
* `PatchesAreCommitted`: every buffer is empty, not yet drawn, or shows the pair
  last committed; the code draws all buffers that were ever asked for again, not
  only the current one.
* `SnapshotIsCurrent`: the snapshot is dropped with every change of what it was
  made from (configuration, profile, session, feed).

What happens to the table of packets is said by one relation, `Follows`: a packet
that is not free afterwards still holds the frame it held.

**ScenePass.** `IInv` says where in a pass what is owned (`StageOwns`), that what
the observer remembers of a pair ends with it (`Fresh`), and that a creation is
paid for by a retry or the start itself (`Charged`). The three action properties
are proved for the steps of the pass that make native calls, by what each of
those leaves of the views and of the owned entries, and for all others because
they leave both alone.

**EntryPair.** Entries that exist are held under their lifetime (`LiveIsHeld`);
where an update stands tells what it owns (`StageOwns`); entry ids are not reused
(`OwnedIsUnconfirmed`); a pair published as active is whole (`ActiveIsWhole`);
a creation that is wanted or under way is licensed (`CreationIsLicensed`).
`PairKeepsPromise` maps each action to the action of `CameraOwnership` it
implements or to a stutter: `alive` is `live`, `allowed` is `licence`. An
attempt that failed here was an error of the model: `skip` has to forget the
owner together with the ids, as `entry_pair.cpp` does.

**PfdRecording.** The bridge never sees the application's state, only the calls
its hooks are given while somebody observes. So `IInv` relates what it keeps to
what is so (`now`), for a recording it may still add to (not `Over`: ready, of
this epoch, its scope valid):

* `ScopeFits`: no call went by unobserved, the boundary's scope is in a pass
  exactly when the application is, and work seen outside passes means that no
  suspended pass is waiting.
* `ProofsFit`: what the copy proof calls pending or ready is the state the
  display is in, the bound targets are bound, the open queries are the open ones.
* `DrawnFits`: what was drawn, or waits to be stamped as a target, has had no
  transition since.

Once a recording is over nothing is known of it, and nothing is added: this is
why a demand that changes, a foreign hook and a pass whose end cannot be seen
need no care elsewhere. A new epoch ends every recording (`NumbersFit`: epochs
are drawn in order), and `publish` must compare the sampled epoch with the
current one, or a recording begun between the two would count as observed.
`BegunFits` carries `PlansAreCurrent`: a recording not begun in this session is
older than the session's floor, also while its Reset is under way. The effect of
each helper (`stage_pfd`, `drain_pfds`, `invalidate`, `observe_barrier`, ...) is a
lemma; `RecordsKeep` reduces a call to what the helpers leave.

**PfdSubmission.** A copy is planned from ledgers of lists that are closed, and
executed after all of them, so what a ledger claims has to be true of its list.
`BatchIInv` says so (`LedgerFits`, for the list under recording in `LedgerIsTrue`
and for each closed one in `BatchFits`): a known ledger gives the state its list
found the display in and the one it leaves it in, every write shows in it and
ends `barrier_only`, and no ledger survives a list that begins or ends in a
suspended pass, unless it is empty. The plan's other half is the selection:
whatever is of the present generation is of the present selection (`PatchesFit`),
and a plan is of this batch and made from patches of its own generation
(`PlanFits`); hence comparing one number at submission is enough. The theorem has
batches of any length and any number of changes of the selection meanwhile.

**PfdStamp.** A stamp borrows the list's state and has to give it back, and D3D12
has no way to read it. `StampIInv` says (`Follows`) that a copy which is valid
and observed from Reset on equals the list's state: the root arguments are known
exactly as long as their signature is, and a signature the copy does not know is
one whose registration failed, or none. An argument comes back because binding the
stamp's own signature and then the list's leaves every argument undefined, and
`restore` writes all of those the copy knows over that (`Restores`): one that was
undefined for the application is undefined again, none is invented.

**TaxiButtons.** A push event toggles, so everything depends on what the worker
may conclude from a sample that may be older than an event. `IInv` says it per
side (`SideFits`):

* `Quiet`, with no event under way: no command is queued, and the sample in the
  cache and every one still to be dispatched show the button as it is.
* `Turning`, with one: at most one command is queued and the button is not where
  it is meant to be; of the samples since the decision the older show the button
  as it was, the newer as it is to be (`On` is monotone along the inbox); a cached
  sample younger than the decision that shows the goal proves that the event is
  done. This is why an acknowledgement must be younger than the sample the
  decision was taken on.
* `RefusalsFit`: an exception that names the last command of a side means that it
  was not served, as numbers are not reused while anything holds them
  (`FreshNumber`, by counting). An exception nobody can attribute releases nothing.
* `WorkerFits`, `RequestsFit`: between its locked sections the worker's decision
  stays right, and once a request's event is done the button is where the request
  wants it, so the recheck lets no second one pass.
* `Yielding`: no ON is left in a decision while the cutoff holds.

The run `worker` numbers every call (`Untracked = FALSE`); the theorem also has
the ones whose number could not be had.

The theorem has two hypotheses on what the environment does, `Presses = {}` and
`Resets = {}`. The first is inherent in a toggle: a pilot's press between the
sample and the event reverses it, which no program can prevent. The second is
finding 1, and the run that shows it has `Resets` set.

**AircraftSession.** What the worker believes is out of date by whatever is still
queued, so `SessionInv` says that the queue is a path (`Path`) of moments of the
simulator (its world, what it is busy with, the aircraft) from the one the worker
believes in to the present. Samples and answers tell of the moment they stand
at; only lifecycle events move to the next.

* `Told`: the lifecycle's pending operations are those of the path's head, and an
  epoch in which somebody saw readiness has the head's world as long as nothing
  is pending; once something is, the epoch is over.
* `Cached`: with nothing pending at the head, every cached sample, poll answer
  and calibration is empty or of the head. A boundary empties the caches before
  anything of the next world can arrive.

The path is found, not stored: the invariant says that there is one, and each
step gives the next (`PathGrows`, `PathShrinks`, `PathEnds`). TLC checked it
first with the path as a variable. The hypothesis `Lossless`, which the run has
too, is what the code needs from SimConnect: a load that is announced to no
connection, and over before the next is open, would leave caches of the old
world in an epoch nobody ended.

**CaptureManager.** The properties are about what several queues will execute
later, so `IInv` speaks of every command queued, not only of the heads. Its parts
(`Fits`) take the state they are about as parameters, as one action under the
mutex is several of the manager's steps in turn: `SettledKeeps` (apply_deferred),
`CollectKeeps` (collect), `PublishKeeps` (publish_list), `AssignKeeps`,
`BeginKeeps`, `EndKeeps` and `TurnKeeps` are proved once and chained.

* `Timeline`: every value that was promised and not reached stands once in some
  queue, as a signal, behind a wait for the value before it and behind the
  commands of its receipt, which are all on that queue. A wait in front of a
  signal is for less than the signal's value. So the next value is always
  reachable (`GpuNeverStuck`: the queue that holds it is not blocked), and two
  ordered heads are of one value and hence of one queue (`ReceiptsAreSerial`).
* `WritesFit`: a queued write is of the packet's present recording, and either
  its packet is quarantined, or it escaped and its packet will be quarantined
  before packets are looked at again (`Doomed`), or it is of the receipt under
  way, or of an earlier one (`Received`): then the packet is still recorded, or a
  fence of the last producer stands behind the write and holds the packet back.
* `FencesFit`: a fence is on the queue that executed the recording last, and
  everything other queues did with the recording was ordered before it. This is
  why one fence is enough for a list that is executed on several queues.
* `ReadsFit`, `LeasesFit`: a frame that is read is leased by the service, or was
  returned under a value that is not reached before the read is done.
* `FlightFits`, `ListsFit`, `EscapesFit`, `OutputsFit`: whose the receipt is and
  what it carries; the manager knows of a list what it holds; every list of a
  batch on its way past the ordering has nothing in use, or its notice is on the
  way; a read of the output past the ordering is known.

Two facts had to be added to make it inductive: that a batch that bypasses the
ordering after a failure holds only quarantined packets, and that the service
consumes under a value within the timeline's limit. The theorem covers all
faults at once, and any number of threads, queues, lists and packets; the run
has one list, packet or fault of each kind that matters.

**MemoryProof.** A proof need not be true when the bytes are copied under it; the
last look only has to find out. So every proof, and every copy, carries a
disjunction: what it says is what the page shows, or is what the page showed
earlier in the stage, or the page has come back (`RegionsFit`, `PagesFit`,
`CopyFits`). When `finish()` finds a proof true, the second can only hold of a page
that came back (`ReturnsAreSeen`). A page proof needs a third way out, because it
rests on an allocation that was proved separately: the allocation may have been
replaced in between (`Lost`), and the page then showed free memory, which it would
have to show again before that allocation could be back. That memory is whole,
every page of an allocation being of it (`MemoryFits`), is what lets the last query
of the allocation's first page speak for all its pages, and one owner for both
pages of a flag word. The run of like pages and the fresh region that `finish()`
starts from are least elements, which come from the well-foundedness of the
naturals (`Smallest`).

**SubmissionPool.** The open receipt's slots are the recorded ones, what is
recorded or submitted is covered by a fence value, and what was lost is
quarantined.

**Only model-checked.** Liveness and everything under fairness (`RequestEnds`,
`CutoffDelivered`, `FramesEnd`, `PoolSlotsReturn`, `ConnectAnswered`,
`SetupSettles`, `WarmupEnds`, `ManualIsAnswered`, `PairDrains`).
`DisplaySafety` rests on a fold over a log, that is on induction over data,
for which the library's theorems cannot be used here. `BindingSafety`,
`HooksAreConsiderate`, `BoundIsEntered`, `SidesAreKept`,
`CompanionSafety`, `FilesSafety`, `LinkHolds`, `StartsAreWanted`, `SavedIsMeant`,
`LeasedFrameIsFinal` and the part of `CameraSafety` that is of `SceneSession` are
within reach and have no proof yet.

## 6. Findings and observations

**Finding 1** (`taxi_reselect`). `reset_session` (`taxi_button_command.hpp:74`)
forgets events under way although the connection is kept. The cutoff may send a
second toggle on a sample older than the first one's effect;
`docs/keyboard-shortcuts.md:19` says a pending toggle waits for its
acknowledgement.

Seen while modelling, checked where a module name is given, not claimed as
defects:

* `SceneSourceState`: `rearm_retained_rt` (`scene_source_state.cpp:142`) restores
  a render-target model that an executed recording, invalid as a whole, had
  already left; `scene_source_state.hpp:74` says it does not revive a source
  that already left RT (`LeftRtIsNotRevived` states it, no run checks it).
* `DisplayRouting`: `observe_resource` (`d3d12_bridge.cpp:719`) replaces the
  registry entry of a destroyed texture when a new one is created at its address
  before the next `discover_pfds`; then `routes.forget` is never called for the
  old one, and the side names a texture that is gone until the user assigns
  another or the session changes. `taxi_button_routes.hpp:50` says "The caller
  serializes access and forgets destroyed resources" (`DestroyedIsForgotten`
  states it, no run checks it).
* `LateBind`: an RT entry of a texture that cannot be classified leaves the hint
  standing, although the comment at `d3d12_bridge.cpp:673` says an unrecognized
  entry makes the bind ambiguous.
* `SceneHandoff`/`FrameService`: a published snapshot may outlive the scene's
  identity until the next service call.
* `CompanionLink`: a transient pid 0 of `find_simulator_attach`
  (`launcher.hpp:271`, `companion.cpp:1025`) clears `load_started`, after which a
  second LoadLibrary is possible. `TaxiCameraStart`'s `started` stays TRUE, so a
  bridge thread that died is not restarted.
* `PfdSubmission`: writes no command of a list names are unknown to the ledger;
  a suffix copy is kept even if a later list overwrites the display without an
  insertable after-state.
* `DisplayRouting`: `replace_detected` recovers automatically for the allocation
  policy, although the guard's comment (`taxi_button_routes.hpp:128`) speaks of
  both sides lost.
* `HookSlots`: a NativeSlot whose restore fails leaves the page writable and
  later slots record "writable" as the prior protection; the queue observer does
  not disable registered queues on slot_changed.
* `SettingsFiles`: when `load_settings` refuses the file of the selected aircraft
  at a start (`companion.cpp:1801`), `current` stays the defaults of the A380,
  whatever aircraft is selected, under a notice that speaks of profile defaults.
  The next save writes them over a valid A380 file, and `auto_profile` makes that
  save by itself (`companion.cpp:646`) before it switches to the detected
  aircraft; `docs/aircraft-profiles.md:5` says that each profile owns its
  calibration. With `Damaged = {"a", "b"}` in MCCompanion.cfg TLC finds
  `KeptIsOnDisk`, a part of `FilesSafety`, violated this way.
* `SettingsFiles`: the legacy import by CopyFileW is not atomic;
  `apply(false)` clears `dirty` while edits are published but unsaved;
  WM_DPICHANGED, Auto-connect and "Stop camera tests" rebuild the controls and
  discard typed values while `dirty` stays set.
* `RotatingLog`: a failed rollback of a partial write leaves half a record.
* `Updater`: an automatic check after 24 h removes a declined download.
* `PfdStamp`: a root signature whose lifetime registration fails once and
  succeeds on a second identical SetGraphicsRootSignature
  (`d3d12_bridge.cpp:2036`) would start with empty observed arguments.
* `ViewPool`: if the renderer changes while retired views are pending, `observe`
  cannot succeed again; `prepare_owned_view_aa` (`probe.cpp:681`) notes a view
  only when `disable_owned_view_aa` is complete, so a write followed by a failed
  recheck leaves the bit cleared and unledgered; a pass that notices a teardown
  and creates a pair at once overwrites `owned_pool_views` before
  `clear_retired_pair` (`view_pool.hpp:94`).
* `ScenePass`: `docs/architecture.md:143` says a closed interval follows every
  pulse; the pass that should have closed the gate may be unable to read its
  view, and the pulse then hands over to the other camera
  (`ClosedAfterEveryPulse`). A `record_stop` of an inspection may overwrite the
  recovery state of a newer request (`probe.cpp:1143`,
  `StopsBelongToTheirRequest`).

By design: a pilot's press that races the cutoff's event leaves the button on
and is not answered by a second event ("never repeat an uncertain toggle").

## 7. Not modelled

Native layout contracts (tables of offsets), mounts and poses (geometry), write
budget, exposure and progress display, crash evidence, the aircraft catalog, the
installer and tests. Within modelled components: oversized batches and the source
proof of tail captures (`scene_capture_manager.cpp:1438`), a simulator without
flow events and connections that lose announcements
(`body_pose_provider.cpp:612`), ground, lighting and speed samples.
