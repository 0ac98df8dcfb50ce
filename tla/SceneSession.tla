---------------------------- MODULE SceneSession -----------------------------
(***************************************************************************)
(* Flight sessions, profile changes and camera starts: the mailbox of      *)
(* camera/probe between the control thread and the update observer.        *)
(*                                                                         *)
(* The control thread leaves requests in a mailbox (box) guarded by one    *)
(* mutex; the observer runs on the engine's update thread, samples the box *)
(* once per pass and goes back to the mutex to commit.  Between the two    *)
(* the simulator may load another flight, and the control thread may stop, *)
(* start again, or ask for another profile.  What the observer does with   *)
(* the views of an established pair between the two is in module ScenePass.*)
(*                                                                         *)
(* A pair is one number; pair is what PairController publishes (module     *)
(* EntryPair).  native holds the pairs whose pooled views the renderer has *)
(* not released; the last group of variables is history.                   *)
(***************************************************************************)
EXTENDS Naturals, FiniteSets

CONSTANTS
  Profiles,    \* aircraft profiles, positive numbers
  Default,     \* the profile of a fresh process
  MaxEpoch,    \* bound of the model: flight sessions
  MaxPairs,    \* bound of the model: pairs ever created
  MaxCalls,    \* bound of the model: calls of the control thread and
               \* times the telemetry goes stale, together
  MaxRetries   \* bound of the model: start revisions made by retries

VARIABLES
  world,                           \* the simulator's session
  box,                             \* under the mailbox mutex
  hooked, enabled, starting,       \* request_scene_test under way
  pair, gate, closed_seen,         \* the pair and its render gates
  native, ledger, pooled,          \* pooled views on their way out
  pass,                            \* the observer's pass
  aircraft_profile, deferred_at,
  made_for, licensed, intent, asked_for, lost, made, calls

control == <<hooked, enabled, starting, calls>>
engine  == <<gate, closed_seen, native, ledger, pooled, aircraft_profile, deferred_at, made>>
ghost   == <<made_for, licensed, intent, asked_for, lost>>
vars    == <<world, control, box, pair, engine, pass, ghost>>

Pairs   == 1..MaxPairs
Epochs  == 0..MaxEpoch
NoPair  == [ids |-> 0, whole |-> FALSE, asked |-> "none", busy |-> FALSE]
NoHold  == [id |-> 0, state |-> "wait", ids |-> 0, dims |-> 0]
NoReset == [id |-> 0, retired |-> FALSE]
Idle    == [pc |-> "idle", epoch |-> 0, ready |-> FALSE, loading |-> FALSE, start |-> FALSE,
            revision |-> 0, token |-> 0, hold |-> NoHold, drained |-> FALSE, valid |-> FALSE, resume |-> FALSE]

holding(b)  == b.hold.id # 0
awaiting(b) == holding(b) /\ b.hold.state = "await"
resetting   == box.reset.id # 0

(* session_work_allowed: no reset is asked for and the flight is the one   *)
(* the last start was authorised for.                                      *)
work_allowed(b) == ~b.reset_requested /\ b.authorised = world.epoch /\ world.ready

(* PairController::cancel_uncreated_request: what it answers and leaves.   *)
cancel_answer == IF pair.busy THEN "busy" ELSE IF pair.ids # 0 THEN "owned" ELSE "cancelled"
cancelled     == IF cancel_answer = "cancelled" THEN NoPair ELSE pair
-----------------------------------------------------------------------------
(* RetainedProfileTransition.  A hold is bound to one pair and to the      *)
(* dimensions that pair is known to have.                                  *)
valid_pair(p) == p.ids # 0 /\ p.whole /\ p.asked = "none" /\ ~p.busy

begin_hold(id, p, dims) ==
  [id    |-> id, ids |-> p.ids, dims |-> dims,
   state |-> IF p.asked # "none" \/ p.busy THEN "refused"
             ELSE IF p.ids = 0 THEN "ready"
             ELSE IF valid_pair(p) THEN "wait" ELSE "refused"]

defer_pair(id) == [NoHold EXCEPT !.id = id, !.state = "await"]

begin_published_SlipAnyEvidence(id, p, allocation) == begin_hold(id, p, allocation.dims)
begin_published(id, p, allocation) ==
  IF valid_pair(p) /\ allocation.ids # p.ids THEN defer_pair(id) ELSE begin_hold(id, p, allocation.dims)

can_resume(hold, p) == hold.id # 0 /\ hold.state = "ready" /\ valid_pair(p) /\ hold.ids = p.ids
-----------------------------------------------------------------------------
(* begin_session_reset, by the control thread or by the observer.  Without *)
(* an observer that runs, an empty pair is acknowledged at once.           *)
acknowledge_SlipAlwaysWaits(p, answer) == FALSE
acknowledge_SlipEmptySnapshot(p, answer) == p.ids = 0
acknowledge(p, answer) == ~(hooked /\ enabled) /\ answer = "cancelled" /\ p.ids = 0

begin_reset(id) ==
  /\ pair' = cancelled
  /\ box' = [box EXCEPT !.reset_requested = TRUE, !.suspended = TRUE, !.start = FALSE,
                        !.revision = @ + 1, !.restart = FALSE, !.wanted = FALSE, !.profile = id,
                        !.hold = NoHold, !.token = @ + 1,
                        !.reset = [id |-> id, retired |-> acknowledge(cancelled, cancel_answer)]]
  /\ intent' = "stop"

call == calls < MaxCalls /\ calls' = calls + 1

request_scene_session_reset(id) ==
  /\ call /\ starting = "no"
  /\ begin_reset(id)
  /\ asked_for' = 0
  /\ UNCHANGED <<world, hooked, enabled, starting, engine, pass, made_for, licensed, lost>>

(* request_scene_profile_transition: a full reset is never downgraded.     *)
request_scene_profile_transition(id) ==
  /\ call /\ starting = "no"
  /\ \/ resetting /\ begin_reset(id) /\ asked_for' = 0
     \/ /\ ~resetting
        /\ pair' = cancelled
        /\ box' = [box EXCEPT !.suspended = TRUE, !.start = FALSE, !.revision = @ + 1,
                              !.restart = FALSE, !.wanted = FALSE, !.profile = id, !.token = @ + 1,
                              !.hold = IF cancel_answer = "busy" THEN defer_pair(id)
                                       ELSE begin_published(id, cancelled, box.allocation)]
        /\ intent' = "stop" /\ asked_for' = id
  /\ UNCHANGED <<world, hooked, enabled, starting, engine, pass, made_for, licensed, lost>>

(* request_scene_stop leaves a held reset or a retained pair alone.        *)
request_scene_stop ==
  /\ call /\ starting = "no"
  /\ LET keeps == resetting \/ (holding(box) /\ pair.ids # 0)
     IN  /\ box' = [box EXCEPT !.start = FALSE, !.restart = FALSE, !.revision = @ + 1, !.wanted = FALSE,
                               !.hold = IF keeps THEN @ ELSE NoHold]
         /\ pair' = IF keeps THEN pair ELSE [pair EXCEPT !.asked = "disable"]
         /\ asked_for' = IF keeps THEN asked_for ELSE 0
  /\ intent' = "stop"
  /\ UNCHANGED <<world, hooked, enabled, starting, engine, pass, made_for, licensed, lost>>

(* request_scene_profile, while nothing is owned or being created.         *)
request_scene_profile(id) ==
  /\ call /\ starting = "no"
  /\ pair.ids = 0 /\ ~pair.busy /\ box.profile # id
  /\ box' = [box EXCEPT !.profile = id]
  /\ UNCHANGED <<world, hooked, enabled, starting, pair, engine, pass, ghost>>

(* suspend_scene_rendering.                                                *)
suspend_scene_rendering(s) ==
  /\ box' = [box EXCEPT !.suspended = s \/ ~work_allowed(box)]
  /\ box' # box
  /\ UNCHANGED <<world, control, pair, engine, pass, ghost>>

(* request_scene_test: the hook is installed on the first call, then the   *)
(* readiness is checked, the mutex left for the calibration, and everything*)
(* checked again before the start is queued.                               *)
reset_ready == world.ready /\ (resetting => box.reset.retired /\ pair.ids = 0 /\ pair.asked = "none" /\ ~pair.busy)

start_begins ==
  /\ call /\ starting = "no"
  /\ \/ hooked' = TRUE
     \/ ~hooked /\ hooked' = FALSE             \* the hook was refused
  /\ starting' = IF hooked' /\ reset_ready THEN "calibrate" ELSE "no"
  /\ UNCHANGED <<world, enabled, box, pair, engine, pass, ghost>>

start_deferred ==
  /\ starting = "calibrate" /\ ~reset_ready
  /\ starting' = "no"
  /\ UNCHANGED <<world, hooked, enabled, calls, box, pair, engine, pass, ghost>>

Disabled_SlipKeepsPair(p) == p
Disabled(p) == [p EXCEPT !.asked = "disable"]

start_queued ==
  /\ starting = "calibrate" /\ reset_ready
  /\ starting' = "no"
  /\ LET consumed == [box EXCEPT !.reset = NoReset, !.reset_requested = FALSE]
         retained == can_resume(box.hold, pair)
     IN  \/ /\ holding(box) /\ pair.ids # 0 /\ ~retained
            /\ box' = consumed
            /\ UNCHANGED <<enabled, pair, intent, asked_for>>
         \/ /\ retained
            /\ box' = [consumed EXCEPT !.restart = TRUE, !.wanted = TRUE, !.start = FALSE, !.revision = @ + 1]
            /\ enabled' = TRUE /\ intent' = "run"
            /\ UNCHANGED <<pair, asked_for>>
         \/ /\ ~(holding(box) /\ pair.ids # 0)
            /\ box' = [consumed EXCEPT !.hold = NoHold, !.authorised = world.epoch, !.wanted = TRUE,
                                       !.start = TRUE, !.revision = @ + 1]
            /\ pair' = Disabled(pair)
            /\ enabled' = TRUE /\ intent' = "run" /\ asked_for' = 0
  /\ UNCHANGED <<world, hooked, calls, engine, pass, made_for, licensed, lost>>
-----------------------------------------------------------------------------
(* The observer.  A pass samples the session first and the box second: a   *)
(* new load or another flight with entries still owned starts a reset.     *)
session_changed(p, started, current) == p.ids # 0 /\ started # current

observer ==
  /\ enabled /\ pass.pc = "idle"
  /\ pass' = [Idle EXCEPT !.pc = "sampled", !.epoch = world.epoch, !.ready = world.ready,
                          !.loading = (world.loading # "no")]
  /\ UNCHANGED <<world, control, box, pair, engine, ghost>>

Branch(b, p) ==
  IF b.reset.id # 0 THEN "reset"
  ELSE IF holding(b) /\ (p.ids # 0 \/ awaiting(b)) THEN "hold"
  ELSE IF ~pass.ready THEN "park"
  ELSE IF (b.suspended \/ ~work_allowed(b)) /\ p.ids = 0 THEN "publish"
  ELSE "manager"

sample_box ==
  /\ pass.pc = "sampled"
  /\ aircraft_profile' = IF pair.ids = 0 /\ ~pair.busy THEN box.profile ELSE aircraft_profile
  /\ IF ~resetting /\ (pass.loading \/ session_changed(pair, box.authorised, pass.epoch))
     THEN begin_reset(box.profile) /\ asked_for' = 0
     ELSE UNCHANGED <<box, pair, intent, asked_for>>
  /\ LET next == [Idle EXCEPT !.pc = Branch(box', pair'), !.start = box'.start, !.revision = box'.revision]
     IN  \/ pass' = next
         \/ /\ next.pc = "manager" /\ next.start /\ pair.ids = 0    \* public telemetry is still pending
            /\ pass' = [next EXCEPT !.pc = "publish"]
         \/ /\ next.pc # "reset" /\ pair.asked = "none"           \* idle, or inspected a moment ago
            /\ pass' = Idle
  /\ UNCHANGED <<world, control, gate, closed_seen, native, ledger, pooled, deferred_at, made, made_for, licensed, lost>>

(* erase and ViewRetirement: a gate is closed on one update, seen closed   *)
(* on a later one, and only then is the entry erased; never while a flight *)
(* loads, and under a reset only once the next flight is ready.  An entry  *)
(* the simulator removed by itself (gone) is only noticed.                 *)
gone == pair.ids \in native
may_erase == world.loading = "no" /\ (box.reset_requested => world.ready)

Retire ==
  \/ /\ gone
     /\ pair' = NoPair
     /\ UNCHANGED <<gate, closed_seen, native, ledger>>
  \/ /\ ~gone /\ gate = "open"
     /\ gate' = "closed" /\ closed_seen' = FALSE
     /\ pair' = [pair EXCEPT !.whole = FALSE, !.asked = "none"]
     /\ UNCHANGED <<native, ledger>>
  \/ /\ ~gone /\ gate = "closed" /\ ~closed_seen
     /\ closed_seen' = TRUE
     /\ pair' = [pair EXCEPT !.whole = FALSE, !.asked = "none"]
     /\ UNCHANGED <<gate, native, ledger>>
  \/ /\ ~gone /\ gate = "closed" /\ closed_seen /\ may_erase
     /\ native' = native \cup {pair.ids}
     /\ ledger' = ledger \cup {pair.ids}
     /\ pair' = NoPair
     /\ UNCHANGED <<gate, closed_seen>>
  \/ /\ ~gone                                \* the view could not be inspected
     /\ closed_seen' = FALSE
     /\ pair' = [pair EXCEPT !.whole = FALSE, !.asked = "none"]
     /\ UNCHANGED <<gate, native, ledger>>

(* clear_retired_pair, and the pool inspection that empties the ledger.    *)
clear_retired_pair_SlipDropsViews == ledger
clear_retired_pair == IF pooled = 0 THEN ledger ELSE ledger \cup {pooled}
Observed(views) == views \cap native

(* service_session_reset: disable, retire, and acknowledge in three steps. *)
reset_retires ==
  /\ pass.pc = "reset"
  /\ pass' = [pass EXCEPT !.pc = "drain"]
  /\ \/ /\ cancel_answer = "owned"
        /\ Retire
     \/ /\ pair' = cancelled                 \* nothing owned, or the manager is not the owner's
        /\ UNCHANGED <<gate, closed_seen, native, ledger>>
  /\ UNCHANGED <<world, control, box, pooled, aircraft_profile, deferred_at, made, ghost>>

reset_drains ==
  /\ pass.pc = "drain"
  /\ LET drained == cancel_answer = "cancelled" IN
     /\ pair' = cancelled
     /\ IF drained
        THEN /\ ledger' \in {clear_retired_pair, Observed(clear_retired_pair)}
             /\ pooled' = 0 /\ gate' = "closed" /\ closed_seen' = FALSE
        ELSE UNCHANGED <<ledger, pooled, gate, closed_seen>>
     /\ pass' = [pass EXCEPT !.pc = "acknowledge", !.drained = drained]
  /\ UNCHANGED <<world, control, box, native, aircraft_profile, deferred_at, made, ghost>>

observe_empty_SlipIgnoresPool(b) == IF b.reset.id # 0 /\ pass.drained THEN [b EXCEPT !.reset.retired = TRUE] ELSE b
observe_empty(b) ==
  IF b.reset.id # 0 /\ pass.drained /\ ledger = {} THEN [b EXCEPT !.reset.retired = TRUE] ELSE b

reset_acknowledges ==
  /\ pass.pc = "acknowledge"
  /\ box' = observe_empty(box)
  /\ pass' = [pass EXCEPT !.pc = "publish"]
  /\ UNCHANGED <<world, control, pair, engine, ghost>>

(* service_profile_transition: settle what the hold is about, inspect the  *)
(* pair without the mutex, close its gates, and commit only if no other    *)
(* request came in between.                                                *)
hold_settles ==
  /\ pass.pc = "hold"
  /\ LET bound == begin_published(box.hold.id, cancelled, box.allocation)
     IN  IF ~holding(box) THEN pass' = [pass EXCEPT !.pc = "publish"] /\ UNCHANGED <<box, pair>>
         ELSE IF awaiting(box)
         THEN /\ pair' = cancelled
              /\ box' = [box EXCEPT !.hold = bound]
              /\ pass' = [pass EXCEPT !.pc = IF bound.state = "await" \/ cancel_answer = "cancelled"
                                             THEN "publish" ELSE "inspect",
                                      !.hold = bound, !.token = box.token, !.resume = box.restart,
                                      !.revision = box.revision]
         ELSE /\ pass' = [pass EXCEPT !.pc = "inspect", !.hold = box.hold, !.token = box.token,
                                      !.resume = box.restart, !.revision = box.revision]
              /\ UNCHANGED <<box, pair>>
  /\ UNCHANGED <<world, control, engine, ghost>>

Inspections_SlipTrustsCall(open) == {"ready", "wait"}
Inspections(open) == IF open THEN {"wait"} ELSE {"ready", "wait"}

hold_inspects ==
  /\ pass.pc = "inspect"
  /\ \/ /\ pass.hold.state \notin {"refused"} /\ valid_pair(pair) /\ pair.ids = pass.hold.ids /\ ~gone
        /\ pass.hold.dims = made_for[pair.ids]
        /\ \/ gate' = "closed"               \* close, and inspect again
           \/ gate' = gate                   \* a view is pending: nothing is called
        /\ \E s \in Inspections(gate' = "open") :
             pass' = [pass EXCEPT !.pc = "commit", !.hold.state = s, !.valid = (s = "ready")]
     \/ /\ \/ pass.hold.state = "refused" \/ gone \/ ~valid_pair(pair) \/ pair.ids # pass.hold.ids
           \/ pass.hold.ids # 0 /\ pass.hold.dims # made_for[pass.hold.ids]
        /\ pass' = [pass EXCEPT !.pc = "commit", !.hold.state = "refused"]
        /\ UNCHANGED gate
     \/ /\ pass' = [pass EXCEPT !.pc = "commit"]   \* the manager could not be inspected
        /\ UNCHANGED gate
  /\ UNCHANGED <<world, control, box, pair, closed_seen, native, ledger, pooled, aircraft_profile, deferred_at, made, ghost>>

Current_SlipLatestWins == TRUE
Current == pass.token = box.token

hold_commits ==
  /\ pass.pc = "commit"
  /\ pass' = [pass EXCEPT !.pc = "publish"]
  /\ LET resumes   == /\ pass.valid /\ pass.resume /\ box.restart /\ box.revision = pass.revision
                      /\ box.wanted /\ work_allowed(box)
     IN  IF ~Current THEN UNCHANGED <<box, aircraft_profile, asked_for>>
         ELSE /\ aircraft_profile' = IF pass.valid THEN box.profile ELSE aircraft_profile
              /\ \/ /\ resumes
                    /\ box' = [box EXCEPT !.hold = NoHold, !.restart = FALSE]
                    /\ asked_for' = 0
                 \/ box' = [box EXCEPT !.hold = pass.hold] /\ UNCHANGED asked_for
  /\ UNCHANGED <<world, control, pair, gate, closed_seen, native, ledger, pooled, deferred_at, made, made_for, licensed, intent, lost>>

(* park_unready_session: what is owned and can be inspected is closed.     *)
park_unready_session ==
  /\ pass.pc = "park"
  /\ gate' \in {gate, "closed"}
  /\ pass' = [pass EXCEPT !.pc = "publish"]
  /\ UNCHANGED <<world, control, box, pair, closed_seen, native, ledger, pooled, aircraft_profile, deferred_at, made, ghost>>
-----------------------------------------------------------------------------
(* The ordinary pass.  The manager may be refused, for good or for now:    *)
(* a queued start is consumed, a temporary failure asks for removal.       *)
manager_refused ==
  /\ pass.pc = "manager"
  /\ box' = IF pass.start /\ box.start /\ box.revision = pass.revision
            THEN [box EXCEPT !.start = FALSE, !.revision = @ + 1] ELSE box
  /\ pair' \in {pair, [pair EXCEPT !.asked = "disable"]}
  /\ pass' = [pass EXCEPT !.pc = "publish"]
  /\ UNCHANGED <<world, control, engine, ghost>>

(* The first process_update settles what was asked; then a bounded retry   *)
(* may queue a start of its own (ScenePass).                               *)
manager_valid ==
  /\ pass.pc = "manager"
  /\ IF pair.asked = "disable" \/ (pair.ids # 0 /\ ~pair.whole)
     THEN IF pair.ids # 0 THEN Retire ELSE pair' = NoPair /\ UNCHANGED <<gate, closed_seen, native, ledger>>
     ELSE UNCHANGED <<pair, gate, closed_seen, native, ledger>>
  /\ pass' = [pass EXCEPT !.pc = "retry"]
  /\ UNCHANGED <<world, control, box, pooled, aircraft_profile, deferred_at, made, ghost>>

Retries(b) ==
  /\ ~pass.start /\ pair = NoPair /\ ~b.start /\ b.revision = pass.revision
  /\ b.wanted /\ ~b.suspended /\ work_allowed(b)

(* ViewCreationWait::resume: a creation put off for want of pool capacity  *)
(* is asked for again, unless another start or a stop came since.          *)
Resumes_SlipAnyRevision(b) == pair.ids = 0 /\ ~b.suspended /\ work_allowed(b)
Resumes(b) == b.revision = deferred_at /\ b.wanted /\ pair.ids = 0 /\ ~b.suspended /\ work_allowed(b)

retry_start ==
  /\ pass.pc = "retry"
  /\ deferred_at' = IF box.revision = deferred_at /\ box.wanted /\ ~Resumes(box) THEN deferred_at ELSE 0
  /\ \/ /\ deferred_at # 0 /\ Resumes(box)
        /\ pair' = NoPair
        /\ box' = [box EXCEPT !.start = TRUE]
        /\ pass' = [pass EXCEPT !.pc = "licence", !.start = TRUE]
     \/ /\ Retries(box) /\ made < MaxPairs /\ box.revision < calls + MaxRetries
        /\ box' = [box EXCEPT !.start = TRUE, !.revision = @ + 1]
        /\ pass' = [pass EXCEPT !.pc = "licence", !.start = TRUE, !.revision = box.revision + 1]
        /\ UNCHANGED pair
     \/ /\ pass' = [pass EXCEPT !.pc = IF pair.ids = 0 /\ pass.start THEN "licence" ELSE "views"]
        /\ UNCHANGED <<box, pair>>
  /\ UNCHANGED <<world, control, gate, closed_seen, native, ledger, pooled, aircraft_profile, made, ghost>>

(* creation_capacity: no view of a pair that was retired is still on its   *)
(* way out of the pool.                                                    *)
creation_capacity_SlipOnePending(views) == Cardinality(views) < 2
creation_capacity(views) == views = {}

(* The start is licensed under the mutex, after the slow calibration.      *)
Licensed_SlipAnyRevision(b) == ~b.suspended /\ work_allowed(b)
Licensed(b) == b.start /\ b.revision = pass.revision /\ ~b.suspended /\ work_allowed(b)

start_licensed ==
  /\ pass.pc = "licence"
  /\ ledger' = Observed(ledger)
  /\ IF creation_capacity(ledger') /\ Licensed(box) /\ made < MaxPairs
     THEN /\ pair' = [pair EXCEPT !.asked = "enable"]
          /\ box' = [box EXCEPT !.start = FALSE]
          /\ pass' = [pass EXCEPT !.pc = "take"]
     ELSE pass' = [pass EXCEPT !.pc = "views"] /\ UNCHANGED <<pair, box>>
  /\ UNCHANGED <<world, control, gate, closed_seen, native, pooled, aircraft_profile, deferred_at, made, ghost>>

start_waits ==
  /\ pass.pc = "licence"
  /\ pass' = [pass EXCEPT !.pc = "publish"]
  /\ UNCHANGED <<world, control, box, pair, engine, ghost>>

(* process_update with initialize and create: the session is checked again *)
(* at each, and the engine's create may still answer after it changed.     *)
creation_begins ==
  /\ pass.pc = "take"
  /\ IF pair.asked = "enable" /\ work_allowed(box)
     THEN /\ pair' = [pair EXCEPT !.busy = TRUE, !.asked = "none"]
          /\ licensed' = box.authorised
          /\ pass' = [pass EXCEPT !.pc = "create"]
     ELSE /\ pair' = IF pair.asked = "enable" THEN NoPair ELSE pair
          /\ UNCHANGED licensed
          /\ pass' = [pass EXCEPT !.pc = "views"]
  /\ UNCHANGED <<world, control, box, engine, made_for, intent, asked_for, lost>>

creation_ends ==
  /\ pass.pc = "create"
  /\ gate' = "closed" /\ closed_seen' = FALSE
  /\ deferred_at' \in {deferred_at, pass.revision}
  /\ \/ \E whole \in {w \in BOOLEAN : w => deferred_at' = deferred_at} :
          /\ made' = made + 1
          /\ pair' = [pair EXCEPT !.ids = made', !.whole = whole, !.busy = FALSE]
          /\ pooled' = made'
          /\ lost' = IF pooled = 0 THEN lost ELSE lost \cup {pooled}
          /\ made_for' = [made_for EXCEPT ![made'] = aircraft_profile]
     \/ /\ pair' = [pair EXCEPT !.busy = FALSE]
        /\ UNCHANGED <<made, pooled, made_for, lost>>
  /\ pass' = [pass EXCEPT !.pc = IF pair'.ids # 0 THEN "publish" ELSE "views"]
  /\ UNCHANGED <<world, control, box, native, ledger, aircraft_profile, licensed, intent, asked_for>>

(* A new pair stays closed for this pass; an established one is inspected, *)
(* and its gates opened by a native call that follows the check.           *)
views_checked ==
  /\ pass.pc = "views" /\ pair.whole /\ pair.asked = "none"
  /\ ~box.suspended /\ work_allowed(box) /\ ~gone
  /\ pass' = [pass EXCEPT !.pc = "open"]
  /\ UNCHANGED <<world, control, box, pair, engine, ghost>>

gates_open ==
  /\ pass.pc = "open"
  /\ gate' = "open" /\ closed_seen' = FALSE
  /\ pass' = [pass EXCEPT !.pc = "publish"]
  /\ UNCHANGED <<world, control, box, pair, native, ledger, pooled, aircraft_profile, deferred_at, made, ghost>>

views_wait ==
  /\ pass.pc = "views"
  /\ IF pair.ids = 0
     THEN ledger' = clear_retired_pair /\ pooled' = 0 /\ gate' = "closed" /\ closed_seen' = FALSE
     ELSE gate' \in {gate, "closed"} /\ UNCHANGED <<ledger, pooled, closed_seen>>
  /\ pass' = [pass EXCEPT !.pc = "publish"]
  /\ UNCHANGED <<world, control, box, pair, native, aircraft_profile, deferred_at, made, ghost>>

(* hold_changed_session at a destructive fallback, else the pair leaves.   *)
views_lost ==
  /\ pass.pc = "views" /\ pair.whole
  /\ IF resetting THEN UNCHANGED <<box, pair, gate, closed_seen, native, ledger, intent, asked_for>>
     ELSE IF world.loading # "no" \/ session_changed(pair, box.authorised, world.epoch)
     THEN /\ begin_reset(box.profile) /\ asked_for' = 0
          /\ UNCHANGED <<gate, closed_seen, native, ledger>>
     ELSE Retire /\ UNCHANGED <<box, intent, asked_for>>
  /\ pass' = [pass EXCEPT !.pc = "publish"]
  /\ UNCHANGED <<world, control, pooled, aircraft_profile, deferred_at, made, made_for, licensed, lost>>

(* capture_pose meets an invalid WORLD value before any load was announced:*)
(* the load is announced and a reset begun from inside the pass.           *)
pose_of_another_world ==
  /\ pass.pc = "licence" \/ (pass.pc = "views" /\ pair.whole)
  /\ world.loading = "announced" \/ (world.loading = "no" /\ world.epoch < MaxEpoch)
  /\ world' = [world EXCEPT !.loading = "announced", !.ready = FALSE]
  /\ IF resetting THEN UNCHANGED <<box, pair, intent, asked_for>> ELSE begin_reset(box.profile) /\ asked_for' = 0
  /\ gate' = IF pass.pc = "views" THEN "closed" ELSE gate
  /\ pass' = [pass EXCEPT !.pc = "publish"]
  /\ UNCHANGED <<control, closed_seen, native, ledger, pooled, aircraft_profile, deferred_at, made, made_for, licensed, lost>>

(* What the pass learnt of the pair's allocation is published last.        *)
publish ==
  /\ pass.pc = "publish"
  /\ box' = [box EXCEPT !.allocation = [ids |-> pair.ids, dims |-> IF pooled = 0 THEN 0 ELSE made_for[pooled]]]
  /\ pass' = Idle
  /\ UNCHANGED <<world, control, pair, engine, ghost>>
-----------------------------------------------------------------------------
(* The simulator: a load announced by an invalid world is counted later,   *)
(* every load gives a new epoch, and the telemetry may be stale for a      *)
(* while.  Native release ends by itself; a teardown may take the entries. *)
Loads(w) == w.epoch < MaxEpoch
load_announced ==
  /\ world.loading = "no" /\ Loads(world)
  /\ world' = [world EXCEPT !.loading = "announced", !.ready = FALSE]
load_counted ==
  /\ world.loading \in {"no", "announced"} /\ Loads(world)
  /\ world' = [epoch |-> world.epoch + 1, loading |-> "counted", ready |-> FALSE]
load_ends  == world.loading = "counted" /\ world' = [world EXCEPT !.loading = "no"]
aircraft_replaced ==
  /\ world.loading = "no" /\ Loads(world)
  /\ world' = [epoch |-> world.epoch + 1, loading |-> "no", ready |-> FALSE]
becomes_ready == world.loading = "no" /\ ~world.ready /\ world' = [world EXCEPT !.ready = TRUE]

session ==
  /\ \/ load_announced \/ load_counted \/ load_ends \/ aircraft_replaced \/ becomes_ready
  /\ UNCHANGED <<control, box, pair, engine, pass, ghost>>
goes_stale ==
  /\ world.ready /\ call
  /\ world' = [world EXCEPT !.ready = FALSE]
  /\ UNCHANGED <<hooked, enabled, starting, box, pair, engine, pass, ghost>>
vanish ==
  /\ pair.ids # 0 /\ ~gone /\ world.loading # "no"
  /\ native' = native \cup {pair.ids}
  /\ UNCHANGED <<world, control, box, pair, gate, closed_seen, ledger, pooled, aircraft_profile, deferred_at, made, pass, ghost>>
native_release ==
  /\ \E p \in native \ {pair.ids} : native' = native \ {p}
  /\ UNCHANGED <<world, control, box, pair, gate, closed_seen, ledger, pooled, aircraft_profile, deferred_at, made, pass, ghost>>

Init ==
  /\ world = [epoch |-> 0, loading |-> "no", ready |-> FALSE]
  /\ box = [reset_requested |-> FALSE, suspended |-> FALSE, authorised |-> 0, start |-> FALSE,
            revision |-> 0, restart |-> FALSE, wanted |-> FALSE, profile |-> Default, token |-> 0,
            hold |-> NoHold, reset |-> NoReset, allocation |-> [ids |-> 0, dims |-> 0]]
  /\ aircraft_profile = Default
  /\ hooked = FALSE /\ enabled = FALSE /\ starting = "no" /\ calls = 0
  /\ pair = NoPair /\ gate = "closed" /\ closed_seen = FALSE
  /\ native = {} /\ ledger = {} /\ pooled = 0 /\ made = 0 /\ deferred_at = 0
  /\ pass = Idle
  /\ made_for = [p \in Pairs |-> 0] /\ licensed = 0 /\ lost = {} /\ intent = "stop" /\ asked_for = 0

Control ==
  \/ \E id \in Profiles : \/ request_scene_session_reset(id) \/ request_scene_profile_transition(id)
                          \/ request_scene_profile(id)
  \/ request_scene_stop \/ start_begins \/ start_deferred \/ start_queued
  \/ \E s \in BOOLEAN : suspend_scene_rendering(s)
Pass ==
  \/ observer \/ sample_box \/ reset_retires \/ reset_drains \/ reset_acknowledges
  \/ hold_settles \/ hold_inspects \/ hold_commits \/ park_unready_session
  \/ manager_refused \/ manager_valid \/ retry_start \/ start_licensed \/ start_waits
  \/ creation_begins \/ creation_ends \/ views_checked \/ gates_open \/ views_wait \/ views_lost
  \/ pose_of_another_world \/ publish
Next == Control \/ Pass \/ session \/ goes_stale \/ vanish \/ native_release
Spec == Init /\ [][Next]_vars
-----------------------------------------------------------------------------
Holds == [id : {0} \cup Profiles, state : {"wait", "await", "ready", "refused"}, ids : 0..MaxPairs,
          dims : {0} \cup Profiles]

TypeOK ==
  /\ world \in [epoch : Epochs, loading : {"no", "announced", "counted"}, ready : BOOLEAN]
  /\ box.hold \in Holds /\ pass.hold \in Holds
  /\ box.reset \in [id : {0} \cup Profiles, retired : BOOLEAN]
  /\ box.authorised \in Epochs /\ box.token <= MaxCalls + MaxEpoch + MaxCalls
  /\ pair \in [ids : 0..MaxPairs, whole : BOOLEAN, asked : {"none", "enable", "disable"}, busy : BOOLEAN]
  /\ gate \in {"open", "closed"} /\ native \subseteq Pairs /\ ledger \subseteq Pairs

(* Safety: a reset is acknowledged only when nothing is left of the flight *)
(* before it: no entry, no creation under way or asked for, no pooled view *)
(* the renderer still holds (scene_session_reset.hpp, probe.cpp:1181).     *)
RetiredMeansGone ==
  box.reset.retired => pair.ids = 0 /\ ~pair.busy /\ pair.asked # "enable" /\ native \subseteq lost

(* Safety: no pair is created while pooled views of an earlier one are on  *)
(* their way out, however its entries went away (view_pool.hpp:97).        *)
ReleaseBeforeReuse == pair.ids # 0 => native \subseteq {pair.ids} \cup lost

(* Safety: an enable in the controller's mailbox is one the control thread *)
(* still wants: a slow calibration, a retry or a deferred creation never   *)
(* brings back a start that was stopped (probe.cpp:1488).                  *)
EnableIsWanted == pair.asked = "enable" => intent = "run"

(* Safety: a pair created under another authorisation than the present one *)
(* is on its way out: asked to leave, leaving, or part of a reset.         *)
StalePairIsLeaving ==
  pair.whole /\ licensed # box.authorised => pair.asked = "disable" \/ resetting

(* Safety: a profile transition that reports ready for a retained pair has *)
(* both render gates closed (service_profile_transition).                  *)
ReadyMeansClosed == box.hold.id # 0 /\ box.hold.state = "ready" /\ pair.ids # 0 => gate = "closed"

(* Safety: the transition in the mailbox answers the last request, not the *)
(* one an earlier pass was still inspecting for (probe.cpp:825).           *)
AnswersTheLastRequest == box.hold.id # 0 => box.hold.id = asked_for

(* Safety: the dimensions a transition expects are those of the pair it is *)
(* bound to, never of one before it (retained_profile.hpp:58).             *)
ExpectationIsItsOwn ==
  box.hold.id # 0 /\ box.hold.state \in {"wait", "ready"} /\ box.hold.ids # 0
    => box.hold.dims = made_for[box.hold.ids]

(* What view_pool.hpp:94 asks of the ledger: retired views are kept beyond *)
(* the disappearance of their entries until the pool shows them released.  *)
(* A pass that notices a teardown and creates a pair at once forgets them. *)
RetiredViewsAreKept == lost = {}

(* Safety: nobody waits for an observer that does not run: with the hook   *)
(* not installed or never enabled, a reset or a transition is answered in  *)
(* the request itself (probe.cpp:156).                                     *)
NobodyWaitsForNobody ==
  ~(hooked /\ enabled) => /\ resetting => box.reset.retired
                          /\ box.hold.id # 0 => box.hold.state \in {"ready", "refused"}

(* The parts taken together: what a reset promises, what a start means, and*)
(* what a profile transition over a retained pair promises.                *)
ResetSafety      == RetiredMeansGone /\ ReleaseBeforeReuse
StartSafety      == EnableIsWanted /\ StalePairIsLeaving
TransitionSafety == ReadyMeansClosed /\ AnswersTheLastRequest /\ ExpectationIsItsOwn

(* What the mailbox never gets wrong, together.                            *)
MailboxSafety ==
  TypeOK /\ ResetSafety /\ StartSafety /\ TransitionSafety /\ NobodyWaitsForNobody
=============================================================================
