---------------------------- MODULE PfdRecording ----------------------------
(***************************************************************************)
(* What the bridge may write into one of the simulator's command lists:    *)
(* the recording half of bridge/d3d12_bridge, with PfdCopyProof, QueryScope *)
(* and the pass scope kept by hooks/render_boundary_observer.              *)
(*                                                                         *)
(* One list (an address that a later list may reuse), one display, and the *)
(* thread that records.  A native call is one action: the hook's work      *)
(* before it, the call, the work after it.  Reset is two, since it samples *)
(* the demand before the call and publishes under observation_mutex after. *)
(* Demand, session and selection are changed by the control thread, and    *)
(* `enabled` by what happens to other lists.                               *)
(*                                                                         *)
(* Left out: what only refuses more (depth formats, the calibration        *)
(* budget, descriptor and format checks beyond `works`), and the captures  *)
(* of camera sources.  now, injected are history: the application's        *)
(* own state, and what the last call added to the list, and where.         *)
(***************************************************************************)
EXTENDS Naturals, Sequences, FiniteSets

CONSTANTS
  MaxLists,    \* bound of the model: lists that ever live at the address
  MaxChanges   \* bound of the model: what the control thread and other lists change

ASSUME PfdRecordingAssumption == MaxLists \in Nat \ {0} /\ MaxChanges \in Nat

VARIABLES
  list,        \* struct List, List::id = 0 while the registry has none
  scope,       \* the boundary's Identity, generation = 0 while it has none
  enabled,     \* the boundary's hooks are complete
  epoch,       \* observation_epoch: odd while observing
  floor,       \* session_recording_floor
  mask,        \* what is wanted of the display: camera, calibration, nothing
  session,     \* reset_display_session under way
  resetting, sampled,                            \* reset() under way
  last_id, changes,
  now, injected, planned

control == <<epoch, floor, mask, session, changes>>
native  == <<resetting, sampled>>
vars    == <<list, scope, enabled, control, native, last_id, now, injected, planned>>

Modes == {"legacy", "enhanced"}
RT(api) == IF api = "legacy" THEN "rt_legacy" ELSE "rt_enhanced"
Render  == {"rt_legacy", "rt_enhanced"}

(* List: om is what is known of the bound targets (the display is among    *)
(* them; with a snapshot of the descriptors); seen, pending, ready_mode    *)
(* are the display's slot of PfdCopyProof, open the count of QueryScope,   *)
(* s_known whether PfdSubmissionProof still stands for the recording.      *)
NoList == [id |-> 0, epoch |-> 0, ready |-> FALSE, closing |-> FALSE, closed |-> FALSE,
           dirty |-> FALSE, transition |-> FALSE, pend |-> FALSE, pend_rt |-> FALSE,
           om |-> "off", graphics |-> "partial", q_known |-> FALSE, open |-> 0,
           c_known |-> FALSE, seen |-> FALSE, pending |-> "unknown", ready_mode |-> "unknown",
           s_known |-> FALSE, adds |-> {}]
NoScope == [generation |-> 0, active |-> FALSE, suspended |-> FALSE, invalid |-> FALSE,
            prior_work |-> FALSE]

Epochs == 0..(2 * MaxChanges + 1)

Observing   == epoch % 2 = 1
recording_observed_SlipAnyEpoch(x) == Observing

recording_observed(x) == Observing /\ x.epoch = epoch
-----------------------------------------------------------------------------
(* The boundary.  same_safe: may work of ours be recorded here.            *)
same_safe_SlipNoPriorWork(s) ==
  enabled /\ s.generation # 0 /\ ~s.active /\ ~s.suspended /\ ~s.invalid

same_safe(s) ==
  enabled /\ s.generation # 0 /\ ~s.active /\ ~s.suspended /\ ~s.invalid /\ s.prior_work

scope_invalidation(s) ==
  (IF enabled THEN {} ELSE {"disabled"}) \cup (IF s.suspended \/ s.invalid THEN {"pass_state"} ELSE {})

observe_work(s) ==
  [s EXCEPT !.prior_work = @ \/ (enabled /\ s.generation # 0 /\ ~s.active /\ ~s.suspended /\ ~s.invalid)]

successful_reset(s) ==
  IF s.generation = 0 THEN s
  ELSE [NoScope EXCEPT !.generation = s.generation, !.invalid = ~enabled]

invalidate_scope(s) == IF s.generation = 0 THEN s ELSE [s EXCEPT !.invalid = TRUE]
-----------------------------------------------------------------------------
(* PfdCopyProof: a transition is evidence only after a later draw returned.*)
observe_transition(x, after) ==
  IF ~x.c_known THEN x
  ELSE [x EXCEPT !.ready_mode = "unknown", !.seen = TRUE,
                 !.pending = IF x.seen THEN "unknown" ELSE after]

proof_draw(x) ==
  IF x.c_known /\ x.seen
    THEN [x EXCEPT !.ready_mode = x.pending, !.pending = "unknown", !.seen = FALSE]
    ELSE x

forget_resource(x) == [x EXCEPT !.seen = FALSE, !.pending = "unknown", !.ready_mode = "unknown"]

stage_copy_model_SlipKeepsUnselected(x, s, sure, after) ==
  IF x.id = 0 \/ mask = "off" THEN x
  ELSE IF s.active \/ s.suspended \/ s.invalid \/ ~sure \/ ~enabled THEN [x EXCEPT !.c_known = FALSE]
  ELSE observe_transition(x, after)

stage_copy_model(x, s, sure, after) ==
  IF x.id = 0 THEN x
  ELSE IF mask = "off" THEN forget_resource(x)
  ELSE IF s.active \/ s.suspended \/ s.invalid \/ ~sure \/ ~enabled THEN [x EXCEPT !.c_known = FALSE]
  ELSE observe_transition(x, after)

(* QueryScope.                                                             *)
query_begin(x) == IF x.q_known /\ x.open = 0 THEN [x EXCEPT !.open = 1]
                  ELSE [x EXCEPT !.q_known = FALSE]
query_end(x)   == IF x.q_known /\ x.open = 1 THEN [x EXCEPT !.open = 0]
                  ELSE [x EXCEPT !.q_known = FALSE]
known_empty(x) == x.q_known /\ x.open = 0
-----------------------------------------------------------------------------
(* stage_pfd: remember the drawn display; calibrate it on the spot.        *)
stage_pfd(x, s) ==
  IF x.id = 0 \/ ~x.ready \/ ~x.dirty \/ ~recording_observed(x) THEN x
  ELSE IF x.om = "off" \/ mask = "off" THEN [x EXCEPT !.dirty = FALSE]
  ELSE [x EXCEPT !.dirty = FALSE, !.pend = TRUE, !.pend_rt = ~x.transition /\ x.om = "snapshot",
                 !.adds = IF mask = "calibrate" /\ x.om = "snapshot" /\ ~x.transition /\ same_safe(s)
                            THEN @ \cup {<<"clear", "any">>} ELSE @]

(* drain_pfds: deliver what is staged, by a copy whose state is proved, or *)
(* by a draw as the last thing in the recording.                           *)
drain_pfds_SlipPassesAllowed(x, s, ending, works) ==
  IF ~(x.id # 0 /\ x.ready /\ recording_observed(x) /\ x.pend /\ x.pend_rt /\ mask = "camera")
    THEN x
  ELSE IF x.c_known /\ x.ready_mode # "unknown" /\ works
    THEN [x EXCEPT !.pend = FALSE, !.pend_rt = FALSE, !.adds = @ \cup {<<"copy", x.ready_mode>>}]
  ELSE IF ending /\ x.om = "snapshot" /\ x.graphics = "complete"
    THEN [x EXCEPT !.pend = FALSE, !.pend_rt = FALSE, !.adds = @ \cup {<<"draw", "any">>}]
  ELSE x

drain_pfds(x, s, ending, works) ==
  IF ~(x.id # 0 /\ x.ready /\ recording_observed(x) /\ x.pend /\ x.pend_rt
       /\ same_safe(s) /\ mask = "camera")
    THEN x
  ELSE IF x.c_known /\ x.ready_mode # "unknown" /\ works
    THEN [x EXCEPT !.pend = FALSE, !.pend_rt = FALSE, !.adds = @ \cup {<<"copy", x.ready_mode>>}]
  ELSE IF ending /\ known_empty(x) /\ x.om = "snapshot" /\ x.graphics = "complete"
    THEN [x EXCEPT !.pend = FALSE, !.pend_rt = FALSE, !.adds = @ \cup {<<"draw", "any">>}]
  ELSE x

flush_pfd(x, s, works) == drain_pfds(stage_pfd(x, s), s, FALSE, works)

(* copy_pending_pfd: before the display leaves the render-target state.    *)
copy_pending_pfd(x, s, api, works) ==
  IF ~Observing \/ mask = "off" THEN x
  ELSE LET y == stage_pfd(x, s) IN
       IF ~(y.id # 0 /\ y.ready /\ recording_observed(y) /\ same_safe(s)) THEN y
       ELSE [y EXCEPT !.pend = FALSE, !.pend_rt = FALSE,
                      !.adds = IF mask = "camera" /\ works THEN @ \cup {<<"copy", api>>} ELSE @]

(* invalidate, the boundary's callback.                                    *)
invalidate(x, s, reasons, works) ==
  IF reasons = {} \/ x.id = 0 \/ s.generation # x.id THEN x
  ELSE IF ~recording_observed(x) THEN [x EXCEPT !.s_known = @ /\ reasons = {"pass_begin"}]
  ELSE LET y == [x EXCEPT !.c_known = @ /\ reasons \subseteq {"split"},
                          !.s_known = @ /\ reasons = {"pass_begin"}]
           z == IF reasons = {"pass_begin"} THEN flush_pfd(y, s, works) ELSE [y EXCEPT !.pend = FALSE]
       IN [z EXCEPT !.pend_rt = FALSE, !.dirty = FALSE]
-----------------------------------------------------------------------------
(* How a call leaves list, scope and the application's state n, and what it *)
(* added, where the application's state was w.  A recording to which        *)
(* nothing can be added any more is kept in one form until its Reset.       *)
Over(x, s) == ~x.ready \/ ~recording_observed(x) \/ s.invalid

Settled(x, s) ==
  IF ~Over(x, s) THEN x
  ELSE [NoList EXCEPT !.id = x.id, !.epoch = x.epoch, !.ready = x.ready, !.closing = x.closing,
                      !.closed = x.closed, !.s_known = x.s_known]

Fresh(display, hold) ==
  [native |-> "recording", display |-> display, pass |-> "none", hold |-> hold, q |-> 0,
   bound |-> FALSE, gap |-> FALSE, begun |-> TRUE, blind |-> FALSE]

Records(x, s, n, w) ==
  /\ list' = [Settled(x, s) EXCEPT !.adds = {}]
  /\ scope' = IF s.invalid THEN [NoScope EXCEPT !.generation = s.generation, !.invalid = TRUE] ELSE s
  /\ now' = IF Over(x, s) THEN [Fresh("away", "free") EXCEPT !.native = n.native, !.gap = TRUE,
                                                            !.begun = n.begun] ELSE n
  /\ injected' = {[work |-> a[1], api |-> a[2], at |-> w] : a \in x.adds}
  /\ planned' = "no"

Gap(w) == [w EXCEPT !.gap = @ \/ ~Observing]
Open   == now.native = "recording" /\ ~resetting
Free   == now.hold # "suspended" \/ now.pass # "none"      \* else only a resuming pass may follow

(* A draw, and after_draw with the boundary's permission.                  *)
draw(works) ==
  /\ Open /\ Free /\ (now.bound => now.display \in Render)
  /\ LET y == invalidate(list, scope, scope_invalidation(scope), works)
         allowed == enabled /\ ~scope.active /\ ~scope.suspended /\ ~scope.invalid
         z == IF y.om = "off" THEN y ELSE IF allowed THEN proof_draw(y) ELSE [y EXCEPT !.c_known = FALSE]
         drawn == IF scope.generation # list.id \/ list.id = 0 \/ ~y.ready \/ ~recording_observed(y) THEN y
                  ELSE [z EXCEPT !.dirty = allowed /\ y.om # "off", !.transition = FALSE]
     IN Records(drawn, observe_work(scope), Gap(now), now)
  /\ UNCHANGED <<enabled, control, native, last_id>>

(* The barriers of one call.  What they do to the display, in order.       *)
Elements == {"exit", "entry", "split_exit", "split_entry", "alias"}
Batches  == {<<b>> : b \in Elements} \cup {<<"exit", "entry">>, <<"entry", "exit">>, <<"alias", "exit">>}

Steps(display, api, b) ==
  CASE b \in {"exit", "split_exit"}   -> IF display = RT(api) THEN "away" ELSE "invalid"
    [] b \in {"entry", "split_entry"} -> IF display = "away" THEN RT(api) ELSE "invalid"
    [] OTHER                          -> "away"
After(display, api, batch) ==
  LET first == Steps(display, api, batch[1]) IN
  IF Len(batch) = 1 \/ first = "invalid" THEN first ELSE Steps(first, api, batch[2])

(* observe_legacy, observe_enhanced: metadata of one barrier.              *)
observe_barrier(x, s, api, b) ==
  IF ~Observing \/ x.id = 0 THEN x
  ELSE IF b = "alias" /\ api = "legacy" THEN [x EXCEPT !.c_known = FALSE]
  ELSE LET y == [x EXCEPT !.transition = @ \/ x.om # "off", !.pend_rt = FALSE]
       IN stage_copy_model(y, s, TRUE, IF b = "entry" THEN api ELSE "unknown")

(* previous_legacy_change, previous_enhanced_change: only a first change   *)
(* of the display finds it in the state that it had before the call.       *)
leads_SlipAnyExit(batch) == \E n \in DOMAIN batch : batch[n] = "exit"

leads(batch) == batch[1] = "exit"

barrier(api, batch, works) ==
  /\ Open /\ now.pass = "none"
  /\ After(now.display, api, batch) # "invalid"
  /\ LET kinds == {batch[n] : n \in DOMAIN batch}
         doubt == scope_invalidation(scope)
                    \cup (IF "alias" \in kinds THEN {"alias"} ELSE {})
                    \cup (IF kinds \cap {"split_exit", "split_entry"} # {} THEN {"split"} ELSE {})
         l == [list EXCEPT !.s_known = @ /\ api = "legacy"]
         a == IF scope.generation = 0 THEN list ELSE observe_barrier(l, scope, api, batch[1])
         b == IF scope.generation = 0 \/ Len(batch) = 1 THEN a
              ELSE observe_barrier(a, scope, api, batch[2])
         c == invalidate(b, scope, doubt, works)
     IN Records(IF same_safe(scope) /\ leads(batch) THEN copy_pending_pfd(c, scope, api, works) ELSE c,
                scope, Gap([now EXCEPT !.display = After(now.display, api, batch)]), now)
  /\ UNCHANGED <<enabled, control, native, last_id>>

(* Targets::record.                                                        *)
Bound(x, display, known, snap) ==
  [x EXCEPT !.dirty = FALSE, !.transition = FALSE,
            !.om = IF ~(display /\ known) THEN "off"
                   ELSE IF snap /\ (x.pend_rt \/ mask # "off") /\ recording_observed(x) THEN "snapshot"
                   ELSE "bound"]

bind_targets(display, known, snap, works) ==
  /\ Open /\ (snap => known) /\ (known => display)
  /\ Records(IF list.id = 0 THEN list
             ELSE Bound(flush_pfd(list, scope, works), display, known, snap),
             scope, [Gap(now) EXCEPT !.bound = display], now)
  /\ UNCHANGED <<enabled, control, native, last_id>>

(* ensure_list: a hooked call on a list the registry does not have makes   *)
(* it known, with nothing proved of a recording met in its middle.         *)
Unobserved == [NoList EXCEPT !.id = last_id + 1]

ensure_list ==
  /\ Open /\ list.id = 0
  /\ last_id < MaxLists /\ last_id' = last_id + 1
  /\ Records(Unobserved, [NoScope EXCEPT !.generation = last_id + 1, !.invalid = TRUE], now, now)
  /\ UNCHANGED <<enabled, control, native>>

(* The other setters: they complete what is known of the graphics state.   *)
setter(complete) ==
  /\ Open
  /\ Records(IF Observing /\ list.id # 0 /\ list.graphics # "invalid"
               THEN [list EXCEPT !.graphics = IF complete THEN "complete" ELSE @] ELSE list,
             scope, Gap(now), now)
  /\ UNCHANGED <<enabled, control, native, last_id>>

ClearState ==
  /\ Open /\ now.pass = "none"
  /\ Records(IF list.id = 0 THEN list
             ELSE [list EXCEPT !.c_known = FALSE, !.dirty = FALSE, !.pend = FALSE, !.pend_rt = FALSE,
                               !.transition = FALSE, !.om = "off",
                               !.graphics = IF list.ready THEN "partial" ELSE "invalid"],
             scope, [Gap(now) EXCEPT !.bound = FALSE], now)
  /\ UNCHANGED <<enabled, control, native, last_id>>

(* A bundle, indirect work, a discard: nothing is assumed afterwards.      *)
unsupported(works) ==
  /\ Open /\ now.pass = "none" /\ Free
  /\ Records(IF list.id = 0 THEN list
             ELSE invalidate([list EXCEPT !.c_known = FALSE, !.s_known = FALSE, !.graphics = "invalid"], scope, {"work"}, works),
             IF list.id = 0 THEN scope ELSE invalidate_scope(scope), Gap(now), now)
  /\ UNCHANGED <<enabled, control, native, last_id>>

begin_query ==
  /\ Open /\ now.q = 0
  /\ Records(IF list.id = 0 THEN list ELSE query_begin(list), scope, [now EXCEPT !.q = 1], now)
  /\ UNCHANGED <<enabled, control, native, last_id>>

end_query(works) ==
  /\ Open /\ now.q = 1
  /\ LET y == query_end(list)
         n == [now EXCEPT !.q = 0]
     IN Records(IF list.id = 0 THEN list
                ELSE IF known_empty(y) THEN drain_pfds(y, scope, FALSE, works) ELSE y, scope, n, n)
  /\ UNCHANGED <<enabled, control, native, last_id>>
-----------------------------------------------------------------------------
(* BeginRenderPass: the pass scope, pass_targets, invalidate; then the End *)
(* of the table the native call may have switched to.                      *)
begin_pass(suspending, resuming, ordinary, display, known, installs, works) ==
  /\ Open /\ now.pass = "none"
  /\ (now.hold = "suspended") = resuming /\ now.hold # "local"
  /\ (display => now.display \in Render) /\ (known => display) /\ (~installs => ordinary /\ ~suspending)
  /\ LET s == IF scope.generation = 0 THEN scope
              ELSE [scope EXCEPT !.invalid = @ \/ scope.active \/ ~ordinary \/ (scope.suspended /\ ~resuming),
                                 !.active = TRUE, !.suspended = suspending]
         y == IF scope.generation = 0 \/ list.id # scope.generation THEN list
              ELSE Bound(stage_pfd([list EXCEPT !.q_known = FALSE, !.pend_rt = FALSE], s), display, known, FALSE)
         why == {"pass_begin"} \cup scope_invalidation(scope)
                  \cup (IF s.invalid \/ s.suspended \/ resuming THEN {"pass_state"} ELSE {})
         lost == scope.generation # 0 /\ ~installs
     IN /\ Records(invalidate(y, s, why, works), IF lost THEN invalidate_scope(s) ELSE s,
                   [now EXCEPT !.pass = IF suspending THEN "suspending" ELSE "open", !.bound = display,
                               !.hold = IF ordinary THEN "free" ELSE "local", !.blind = ~installs], now)
        /\ enabled' = (enabled /\ ~lost)
  /\ UNCHANGED <<control, native, last_id>>

(* EndRenderPass, unseen when its table could not be hooked.               *)
end_pass(works) ==
  /\ Open /\ now.pass # "none"
  /\ LET why == IF ~scope.active \/ scope.suspended \/ scope.invalid \/ ~enabled
                  THEN {"pass_state"} ELSE {}
         y == invalidate(list, scope, why, works)
         z == IF y.id = 0 \/ y.id # scope.generation THEN y
              ELSE [flush_pfd(y, scope, works) EXCEPT !.dirty = FALSE, !.om = "off", !.pend_rt = FALSE]
         s == [scope EXCEPT !.invalid = @ \/ ~scope.active, !.active = FALSE]
         n == [now EXCEPT !.pass = "none", !.bound = FALSE, !.blind = FALSE,
                          !.hold = IF now.pass = "suspending" /\ now.hold = "free" THEN "suspended" ELSE @]
     IN IF now.blind THEN Records(list, scope, n, now)
        ELSE Records(z, IF scope.generation = 0 THEN scope
                        ELSE [s EXCEPT !.prior_work = @ \/ (~s.invalid /\ ~s.suspended)], n, now)
  /\ UNCHANGED <<enabled, control, native, last_id>>
-----------------------------------------------------------------------------
(* Close: the last place to add anything, once for a recording.            *)
close_SlipStampsAgain(succeeds, works) ==
  /\ now.native # "none" /\ ~resetting /\ now.pass = "none"
  /\ succeeds => now.native = "recording" /\ now.q = 0
  /\ LET y == drain_pfds(stage_pfd(list, scope), scope, TRUE, works)
         z == IF list.id # 0 /\ list.ready
                THEN [list EXCEPT !.closing = TRUE, !.adds = y.adds]
                ELSE list
     IN Records([z EXCEPT !.closed = succeeds /\ list.id # 0], scope,
                [now EXCEPT !.native = IF succeeds THEN "closed" ELSE "failed"], now)
  /\ UNCHANGED <<enabled, control, native, last_id>>

close(succeeds, works) ==
  /\ now.native # "none" /\ ~resetting /\ now.pass = "none"
  /\ succeeds => now.native = "recording" /\ now.q = 0
  /\ LET y == drain_pfds(stage_pfd(list, scope), scope, TRUE, works)
         z == IF list.id # 0 /\ list.ready /\ ~list.closing
                THEN [y EXCEPT !.closing = TRUE, !.ready = FALSE, !.dirty = FALSE, !.pend = FALSE,
                               !.pend_rt = FALSE, !.graphics = "invalid"]
                ELSE list
     IN Records([z EXCEPT !.closed = succeeds /\ list.id # 0], scope,
                [now EXCEPT !.native = IF succeeds THEN "closed" ELSE "failed"], now)
  /\ UNCHANGED <<enabled, control, native, last_id>>

(* Reset: sample, make the list known, unseal it, forward ...              *)
reset_SlipStaysSealed(succeeds, display, hold) ==
  /\ now.native \in {"closed", "failed"} /\ ~resetting
  /\ resetting' = TRUE /\ sampled' = epoch
  /\ list.id # 0
  /\ UNCHANGED <<list, scope, last_id>>
  /\ now' = IF succeeds THEN Fresh(display, hold) ELSE [now EXCEPT !.native = "failed"]
  /\ injected' = {} /\ planned' = "no"
  /\ UNCHANGED <<enabled, control>>

reset(succeeds, display, hold) ==
  /\ now.native \in {"closed", "failed"} /\ ~resetting
  /\ resetting' = TRUE /\ sampled' = epoch
  /\ IF list.id # 0
       THEN list' = [list EXCEPT !.closed = FALSE] /\ UNCHANGED <<scope, last_id>>
       ELSE \/ UNCHANGED <<list, scope, last_id>>
            \/ /\ last_id < MaxLists /\ last_id' = last_id + 1
               /\ list' = Unobserved
               /\ scope' = [NoScope EXCEPT !.generation = last_id + 1, !.invalid = TRUE]
  /\ now' = IF succeeds THEN Fresh(display, hold) ELSE [now EXCEPT !.native = "failed"]
  /\ injected' = {} /\ planned' = "no"
  /\ UNCHANGED <<enabled, control>>

(* ... and publish, never while a session or the demand is changing.       *)
Published_SlipLatestEpoch(x) ==
  [NoList EXCEPT !.id = x.id, !.epoch = epoch, !.ready = TRUE, !.q_known = TRUE, !.c_known = TRUE,
                 !.s_known = TRUE]

Published(x) ==
  [NoList EXCEPT !.id = x.id, !.epoch = IF sampled = epoch THEN sampled ELSE 0,
                 !.ready = TRUE, !.q_known = TRUE, !.c_known = TRUE, !.s_known = TRUE]

publish(works) ==
  /\ resetting /\ session = "no"
  /\ resetting' = FALSE /\ sampled' = 0
  /\ IF list.id = 0 THEN UNCHANGED <<list, scope>>
     ELSE IF now.native = "recording"
       THEN list' = Published(list) /\ scope' = successful_reset(scope)
       ELSE /\ list' = [invalidate([NoList EXCEPT !.id = list.id, !.closing = list.closing,
                                    !.epoch = IF sampled = epoch THEN sampled ELSE 0, !.graphics = "invalid"],
                                   scope, {"reset_failed"}, works) EXCEPT !.adds = {}]
            /\ scope' = invalidate_scope(scope)
  /\ injected' = {} /\ planned' = "no"
  /\ UNCHANGED <<enabled, control, last_id, now>>

(* A list created through a hooked device starts out recording; any other  *)
(* list is met later, in whatever state it is.                             *)
create(seen, state, display) ==
  /\ now.native = "none" /\ ~resetting /\ session = "no"
  /\ IF seen
       THEN /\ last_id < MaxLists /\ last_id' = last_id + 1
            /\ list' = [Published([NoList EXCEPT !.id = last_id + 1]) EXCEPT !.epoch = epoch]
            /\ scope' = successful_reset([NoScope EXCEPT !.generation = last_id + 1])
            /\ now' = Fresh(display, "free")
       ELSE /\ UNCHANGED <<list, scope, last_id>>
            /\ now' = [Fresh(display, "free") EXCEPT !.native = state, !.gap = TRUE, !.begun = FALSE]
  /\ injected' = {} /\ planned' = "no"
  /\ UNCHANGED <<enabled, control, native>>

(* The native object dies: List::retire.                                   *)
destroy ==
  /\ now.native \in {"closed", "failed"} /\ ~resetting
  /\ list' = NoList /\ scope' = NoScope
  /\ now' = [now EXCEPT !.native = "none"]
  /\ injected' = {} /\ planned' = "no"
  /\ UNCHANGED <<enabled, control, native, last_id>>

(* plan_display_submission, on the queue's thread, for a batch with this   *)
(* list: sealed, and recorded for this session.                            *)
plan_SlipNoFloor ==
  /\ now.native = "closed" /\ ~resetting /\ list.id # 0
  /\ list.closed /\ list.s_known
  /\ planned' = "yes" /\ injected' = {}
  /\ UNCHANGED <<list, scope, enabled, control, native, last_id, now>>

plan ==
  /\ now.native = "closed" /\ ~resetting /\ list.id # 0
  /\ list.epoch >= floor /\ list.closed /\ list.s_known
  /\ planned' = "yes" /\ injected' = {}
  /\ UNCHANGED <<list, scope, enabled, control, native, last_id, now>>
-----------------------------------------------------------------------------
(* The control thread.                                                     *)
disturb ==
  /\ changes < MaxChanges /\ changes' = changes + 1
  /\ injected' = {} /\ planned' = "no"

set_graphics_observation_demand ==
  /\ session = "no" /\ disturb
  /\ epoch' = epoch + 1
  /\ UNCHANGED <<list, scope, enabled, floor, mask, session, native, last_id, now>>

(* reset_display_session bumps the epoch, then takes the registry's mutex; *)
(* observation_mutex is held throughout.                                   *)
reset_session ==
  LET next == epoch + (IF Observing THEN 1 ELSE 2) IN
  /\ session = "no" /\ disturb
  /\ epoch' = next /\ floor' = next /\ session' = "clearing"
  /\ now' = [now EXCEPT !.begun = FALSE]
  /\ UNCHANGED <<list, scope, enabled, mask, native, last_id>>

clear_session ==
  /\ session = "clearing"
  /\ session' = "no" /\ mask' = "off"
  /\ injected' = {} /\ planned' = "no"
  /\ UNCHANGED <<list, scope, enabled, epoch, floor, changes, native, last_id, now>>

(* set_target_mask, set_calibration, assign_targets.                       *)
select(m) ==
  /\ session = "no" /\ m # mask /\ disturb
  /\ mask' = m
  /\ UNCHANGED <<list, scope, enabled, epoch, floor, session, native, last_id, now>>

(* Another list's registration or pass finds a foreign hook, or repairs.   *)
disable_capture ==
  /\ enabled /\ enabled' = FALSE /\ disturb
  /\ scope' = invalidate_scope(scope)
  /\ UNCHANGED <<list, epoch, floor, mask, session, native, last_id, now>>

repaired ==
  /\ ~enabled /\ enabled' = TRUE /\ disturb
  /\ UNCHANGED <<list, scope, epoch, floor, mask, session, native, last_id, now>>
-----------------------------------------------------------------------------
Displays == {"rt_legacy", "rt_enhanced", "away"}

Init ==
  /\ list = NoList /\ scope = NoScope /\ enabled = TRUE
  /\ epoch = 1 /\ floor = 0 /\ mask \in {"off", "camera", "calibrate"} /\ session = "no"
  /\ changes = 0
  /\ resetting = FALSE /\ sampled = 0 /\ last_id = 0
  /\ now = [Fresh("away", "free") EXCEPT !.native = "none"]
  /\ injected = {} /\ planned = "no"

Recording ==
  \/ \E works \in IF mask = "camera" THEN BOOLEAN ELSE {TRUE} :
       \/ draw(works) \/ unsupported(works) \/ end_query(works) \/ end_pass(works)
       \/ \E api \in Modes, batch \in Batches : barrier(api, batch, works)
       \/ \E display, known, snap \in BOOLEAN : bind_targets(display, known, snap, works)
       \/ \E suspending, resuming, ordinary, display, known, installs \in BOOLEAN :
            begin_pass(suspending, resuming, ordinary, display, known, installs, works)
       \/ \E succeeds \in BOOLEAN : close(succeeds, works)
       \/ publish(works)
  \/ \E complete \in BOOLEAN : setter(complete)
  \/ ensure_list
  \/ ClearState \/ begin_query
  \/ \E succeeds \in BOOLEAN, display \in Displays, hold \in {"free", "suspended"} :
       reset(succeeds, display, hold)
  \/ \E seen \in BOOLEAN, state \in {"recording", "closed"}, display \in Displays :
       create(seen, state, display)
  \/ destroy

Control ==
  \/ set_graphics_observation_demand \/ reset_session \/ clear_session
  \/ \E m \in {"off", "camera", "calibrate"} : select(m)
  \/ disable_capture \/ repaired

Next == Recording \/ plan \/ Control

Spec == Init /\ [][Next]_vars
-----------------------------------------------------------------------------
(* Every field stays within its domain.                                    *)
TypeOK ==
  /\ list \in [id : 0..MaxLists, epoch : Epochs, ready : BOOLEAN, closing : BOOLEAN,
               closed : BOOLEAN, dirty : BOOLEAN, transition : BOOLEAN, pend : BOOLEAN, pend_rt : BOOLEAN,
               om : {"off", "bound", "snapshot"}, graphics : {"partial", "complete", "invalid"},
               q_known : BOOLEAN, open : 0..1, c_known : BOOLEAN, seen : BOOLEAN,
               pending : Modes \cup {"unknown"}, ready_mode : Modes \cup {"unknown"},
               s_known : BOOLEAN, adds : {{}}]
  /\ scope \in [generation : 0..MaxLists, active : BOOLEAN, suspended : BOOLEAN, invalid : BOOLEAN,
                prior_work : BOOLEAN]
  /\ changes \in 0..MaxChanges /\ enabled \in BOOLEAN /\ epoch \in Epochs /\ floor \in Epochs
  /\ mask \in {"off", "camera", "calibrate"} /\ session \in {"no", "clearing"}
  /\ resetting \in BOOLEAN /\ sampled \in Epochs /\ last_id \in 0..MaxLists
  /\ planned \in {"no", "yes"}

(* Whatever the bridge adds to the simulator's list is added while the     *)
(* list is recording, outside every pass and never between the two halves  *)
(* of a suspended one, with the display really in the render-target state  *)
(* of the model the addition relies on, and no query open around a draw.   *)
AddsFitTheRecording ==
  \A i \in injected :
    /\ i.at.native = "recording" /\ i.at.pass = "none" /\ i.at.hold = "free"
    /\ i.at.display \in Render
    /\ i.work = "copy" => i.at.display = RT(i.api)
    /\ i.work = "draw" => i.at.q = 0

(* It is added only to a recording of which no call went by unobserved     *)
(* since its native Reset, however the demand changed in between.          *)
AddsAreObserved == \A i \in injected : ~i.at.gap

(* A batch is planned only over sealed recordings that were begun after    *)
(* the last display session was reset.                                     *)
PlansAreCurrent == planned = "yes" => now.native = "closed" /\ now.begun

(* A recording counts as closed only while the native list is.             *)
SealedIsClosed == list.closed => now.native = "closed"

RecordingSafety == TypeOK /\ AddsFitTheRecording /\ AddsAreObserved /\ PlansAreCurrent /\ SealedIsClosed
=============================================================================
