------------------------------ MODULE ScenePass ------------------------------
(***************************************************************************)
(* One pass of the update observer over the pair of scene cameras:         *)
(* the ordinary branch of camera/probe's observer with its policies        *)
(* (SceneRecovery, ViewCreationWait, ViewResizeWarmup, ViewResizeRecovery, *)
(* ViewReadinessWait, ViewRetirement, RenderSchedule).                     *)
(*                                                                         *)
(* Whether the flight session allows work is one Boolean here; its         *)
(* protocol is module SceneSession.  A pass runs in three stages, between  *)
(* which the control thread may start, stop or suspend.  What an           *)
(* inspection sees of a view is chosen anew in every pass: ready, pending  *)
(* or unreadable (transient), or an identity that does not match (foreign).*)
(* Gate, size, output and presence of a view are the engine's own state.   *)
(*                                                                         *)
(* Time is what the code compares: a retry's delay has passed or not       *)
(* (rested), an interval of the schedule is due or not, capture progress   *)
(* lasted ten seconds or not.  tries and newer are history.                *)
(***************************************************************************)
EXTENDS Naturals, FiniteSets

CONSTANTS
  maximum_retries,      \* SceneRecovery::maximum_retries
  MaximumOutputWaits,   \* ViewResizeWarmup::MaximumOutputWaits
  MaxStarts             \* bound of the model: explicit starts

ASSUME ScenePassAssumption ==
  maximum_retries \in Nat /\ MaximumOutputWaits \in Nat /\ MaxStarts \in Nat

Cameras == {1, 2}

VARIABLES
  allowed, suspended, start, wanted,       \* the mailbox
  recovery, deferred,                      \* SceneRecovery, ViewCreationWait
  owned, state, asked,                     \* the pair, as PairController publishes it
  view, gone,                              \* the engine's views and vanished entries
  resized, scheduled, warmup, resize,      \* observer fields of the pair
  closed_seen, schedule,
  pc, starts, tries, newer

mailbox == <<allowed, suspended, start, wanted, starts>>
pair    == <<owned, state, asked>>
engine  == <<view, gone>>
fields  == <<resized, scheduled, warmup, resize, closed_seen, schedule>>
vars    == <<mailbox, recovery, deferred, pair, engine, fields, pc, tries, newer>>

Reasons   == {"none", "explicit_stop", "inspection_unavailable", "owned_entry_absent",
              "resolution_changed", "identity_refused", "pose_invalid", "creation_failed", "exception"}
retryable == {"inspection_unavailable", "owned_entry_absent"}
latched   == {"identity_refused", "creation_failed"}
Seen      == {"ready", "transient", "foreign"}

NewView   == [gate |-> "closed", size |-> "primary", output |-> "none"]
NoWarmup  == [pending |-> FALSE, waits |-> 0]
NoResize  == [pending |-> FALSE, failed |-> FALSE, closed_seen |-> FALSE]
NoPulse   == [active |-> 0, next |-> 1]

open(v, c) == v[c].gate = "open"
Readable == [c \in Cameras |-> "ready"]
Closed(v, cs) == [c \in Cameras |-> IF c \in cs THEN [v[c] EXCEPT !.gate = "closed"] ELSE v[c]]
-----------------------------------------------------------------------------
(* SceneRecovery::failed behind record_stop: a latched refusal keeps its   *)
(* cause, an episode under way keeps its deadline.                         *)
failed(r, reason) ==
  IF (r.reason \in latched /\ reason # r.reason) \/ (r.pending /\ r.reason = reason) THEN r
  ELSE [r EXCEPT !.reason = reason, !.rested = FALSE,
                 !.pending = wanted /\ reason \in retryable /\ r.attempts < maximum_retries]

record_stop(reason) == recovery' = failed(recovery, reason)

(* RenderSchedule::tick: at most one feed, alternating, and never two      *)
(* intervals in a row; a clock reversal counts as not due.                 *)
tick(s, due, off) ==
  IF s.active # 0 \/ off \/ ~due THEN [s EXCEPT !.active = 0]
  ELSE [active |-> s.next, next |-> 3 - s.next]
-----------------------------------------------------------------------------
(* The control thread: request_scene_test with no reset held, stop, and    *)
(* suspend; the session may withdraw and give back its permission.         *)
request_scene_test ==
  /\ starts < MaxStarts /\ allowed
  /\ starts' = starts + 1
  /\ start' = TRUE /\ wanted' = TRUE /\ asked' = "disable"
  /\ recovery' = [pending |-> FALSE, attempts |-> 0, reason |-> "none", rested |-> FALSE]
  /\ deferred' = FALSE                      \* its revision is no longer the current one
  /\ tries' = 0 /\ newer' = (pc # "idle")
  /\ UNCHANGED <<allowed, suspended, owned, state, engine, fields, pc>>

request_scene_stop ==
  /\ wanted
  /\ start' = FALSE /\ wanted' = FALSE /\ asked' = "disable" /\ deferred' = FALSE
  /\ recovery' = [recovery EXCEPT !.pending = FALSE, !.reason = "explicit_stop"]
  /\ newer' = (pc # "idle")
  /\ UNCHANGED <<allowed, suspended, starts, owned, state, engine, fields, pc, tries>>

suspend_scene_rendering(s) ==
  /\ suspended # s /\ suspended' = s
  /\ UNCHANGED <<allowed, start, wanted, starts, recovery, deferred, pair, engine, fields, pc, tries, newer>>

permission ==
  /\ allowed' = ~allowed
  /\ UNCHANGED <<suspended, start, wanted, starts, recovery, deferred, pair, engine, fields, pc, tries, newer>>

(* note_scene_capture_progress: ten seconds of it without a gap forgive    *)
(* earlier retries; a gap only starts the ten seconds anew.                *)
capture_progress ==
  /\ wanted /\ ~recovery.pending /\ recovery.reason \in retryable
  /\ recovery' = [recovery EXCEPT !.attempts = 0, !.reason = "none"]
  /\ tries' = 0
  /\ UNCHANGED <<mailbox, deferred, pair, engine, fields, pc, newer>>

delay_passes ==
  /\ recovery.pending /\ ~recovery.rested
  /\ recovery' = [recovery EXCEPT !.rested = TRUE]
  /\ UNCHANGED <<mailbox, deferred, pair, engine, fields, pc, tries, newer>>
-----------------------------------------------------------------------------
(* ViewRetirement and the erase callback, for one entry: what becomes of   *)
(* its gate, of the note that it was closed, and of its ownership.         *)
Erasable_SlipSameUpdate(c, seen) == seen = "ready"
Erasable(c, seen) == seen = "ready" /\ ~open(view, c) /\ c \in closed_seen

Leave(seen) ==
  LET lost   == {c \in owned \cap gone : seen[c] = "ready"}   \* the table could be read
      closes == {c \in owned \ gone : seen[c] = "ready" /\ open(view, c)}
      erased == {c \in owned \ gone : allowed /\ Erasable(c, seen[c])}
      left   == owned \ (lost \cup erased)
  IN  /\ owned' = left
      /\ gone' = gone \ lost
      /\ view' = [c \in Cameras |-> IF c \in lost \cup erased THEN NewView ELSE Closed(view, closes)[c]]
      /\ closed_seen' = {c \in left : seen[c] = "ready" /\ ~open(view, c)}
      /\ state' = IF left = {} THEN "disabled" ELSE "cleanup"
      /\ asked' = "none"

(* clear_retired_pair: the observer's fields of a pair that is gone.       *)
Cleared ==
  IF owned' = {}
  THEN /\ resized' = {} /\ scheduled' = FALSE /\ warmup' = NoWarmup /\ resize' = NoResize /\ schedule' = NoPulse
  ELSE UNCHANGED <<resized, scheduled, warmup, resize, schedule>>

(* park_unready_session, and a suspended pass with nothing owned.          *)
park ==
  /\ pc = "idle" /\ ~allowed
  /\ \E cs \in SUBSET (owned \ gone) : view' = Closed(view, cs)
  /\ UNCHANGED <<mailbox, recovery, deferred, pair, gone, fields, pc, tries>> /\ newer' = FALSE

(* The manager could not be validated: nothing native is called.           *)
manager_refused(temporary) ==
  /\ pc = "idle" /\ allowed /\ (suspended => owned # {})
  /\ record_stop(IF temporary THEN "inspection_unavailable" ELSE "identity_refused")
  /\ start' = FALSE
  /\ asked' = IF temporary THEN "disable" ELSE asked
  /\ newer' = FALSE
  /\ UNCHANGED <<allowed, suspended, wanted, starts, deferred, owned, state, engine, fields, pc, tries>>

(* close_owned_pair: the closing pass of a pulse touches only the gates.   *)
close_owned_pair ==
  /\ pc = "idle" /\ allowed /\ state = "active" /\ scheduled /\ gone = {}
  /\ asked = "none" /\ ~start /\ ~recovery.pending /\ ~warmup.pending /\ ~resize.pending /\ ~resize.failed
  /\ schedule.active # 0
  /\ view' = Closed(view, Cameras) /\ schedule' = [schedule EXCEPT !.active = 0]
  /\ newer' = FALSE
  /\ UNCHANGED <<mailbox, recovery, deferred, pair, gone, resized, scheduled, warmup, resize, closed_seen, pc, tries>>

(* Stage one: process_update settles a disable or an unfinished cleanup.   *)
update(seen) ==
  /\ pc = "idle" /\ allowed /\ (suspended => owned # {})
  /\ IF asked = "disable" \/ state = "cleanup"
     THEN Leave(seen) /\ Cleared
     ELSE UNCHANGED <<pair, engine, fields>>
  /\ pc' = IF owned' = {} THEN "start" ELSE IF state' = "active" THEN "views" ELSE "idle"
  /\ newer' = FALSE
  /\ UNCHANGED <<mailbox, recovery, deferred, tries>>

(* Stage two: SceneRecovery::retry and ViewCreationWait::resume may queue  *)
(* a start; a start needs pool capacity and a pose, then its licence.      *)
Due_SlipAnyBudget == recovery.rested /\ wanted /\ recovery.reason \in retryable
Due == recovery.pending /\ recovery.rested /\ wanted
May == ~suspended /\ allowed

retry ==
  /\ pc = "start" /\ ~start /\ May /\ asked = "none"
  /\ \/ deferred /\ wanted /\ deferred' = FALSE /\ UNCHANGED recovery
     \/ Due /\ recovery' = [recovery EXCEPT !.pending = FALSE, !.attempts = @ + 1] /\ deferred' = FALSE
  /\ start' = TRUE
  /\ UNCHANGED <<allowed, suspended, wanted, starts, pair, engine, fields, pc, tries, newer>>

not_started ==
  /\ pc = "start" /\ pc' = "idle" /\ newer' = FALSE
  /\ UNCHANGED <<mailbox, recovery, deferred, pair, engine, fields, tries>>

(* The licence and both creations.  A whole pair starts closed and waits   *)
(* for one engine update; a part of one is rolled back by later passes.    *)
create_pair ==
  /\ pc = "start" /\ start /\ May
  /\ start' = FALSE
  /\ owned' = Cameras /\ state' = "active" /\ asked' = "none"
  /\ view' = [c \in Cameras |-> NewView] /\ gone' = {}
  /\ warmup' = [pending |-> TRUE, waits |-> 0]
  /\ tries' = tries + 1
  /\ pc' = "idle" /\ newer' = FALSE
  /\ UNCHANGED <<allowed, suspended, wanted, starts, recovery, deferred, resized, scheduled, resize, closed_seen, schedule>>

create_fails ==
  /\ pc = "start" /\ start /\ May
  /\ start' = FALSE
  /\ \/ /\ deferred' = TRUE /\ UNCHANGED recovery            \* no capacity at one of the two calls
        /\ owned' \in {{}, {1}}
     \/ /\ record_stop("inspection_unavailable")             \* defer_initial_pose_failure
        /\ recovery.reason \notin latched /\ owned' = {} /\ UNCHANGED deferred
     \/ /\ record_stop("creation_failed")
        /\ owned' \in {{}, {1}} /\ UNCHANGED deferred
  /\ state' = (IF owned' = {} THEN "disabled" ELSE "cleanup") /\ asked' = "none"
  /\ \E g \in {"open", "closed"} :
       view' = [c \in Cameras |-> IF c \in owned' THEN [NewView EXCEPT !.gate = g] ELSE NewView]
  /\ gone' = {}
  /\ pc' = "idle" /\ newer' = FALSE
  /\ UNCHANGED <<allowed, suspended, wanted, starts, fields, tries>>

(* Stage three.  The first resize: on a later update than the creation,    *)
(* dimensions are written once and both outputs awaited with closed gates. *)
Lose(seen, reason) ==
  /\ IF ~allowed THEN UNCHANGED <<recovery, pair, engine, fields>>     \* hold_changed_session
     ELSE /\ record_stop(reason) /\ Leave(seen) /\ Cleared
  /\ pc' = "idle" /\ newer' = FALSE
  /\ UNCHANGED <<mailbox, deferred, tries>>

resize_outcome(v) == IF \A c \in Cameras : v[c].output = "pane" THEN "complete" ELSE "output_pending"

warmup_resizes ==
  /\ pc = "views" /\ warmup.pending /\ allowed /\ gone = {}
  /\ \A c \in Cameras : ~open(view, c)
  /\ \E out \in [Cameras -> {"none", "pane"}] :
       /\ view' = [c \in Cameras |-> [view[c] EXCEPT !.size = "pane",
                                      !.output = IF @ = "pane" THEN @ ELSE out[c]]]
       /\ IF resize_outcome(view') = "complete"
          THEN /\ warmup' = NoWarmup /\ resized' = Cameras /\ UNCHANGED <<pc, newer>>
          ELSE /\ warmup.waits < MaximumOutputWaits
               /\ warmup' = [warmup EXCEPT !.waits = @ + 1] /\ pc' = "idle" /\ newer' = FALSE
               /\ resized' = {c \in Cameras : view'[c].output = "pane"}
  /\ UNCHANGED <<mailbox, recovery, deferred, pair, gone, scheduled, resize, closed_seen, schedule, tries>>

(* Refused, or the wait for the outputs is used up: a startup failure.     *)
warmup_fails(seen) ==
  /\ pc = "views" /\ warmup.pending
  /\ Lose(seen, "creation_failed")

(* inspect_pair: why the pair is not usable.  A wrong identity comes before*)
(* everything; else the first camera that has a reason gives it.           *)
reason_of(c, seen) ==
  CASE seen[c] = "foreign"   -> "identity_refused"
    [] seen[c] = "transient" -> "inspection_unavailable"
    [] seen[c] = "ready" /\ c \in gone -> "owned_entry_absent"
    [] seen[c] = "ready" /\ c \notin gone /\ (c \notin resized \/ view[c].size # "pane") -> "resolution_changed"
    [] OTHER -> "none"
inspection_stop(seen) ==
  IF reason_of(1, seen) = "none" \/ seen[2] = "foreign" THEN reason_of(2, seen) ELSE reason_of(1, seen)

resolution_pause_SlipOnlyDrift(seen) ==
  inspection_stop(seen) = "resolution_changed" /\ scheduled /\ resized = Cameras
resolution_pause(seen) ==
  \/ resize.pending \/ resize.failed
  \/ inspection_stop(seen) = "resolution_changed" /\ scheduled /\ resized = Cameras

(* ViewResizeRecovery: the pair is retained; its dimensions are restored   *)
(* only after both gates were seen closed on an earlier update, and only   *)
(* when both outputs kept their size.                                      *)
Restorable_SlipSameUpdate(seen) == \A c \in Cameras : seen[c] = "ready" /\ c \notin gone
Restorable(seen) == resize.closed_seen /\ \A c \in Cameras : seen[c] = "ready" /\ c \notin gone /\ ~open(view, c)

pause(seen) ==
  /\ pc = "views" /\ ~warmup.pending /\ resolution_pause(seen)
  /\ LET ready == {c \in owned \ gone : seen[c] = "ready"}
         bad   == resize.failed \/ \E c \in Cameras : seen[c] = "foreign"
         begun == [resize EXCEPT !.pending = TRUE]
         stopped == IF resize.pending \/ resize.failed THEN recovery
                    ELSE failed(recovery, "resolution_changed")
     IN  \/ /\ bad
            /\ resize' = [begun EXCEPT !.failed = TRUE, !.closed_seen = FALSE]
            /\ view' = Closed(view, ready) /\ recovery' = stopped /\ UNCHANGED schedule
         \/ /\ ~bad /\ ~Restorable(seen)
            /\ resize' = [begun EXCEPT !.closed_seen = \A c \in Cameras : c \in ready /\ ~open(view, c)]
            /\ view' = Closed(view, ready) /\ recovery' = stopped /\ UNCHANGED schedule
         \/ /\ ~bad /\ Restorable(seen)
            /\ IF \A c \in Cameras : view[c].output = "pane"
               THEN \/ /\ allowed
                       /\ view' = [c \in Cameras |-> [Closed(view, Cameras)[c] EXCEPT !.size = "pane"]]
                       /\ resize' = NoResize /\ schedule' = NoPulse
                       /\ recovery' = IF wanted /\ ~recovery.pending /\ recovery.reason = "resolution_changed"
                                      THEN [recovery EXCEPT !.reason = "none"] ELSE recovery
                    \/ /\ resize' = [resize EXCEPT !.failed = TRUE, !.closed_seen = FALSE]
                       /\ view' = Closed(view, Cameras) /\ UNCHANGED <<schedule, recovery>>
               ELSE /\ resize' = IF \E c \in Cameras : view[c].output = "none"
                                 THEN [resize EXCEPT !.failed = TRUE, !.closed_seen = FALSE] ELSE resize
                    /\ view' = Closed(view, Cameras) /\ UNCHANGED <<schedule, recovery>>
  /\ pc' = "idle" /\ newer' = FALSE
  /\ UNCHANGED <<mailbox, deferred, pair, gone, resized, scheduled, warmup, closed_seen, tries>>

(* apply_gates: the closing calls before the opening one.                  *)
apply_gates_SlipTrustsSchedule(cs) == [c \in Cameras |-> IF c \in cs THEN [view[c] EXCEPT !.gate = "open"]
                                                       ELSE IF schedule.active = c THEN [view[c] EXCEPT !.gate = "closed"] ELSE view[c]]
apply_gates(cs) == [c \in Cameras |-> [view[c] EXCEPT !.gate = IF c \in cs THEN "open" ELSE "closed"]]

(* A usable pair: the schedule wants at most one gate; it opens only with  *)
(* its output observed, a pose and its flags; every other gate is closed.  *)
Admitted_SlipNoOutput(c) == TRUE
Admitted(c) == view[c].output = "pane"

run(due) ==
  /\ pc = "views" /\ ~warmup.pending /\ ~resize.pending /\ ~resize.failed
  /\ inspection_stop(Readable) = "none"
  /\ LET next    == tick(IF scheduled THEN schedule ELSE NoPulse, due, suspended \/ ~allowed)
         desired == {c \in Cameras : c = next.active /\ Admitted(c)}
     IN  \E posed \in BOOLEAN :
           /\ view' = apply_gates(IF posed /\ allowed THEN desired ELSE {})
           /\ schedule' = next
  /\ scheduled' = TRUE
  /\ pc' = "idle" /\ newer' = FALSE
  /\ UNCHANGED <<mailbox, recovery, deferred, pair, gone, resized, warmup, resize, closed_seen, tries>>

(* The pose is gone for good: close, then remove.                          *)
pose_invalid(seen) ==
  /\ pc = "views" /\ ~warmup.pending /\ ~resize.pending /\ ~resize.failed
  /\ inspection_stop(seen) = "none" /\ \A c \in Cameras : ~open(view, c)
  /\ Lose(seen, "pose_invalid")

(* ViewReadinessWait: an established pair whose views cannot be read just  *)
(* now is kept; only the views that are ready are closed.                  *)
Waits(seen) == scheduled /\ resized = Cameras /\ inspection_stop(seen) = "inspection_unavailable" /\ asked = "none"

wait_for_views(seen) ==
  /\ pc = "views" /\ ~warmup.pending /\ ~resolution_pause(seen) /\ Waits(seen)
  /\ view' = Closed(view, {c \in owned : seen[c] = "ready"})
  /\ \E due \in BOOLEAN : schedule' = tick(schedule, due, suspended \/ ~allowed)
  /\ pc' = "idle" /\ newer' = FALSE
  /\ UNCHANGED <<mailbox, recovery, deferred, pair, gone, resized, scheduled, warmup, resize, closed_seen, tries>>

views_lost(seen) ==
  /\ pc = "views" /\ ~warmup.pending /\ ~resolution_pause(seen) /\ ~Waits(seen)
  /\ inspection_stop(seen) # "none"
  /\ Lose(seen, inspection_stop(seen))

(* A C++ exception does not cross the engine's frame: removal is asked for.*)
exception ==
  /\ pc # "idle"
  /\ asked' = "disable" /\ record_stop("exception")
  /\ pc' = "idle" /\ newer' = FALSE
  /\ UNCHANGED <<mailbox, deferred, owned, state, engine, fields, tries>>
-----------------------------------------------------------------------------
(* The engine between passes: a primary-view change overwrites the sizes,  *)
(* outputs come, go or change size, and entries may vanish.                *)
engine_changes ==
  /\ pc = "idle" /\ owned # {}
  /\ \/ /\ \E c \in owned \ gone : view[c].size = "pane"
        /\ view' = [c \in Cameras |-> [view[c] EXCEPT !.size = "primary"]] /\ UNCHANGED gone
     \/ \E c \in owned \ gone, out \in {"none", "other", "pane"} :
          /\ view' = [view EXCEPT ![c].output = out] /\ view' # view /\ UNCHANGED gone
     \/ \E c \in owned \ gone : gone' = gone \cup {c} /\ UNCHANGED view
  /\ UNCHANGED <<mailbox, recovery, deferred, pair, fields, pc, tries, newer>>

Init ==
  /\ allowed = TRUE /\ suspended = FALSE /\ start = FALSE /\ wanted = FALSE /\ starts = 0
  /\ recovery = [pending |-> FALSE, attempts |-> 0, reason |-> "none", rested |-> FALSE]
  /\ deferred = FALSE
  /\ owned = {} /\ state = "disabled" /\ asked = "none"
  /\ view = [c \in Cameras |-> NewView] /\ gone = {}
  /\ resized = {} /\ scheduled = FALSE /\ warmup = NoWarmup /\ resize = NoResize
  /\ closed_seen = {} /\ schedule = NoPulse
  /\ pc = "idle" /\ tries = 0 /\ newer = FALSE

Pass ==
  \/ park \/ close_owned_pair \/ retry \/ not_started \/ create_pair \/ create_fails \/ warmup_resizes \/ exception
  \/ \E temporary \in BOOLEAN : manager_refused(temporary)
  \/ \E due \in BOOLEAN : run(due)
  \/ \E seen \in [Cameras -> Seen] :
       \/ update(seen) \/ warmup_fails(seen) \/ pause(seen) \/ pose_invalid(seen)
       \/ wait_for_views(seen) \/ views_lost(seen)
Next ==
  \/ request_scene_test \/ request_scene_stop \/ permission
  \/ \E s \in BOOLEAN : suspend_scene_rendering(s)
  \/ capture_progress \/ delay_passes \/ engine_changes \/ Pass
Spec == Init /\ [][Next]_vars
-----------------------------------------------------------------------------
TypeOK ==
  /\ owned \subseteq Cameras /\ gone \subseteq owned /\ resized \subseteq Cameras
  /\ state \in {"disabled", "active", "cleanup"} /\ asked \in {"none", "disable"}
  /\ recovery.reason \in Reasons /\ recovery.attempts \in Nat
  /\ warmup.waits <= MaximumOutputWaits /\ schedule.active \in {0} \cup Cameras
  /\ view \in [Cameras -> [gate : {"open", "closed"}, size : {"pane", "primary"},
                           output : {"none", "other", "pane"}]]

(* Safety: the two cameras never render in the same interval, and a gate is*)
(* open only for a pair that has been through its closed warm-up; a partial*)
(* pair is closed by its rollback (probe.cpp:706, render_schedule.hpp:39). *)
OnePulseAtATime ==
  /\ ~(open(view, 1) /\ open(view, 2))
  /\ state = "active" /\ (open(view, 1) \/ open(view, 2)) => scheduled /\ ~warmup.pending /\ resized = Cameras

(* Safety: a gate opens only on a view whose own output was observed and   *)
(* not taken away or resized since; dimensions are written only under a    *)
(* gate that was closed before (probe.cpp:1713, view_resize_recovery:81).  *)
NativeCallsAreAdmitted ==
  [][\A c \in Cameras :
       /\ ~open(view, c) /\ open(view', c) /\ state = "active"
            => view[c].output = "pane" /\ view[c].size = "pane" /\ c \notin gone
       /\ view[c].size = "primary" /\ view'[c].size = "pane" => ~open(view, c)]_vars

(* Safety: an entry is erased only after its gate was seen closed on an    *)
(* earlier update (view_retirement.hpp:8); a vanished one is only noticed. *)
RetirementIsGentle ==
  [][\A c \in owned \ owned' : c \in gone \/ (c \in closed_seen /\ ~open(view, c))]_vars

(* Safety: a change of the primary view never costs a camera: a pair whose *)
(* dimensions are being restored, or were refused, keeps its entries until *)
(* it is asked to leave (scene_recovery.hpp:51).                           *)
ResolutionKeepsThePair ==
  [][(resize.pending \/ resize.failed) /\ asked = "none" /\ state = "active" => owned' = owned]_vars

(* Safety: between two starts, and as long as captures do not run well, no *)
(* more pairs are created than the start and its retries allow; a latched  *)
(* refusal is never retried (scene_recovery.hpp:57).                       *)
CreationsAreBounded ==
  tries <= maximum_retries + 1 /\ (recovery.reason \in latched => ~recovery.pending)

(* What docs/architecture.md:143 says of the schedule: a closed interval    *)
(* follows every pulse.  The pass that should have closed the gate may be  *)
(* unable to read its view; the pulse then hands over to the other camera. *)
ClosedAfterEveryPulse ==
  [][\A c \in Cameras : open(view, c) => ~open(view', 3 - c)]_vars

(* What the comment at probe.cpp:1143 says of record_stop: an inspection   *)
(* belongs to the request it sampled, and does not overwrite the recovery  *)
(* state of a newer start or stop.                                         *)
StopsBelongToTheirRequest ==
  [][newer /\ ~newer' => recovery' = recovery]_vars

(* What a pass never gets wrong, together.                                 *)
PassSafety ==
  TypeOK /\ OnePulseAtATime /\ CreationsAreBounded
=============================================================================
