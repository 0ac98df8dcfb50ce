--------------------------- MODULE PfdSubmission ----------------------------
(***************************************************************************)
(* Where in a batch of command lists the bridge's own copy into a display  *)
(* may run: graphics/pfd_submission_proof, filled by the hooks of          *)
(* bridge/d3d12_bridge, and plan_display_submission, which decides over    *)
(* the closed batch while the control thread changes the selection.        *)
(*                                                                         *)
(* The application's lists are recorded in the order of their execution,   *)
(* one operation at a time, on one display.  The proof of a list knows of  *)
(* no other list.  now and trace are history: the display as the           *)
(* application leaves it, and of each closed list the state before it and  *)
(* after it, whether it wrote the display by a command that the recording  *)
(* names, and whether it begins and ends within a suspended pass.          *)
(*                                                                         *)
(* A write that no command of its list names, a dispatch or a copy into a  *)
(* display whose writable state was set by an earlier list, or a copy that *)
(* promotes COMMON, is unknown to the ledger; it is not in trace either.   *)
(***************************************************************************)
EXTENDS Naturals, Sequences

CONSTANTS
  MaxLists,    \* bound of the model: lists of the batch
  MaxChanges   \* bound of the model: changes of the selection or the session

(* What the constants are assumed to be; the runs evaluate it.             *)
PfdSubmissionAssumption == MaxLists \in Nat \ {0} /\ MaxChanges \in Nat

VARIABLES
  proof,       \* the PfdSubmissionProof of the list that is being recorded
  batch,       \* the proofs of the closed lists
  now, trace,
  stage,       \* of the batch: recording, sampled, planned, submitted
  generation,  \* queue_patch_generation
  target,      \* the selected display is the one of this batch
  active,      \* the device's session is active
  config,      \* what service_display_patches last configured
  patches,     \* QueuePatchSnapshot of the runtime
  sampled,     \* generation and patches as the planner read them
  plan,        \* DisplaySubmissionPlan
  changes

recorded == <<proof, batch, now, trace>>
control  == <<generation, target, active, config, patches, changes>>
vars     == <<recorded, control, stage, sampled, plan>>

States == {"COMMON", "RT", "UAV", "COPY_DEST", "COPY_SOURCE", "SHADER"}
copy_restorable    == {"COMMON", "SHADER"}
writable_gpu_state == {"RT", "UAV", "COPY_DEST"}
insertable_after   == {"RT", "UAV", "SHADER"}

NoSlot == [seen |-> FALSE, exit |-> FALSE, prefix_exit |-> FALSE, leading_exit |-> FALSE,
           wrote |-> FALSE, first_before |-> "COMMON", after |-> "COMMON"]
reset  == [known |-> TRUE, closed |-> FALSE, active_pass |-> FALSE, barrier_only |-> TRUE,
           interference |-> FALSE, slot |-> NoSlot]
-----------------------------------------------------------------------------
(* The ledger of one recording.  Once it is refused the rest is moot.      *)
invalidate(p) == [reset EXCEPT !.known = FALSE, !.closed = p.closed]

Overwrites(slot) == [slot EXCEPT !.wrote = TRUE, !.prefix_exit = FALSE]

gpu_work(p, may_render_target) ==
  IF ~p.known THEN p
  ELSE [p EXCEPT !.barrier_only = FALSE, !.interference = @ \/ may_render_target,
                 !.slot = IF may_render_target /\ @.seen /\ @.after = "COMMON" THEN Overwrites(@) ELSE @]

compute_work(p) ==
  LET q == gpu_work(p, FALSE) IN
  IF q.known /\ q.slot.seen /\ q.slot.after \in {"COMMON", "UAV"}
    THEN [q EXCEPT !.slot = Overwrites(@)] ELSE q

note_carried_write_SlipOnlyBarriers(p, state) == p

note_carried_write(p, state) ==
  IF ~p.known \/ (p.slot.seen /\ p.slot.after # state) THEN p
  ELSE [p EXCEPT !.slot = Overwrites(IF @.seen THEN @
         ELSE [NoSlot EXCEPT !.seen = TRUE, !.first_before = state, !.after = state])]

begin_pass_SlipSuspends(p, ordinary) ==
  LET q == gpu_work(p, TRUE) IN
  IF ~q.known THEN q
  ELSE IF q.active_pass THEN invalidate(q)
  ELSE [q EXCEPT !.active_pass = TRUE]

begin_pass(p, ordinary) ==
  LET q == gpu_work(p, TRUE) IN
  IF ~q.known THEN q
  ELSE IF q.active_pass \/ ~ordinary THEN invalidate(q)
  ELSE [q EXCEPT !.active_pass = TRUE]

end_pass(p) ==
  IF ~p.known THEN p ELSE IF p.active_pass THEN [p EXCEPT !.active_pass = FALSE] ELSE invalidate(p)

leading(p, before, after) ==
  ~p.slot.seen /\ before = "RT" /\ after \in copy_restorable /\ ~p.interference

observe_legacy(p, before, after) ==
  IF ~p.known THEN p
  ELSE IF p.active_pass \/ (p.slot.seen /\ p.slot.after # before) THEN invalidate(p)
  ELSE LET s == p.slot IN
       [p EXCEPT !.slot =
         [seen |-> TRUE, after |-> after,
          first_before |-> IF s.seen THEN s.first_before ELSE before,
          exit |-> before = "RT" /\ after \in copy_restorable,
          leading_exit |-> s.leading_exit \/ (~s.seen /\ before = "RT" /\ after \in copy_restorable),
          prefix_exit |-> (s.prefix_exit \/ leading(p, before, after)) /\ after \notin writable_gpu_state,
          wrote |-> s.wrote \/ after \in writable_gpu_state]]

close(p, succeeds) ==
  IF p.known /\ ~p.active_pass /\ succeeds THEN [p EXCEPT !.closed = TRUE] ELSE invalidate(p)
-----------------------------------------------------------------------------
(* What the closed ledgers of a batch allow.                               *)
complete(p)         == p.known /\ p.closed /\ ~p.active_pass
candidate(p)        == p.barrier_only /\ p.slot.seen /\ p.slot.exit
prefix_candidate(p) == p.slot.seen /\ p.slot.prefix_exit
overwrote(p)        == p.slot.seen /\ p.slot.wrote
activity(p)         == candidate(p) \/ prefix_candidate(p) \/ (p.slot.seen /\ p.slot.leading_exit)

suffix_candidate(p) ==
  /\ p.slot.seen /\ p.slot.wrote /\ p.slot.after \in insertable_after
  /\ (p.slot.after = "RT" => ~p.barrier_only)

Site(n, before, kind) == [list |-> n, before |-> before, kind |-> kind,
                          state |-> IF before THEN batch[n].slot.first_before ELSE batch[n].slot.after]
NoSite == [list |-> 0, before |-> FALSE, kind |-> "none", state |-> "COMMON"]

First(S) == CHOOSE n \in S : \A m \in S : n <= m
Last(S)  == CHOOSE n \in S : \A m \in S : n >= m

batch_overlay_SlipNeverRefused ==
  LET writes == {n \in DOMAIN batch : suffix_candidate(batch[n])}
      safe   == {n \in DOMAIN batch : candidate(batch[n]) \/ prefix_candidate(batch[n])}
  IN IF \E n \in DOMAIN batch : ~complete(batch[n]) THEN NoSite
     ELSE IF writes # {} THEN Site(Last(writes), FALSE, "suffix")
     ELSE IF safe = {} THEN NoSite
     ELSE Site(First(safe), ~candidate(batch[First(safe)]), "safe")

batch_overlay ==
  LET writes == {n \in DOMAIN batch : suffix_candidate(batch[n])}
      safe   == {n \in DOMAIN batch : candidate(batch[n]) \/ prefix_candidate(batch[n])}
  IN IF \E n \in DOMAIN batch : ~complete(batch[n]) THEN NoSite
     ELSE IF writes # {} THEN Site(Last(writes), FALSE, "suffix")
     ELSE IF safe = {} THEN NoSite
     ELSE LET n == First(safe)
              before == ~candidate(batch[n])
              later  == {m \in DOMAIN batch : m > n \/ (m = n /\ before)}
          IN IF \E m \in later : overwrote(batch[m]) THEN NoSite ELSE Site(n, before, "safe")
-----------------------------------------------------------------------------
(* The application records.  A refused batch is kept in one form.          *)
Recording == stage = "recording" /\ Len(batch) < MaxLists /\ \A n \in DOMAIN batch : complete(batch[n])
Free      == now.hold \/ now.pass # "none" => now.pass = "open"  \* a suspended pass is resumed at once

NoTrace == [entry |-> "COMMON", exit |-> "COMMON", wrote |-> FALSE, began |-> FALSE, held |-> FALSE]

Recorded(p, n) ==
  /\ proof' = p
  /\ now' = IF p.known THEN n ELSE [n EXCEPT !.state = "COMMON", !.wrote = FALSE, !.own = FALSE]
  /\ UNCHANGED <<batch, trace, control, stage, sampled, plan>>

transition(after) ==
  /\ Recording /\ now.pass = "none" /\ ~now.hold /\ after # now.state
  /\ Recorded(observe_legacy(proof, now.state, after),
              [now EXCEPT !.state = after, !.own = TRUE])

(* An alias, split or enhanced barrier, a bundle, indirect work.           *)
uncertain(after) ==
  /\ Recording /\ now.pass = "none" /\ ~now.hold
  /\ Recorded(invalidate(proof), [now EXCEPT !.state = after])

(* A draw or a clear of a render target, this display or another.          *)
draw(display) ==
  /\ Recording /\ Free /\ (display => now.state = "RT")
  /\ Recorded(LET q == gpu_work(proof, TRUE) IN
              IF display THEN note_carried_write(q, "RT") ELSE q,
              [now EXCEPT !.wrote = @ \/ display])

clear_unordered_access ==
  /\ Recording /\ Free /\ now.state = "UAV"
  /\ Recorded(note_carried_write(compute_work(proof), "UAV"), [now EXCEPT !.wrote = TRUE])

dispatch(display) ==
  /\ Recording /\ Free /\ now.pass = "none" /\ (display => now.state = "UAV")
  /\ Recorded(compute_work(proof), [now EXCEPT !.wrote = @ \/ (display /\ now.own)])

(* Copies, resolves, queries.                                              *)
copy(display) ==
  /\ Recording /\ now.pass = "none" /\ ~now.hold /\ (display => now.state = "COPY_DEST")
  /\ Recorded(gpu_work(proof, FALSE), [now EXCEPT !.wrote = @ \/ (display /\ now.own)])

pass_begins(suspending, clears) ==
  /\ Recording /\ now.pass = "none" /\ (clears => now.state = "RT")
  /\ LET q == begin_pass(proof, ~suspending /\ ~now.hold) IN
     Recorded(IF clears THEN note_carried_write(gpu_work(q, TRUE), "RT") ELSE q,
              [now EXCEPT !.pass = IF suspending THEN "suspending" ELSE "open", !.hold = FALSE,
                          !.wrote = @ \/ clears])

pass_ends ==
  /\ Recording /\ now.pass # "none"
  /\ Recorded(end_pass(proof), [now EXCEPT !.pass = "none", !.hold = now.pass = "suspending"])

close_list(succeeds) ==
  /\ Recording /\ now.pass = "none"
  /\ LET p == close(proof, succeeds)
         t == [entry |-> now.entry, exit |-> now.state, wrote |-> now.wrote,
               began |-> now.began, held |-> now.hold]
     IN IF complete(p) /\ \A n \in DOMAIN batch : complete(batch[n])
          THEN batch' = Append(batch, p) /\ trace' = Append(trace, t)
          ELSE batch' = <<invalidate(p)>> /\ trace' = <<NoTrace>>
  /\ proof' = reset
  /\ now' = [now EXCEPT !.entry = now.state, !.wrote = FALSE, !.own = FALSE, !.began = now.hold]
  /\ UNCHANGED <<control, stage, sampled, plan>>
-----------------------------------------------------------------------------
(* plan_display_submission: the generation and the patches without a lock, *)
(* then the batch, if the registry is free and the generation still holds. *)
NoPlan  == [site |-> NoSite, generation |-> 0, made |-> 0]
NoPatch == [generation |-> 0, target |-> FALSE]

plan_samples ==
  /\ stage = "recording" /\ batch # << >>
  /\ stage' = "sampled"
  /\ sampled' = [generation |-> generation,
                 patches |-> IF active /\ patches.generation = generation THEN patches ELSE NoPatch]
  /\ UNCHANGED <<recorded, control, plan>>

Planned_SlipAnyPatch(site) ==
  /\ generation = sampled.generation /\ target
  /\ \E n \in DOMAIN batch : activity(batch[n]) \/ suffix_candidate(batch[n])
  /\ site # NoSite

Planned(site) ==
  /\ generation = sampled.generation /\ target
  /\ \E n \in DOMAIN batch : activity(batch[n]) \/ suffix_candidate(batch[n])
  /\ site # NoSite /\ sampled.patches.generation = generation

plan_decides(busy) ==
  /\ stage = "sampled" /\ stage' = "planned"
  /\ LET site == batch_overlay IN
     plan' = IF ~busy /\ Planned(site)
               THEN [site |-> site, generation |-> sampled.generation, made |-> sampled.patches.generation]
               ELSE NoPlan
  /\ UNCHANGED <<recorded, control, sampled>>

(* before_submission: the plan is still current when the receipt begins.   *)
current_SlipAnyPlan == plan.generation # 0 /\ active

current == plan.generation # 0 /\ plan.generation = generation /\ active

submit ==
  /\ stage = "planned" /\ plan # NoPlan /\ stage' = "submitted"
  /\ plan' = IF current THEN plan ELSE NoPlan
  /\ UNCHANGED <<recorded, control, sampled>>
-----------------------------------------------------------------------------
(* The control thread, while a batch with a place for the copy is planned. *)
Changing == batch_overlay # NoSite /\ stage \in {"sampled", "planned"} /\ changes < MaxChanges /\ changes' = changes + 1

refresh_selected ==
  /\ Changing
  /\ target' = ~target /\ generation' = generation + 1
  /\ UNCHANGED <<recorded, active, config, patches, stage, sampled, plan>>

service_display_patches ==
  /\ Changing /\ active
  /\ config' = [generation |-> generation, target |-> target]
  /\ patches' = IF config' = config THEN patches ELSE NoPatch
  /\ UNCHANGED <<recorded, generation, target, active, stage, sampled, plan>>

publish_queue_patches ==
  /\ batch_overlay # NoSite /\ stage \in {"sampled", "planned"} /\ active /\ patches # config
  /\ patches' = config
  /\ UNCHANGED <<recorded, generation, target, active, config, changes, stage, sampled, plan>>

reset_session ==
  /\ Changing /\ active
  /\ active' = FALSE /\ config' = NoPatch /\ patches' = NoPatch
  /\ generation' = generation + 1 /\ target' = FALSE
  /\ UNCHANGED <<recorded, stage, sampled, plan>>

resume_session ==
  /\ Changing /\ ~active
  /\ active' = TRUE
  /\ UNCHANGED <<recorded, generation, target, config, patches, stage, sampled, plan>>
-----------------------------------------------------------------------------
Init ==
  /\ proof = reset /\ batch = << >> /\ trace = << >>
  /\ \E state \in States, hold \in BOOLEAN :
       now = [state |-> state, entry |-> state, pass |-> "none", hold |-> hold, began |-> hold,
              wrote |-> FALSE, own |-> FALSE]
  /\ stage = "recording" /\ generation = 1 /\ target = TRUE /\ active = TRUE
  /\ config \in {NoPatch, [generation |-> 1, target |-> TRUE]} /\ patches = config
  /\ sampled = [generation |-> 0, patches |-> NoPatch] /\ plan = NoPlan /\ changes = 0

Next ==
  \/ \E after \in States : transition(after) \/ uncertain(after)
  \/ \E display \in BOOLEAN : draw(display) \/ dispatch(display) \/ copy(display)
  \/ clear_unordered_access
  \/ \E suspending, clears \in BOOLEAN : pass_begins(suspending, clears)
  \/ pass_ends
  \/ \E succeeds \in BOOLEAN : close_list(succeeds)
  \/ plan_samples \/ submit
  \/ \E busy \in BOOLEAN : plan_decides(busy)
  \/ refresh_selected \/ service_display_patches \/ publish_queue_patches
  \/ reset_session \/ resume_session

Spec == Init /\ [][Next]_vars
-----------------------------------------------------------------------------
(* Every field stays within its domain.                                    *)
TypeOK ==
  /\ Len(batch) = Len(trace) /\ Len(batch) <= MaxLists
  /\ proof.known \in BOOLEAN /\ proof.slot.after \in States
  /\ now.state \in States /\ now.pass \in {"none", "open", "suspending"}
  /\ stage \in {"recording", "sampled", "planned", "submitted"}
  /\ generation \in 1..(MaxChanges + 1) /\ changes \in 0..MaxChanges
  /\ {target, active} \subseteq BOOLEAN

Copies == stage = "submitted" /\ plan # NoPlan

(* The copy runs where the display is in the very state from which it      *)
(* takes the display and to which it returns it, in the state in which the *)
(* next list expects it.                                                   *)
CopyFindsItsState ==
  Copies => LET at == trace[plan.site.list] IN
            plan.site.state = IF plan.site.before THEN at.entry ELSE at.exit

(* It never runs between the halves of a suspended pass.                   *)
CopyIsOutsidePasses ==
  Copies => LET at == trace[plan.site.list] IN
            ~(IF plan.site.before THEN at.began ELSE at.held)

(* No list of the batch writes over the copy, except where the copy stands *)
(* after the last write that can be followed, and the later list leaves    *)
(* the display in a state that a copy cannot restore.                      *)
CopyComesLast ==
  Copies => \A n \in DOMAIN trace :
              (n > plan.site.list \/ (n = plan.site.list /\ plan.site.before)) /\ trace[n].wrote
                => plan.site.kind = "suffix" /\ trace[n].exit \notin insertable_after

(* The copied image was made for the selection under which it is copied,   *)
(* and for this session, whatever changed while the batch was planned.     *)
PatchFitsSelection ==
  Copies => plan.made = generation /\ sampled.patches.target /\ target /\ active

SubmissionSafety == TypeOK /\ CopyFindsItsState /\ CopyIsOutsidePasses /\ CopyComesLast /\ PatchFitsSelection
=============================================================================
