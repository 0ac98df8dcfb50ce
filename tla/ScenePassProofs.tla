-------------------------- MODULE ScenePassProofs ---------------------------
(***************************************************************************)
(* Proofs about ScenePass, for every number of retries, waits and starts:  *)
(* what the native calls of a pass may do, how entries are retired, and    *)
(* how many pairs one explicit start can cost.                             *)
(***************************************************************************)
EXTENDS ScenePass, TLAPS

Recovery == [pending : BOOLEAN, attempts : Nat, reason : Reasons, rested : BOOLEAN]
Warmup   == [pending : BOOLEAN, waits : 0..MaximumOutputWaits]
Resize   == [pending : BOOLEAN, failed : BOOLEAN, closed_seen : BOOLEAN]
Schedule == [active : {0} \cup Cameras, next : Cameras]
View == [gate : {"open", "closed"}, size : {"pane", "primary"}, output : {"none", "other", "pane"}]

(* Every field with its type; TypeOK says it of those that are looked at.  *)
Types ==
  /\ allowed \in BOOLEAN /\ suspended \in BOOLEAN /\ start \in BOOLEAN /\ wanted \in BOOLEAN
  /\ deferred \in BOOLEAN /\ scheduled \in BOOLEAN /\ tries \in Nat
  /\ recovery \in Recovery
  /\ owned \subseteq Cameras /\ gone \subseteq owned /\ resized \subseteq Cameras
  /\ state \in {"disabled", "active", "cleanup"} /\ asked \in {"none", "disable"}
  /\ view \in [Cameras -> View]
  /\ warmup \in Warmup
  /\ resize \in Resize
  /\ schedule \in Schedule

(* An active pair is a whole pair; a pass that goes on to the views has    *)
(* one, a pass that goes on to a start has nothing.                        *)
StageOwns ==
  /\ state = "active" => owned = Cameras
  /\ pc = "views" => state = "active"
  /\ pc = "start" => owned = {}

(* What the observer remembers of a pair ends with it, and a pair that     *)
(* waits for its first dimensions is not one whose dimensions are restored.*)
Fresh ==
  /\ owned = {} => ~resize.pending /\ ~resize.failed
  /\ warmup.pending => ~resize.pending /\ ~resize.failed

(* A creation is paid for by a retry, or by the explicit start itself; a   *)
(* start deferred for want of capacity is the same start.                  *)
Charged ==
  /\ recovery.attempts <= maximum_retries
  /\ recovery.pending => recovery.attempts < maximum_retries /\ recovery.reason \in retryable
  /\ ~(start /\ deferred)
  /\ tries <= recovery.attempts + 1
  /\ start \/ deferred => tries <= recovery.attempts

IInv == Types /\ StageOwns /\ Fresh /\ OnePulseAtATime /\ Charged
-----------------------------------------------------------------------------
(* Closing gates opens none and leaves the rest of the views alone.        *)
LEMMA ClosedEffect ==
  ASSUME NEW v \in [Cameras -> View], NEW cs
  PROVE  /\ Closed(v, cs) \in [Cameras -> View]
         /\ \A c \in Cameras : /\ Closed(v, cs)[c].gate = IF c \in cs THEN "closed" ELSE v[c].gate
                               /\ Closed(v, cs)[c].size = v[c].size
                               /\ Closed(v, cs)[c].output = v[c].output
BY DEF Closed, View

LEMMA NewViews ==
  /\ NewView \in View /\ NewView.gate = "closed" /\ NewView.size = "primary"
  /\ [c \in Cameras |-> NewView] \in [Cameras -> View]
BY DEF NewView, View

(* A refusal recorded never adds to the retries, and is pending only while *)
(* the budget lasts.                                                       *)
LEMMA FailedEffect ==
  ASSUME Types, Charged, NEW reason \in Reasons
  PROVE  /\ failed(recovery, reason) \in Recovery
         /\ failed(recovery, reason).attempts = recovery.attempts
         /\ failed(recovery, reason).pending => /\ recovery.attempts < maximum_retries
                                                /\ failed(recovery, reason).reason \in retryable
BY ScenePassAssumption DEF ScenePassAssumption, failed, Types, Charged, Recovery

(* What Leave may take away: entries the engine has dropped, and entries   *)
(* whose gate was seen closed before.                                      *)
LEMMA LeaveEffect ==
  ASSUME Types, NEW seen \in [Cameras -> Seen], Leave(seen)
  PROVE  /\ owned' \subseteq owned /\ gone' \subseteq owned'
         /\ \A c \in owned \ owned' : c \in gone \/ (c \in closed_seen /\ ~open(view, c))
         /\ view' \in [Cameras -> View]
         /\ \A c \in Cameras : /\ open(view', c) => open(view, c)
                               /\ view'[c].size = "pane" => view[c].size = "pane"
         /\ state' = (IF owned' = {} THEN "disabled" ELSE "cleanup") /\ asked' = "none"
<1> DEFINE lost   == {c \in owned \cap gone : seen[c] = "ready"}
           closes == {c \in owned \ gone : seen[c] = "ready" /\ open(view, c)}
           erased == {c \in owned \ gone : allowed /\ Erasable(c, seen[c])}
<1>1. /\ owned' = owned \ (lost \cup erased) /\ gone' = gone \ lost
      /\ view' = [c \in Cameras |-> IF c \in lost \cup erased THEN NewView ELSE Closed(view, closes)[c]]
      /\ state' = (IF owned' = {} THEN "disabled" ELSE "cleanup") /\ asked' = "none"
  BY DEF Leave
<1>2. \A c \in lost : c \in gone
  OBVIOUS
<1>3. \A c \in erased : c \notin gone /\ c \in closed_seen /\ ~open(view, c)
  BY DEF Erasable
<1>4. view \in [Cameras -> View] /\ gone \subseteq owned
  BY DEF Types
<1> HIDE DEF lost, closes, erased
<1>5. view' \in [Cameras -> View]
  BY <1>1, <1>4, ClosedEffect, NewViews
<1>6. \A c \in Cameras : /\ open(view', c) => open(view, c)
                         /\ view'[c].size = "pane" => view[c].size = "pane"
  BY <1>1, <1>4, ClosedEffect, NewViews DEF open
<1> QED BY <1>1, <1>2, <1>3, <1>4, <1>5, <1>6

LEMMA NoFields ==
  /\ NoWarmup \in Warmup /\ NoResize \in Resize /\ NoPulse \in Schedule
  /\ ~NoResize.pending /\ ~NoResize.failed /\ ~NoWarmup.pending
BY ScenePassAssumption DEF ScenePassAssumption, NoWarmup, Warmup, NoResize, NoPulse, Cameras, Resize, Schedule

LEMMA ClearedEffect ==
  ASSUME Types, Cleared
  PROVE  /\ resized' \subseteq Cameras /\ scheduled' \in BOOLEAN
         /\ warmup' \in Warmup /\ resize' \in Resize /\ schedule' \in Schedule
         /\ owned' = {} => ~resize'.pending /\ ~resize'.failed /\ ~warmup'.pending
         /\ owned' # {} => resize' = resize /\ warmup' = warmup
BY NoFields DEF Cleared, Types

(* The schedule wants at most one feed.                                    *)
LEMMA TickEffect ==
  ASSUME NEW s \in Schedule, NEW due, NEW off
  PROVE  tick(s, due, off) \in Schedule
<1>1. s.next \in Cameras /\ 3 - s.next \in Cameras
  BY DEF Schedule, Cameras
<1> QED BY <1>1 DEF tick, Schedule

(* A stage that removes the pair.                                          *)
LEMMA LoseEffect ==
  ASSUME IInv, NEW seen \in [Cameras -> Seen], NEW reason \in Reasons, Lose(seen, reason), pc = "views"
  PROVE  /\ IInv'
         /\ \A c \in owned \ owned' : c \in gone \/ (c \in closed_seen /\ ~open(view, c))
         /\ \A c \in Cameras : /\ open(view', c) => open(view, c)
                               /\ view'[c].size = "pane" => view[c].size = "pane"
<1>f. /\ pc' = "idle" /\ UNCHANGED <<mailbox, deferred, tries>>
  BY DEF Lose
<1>1. CASE ~allowed
  <2>1. UNCHANGED <<recovery, pair, engine, fields>>
    BY <1>1 DEF Lose
  <2>2. IInv'
    BY <1>f, <2>1 DEF IInv, Types, StageOwns, Fresh, OnePulseAtATime, Charged, mailbox, pair, engine, fields, open
  <2> QED BY <2>1, <2>2 DEF pair, engine, open
<1>2. CASE allowed
  <2>1. record_stop(reason) /\ Leave(seen) /\ Cleared
    BY <1>2 DEF Lose
  <2>2. Types /\ Charged
    BY DEF IInv
  <2>3. Types'
    BY <1>f, <2>1, <2>2, LeaveEffect, ClearedEffect, FailedEffect DEF Types, record_stop, mailbox
  <2>4. StageOwns'
    BY <1>f, <2>1, <2>2, LeaveEffect DEF StageOwns
  <2>5. Fresh'
    BY <2>1, <2>2, ClearedEffect DEF IInv, Fresh
  <2>6. OnePulseAtATime'
    BY <2>1, <2>2, LeaveEffect DEF IInv, OnePulseAtATime, Cameras
  <2>7. Charged'
    BY <1>f, <2>1, <2>2, FailedEffect DEF Charged, record_stop, mailbox
  <2> QED BY <2>1, <2>2, <2>3, <2>4, <2>5, <2>6, <2>7, LeaveEffect DEF IInv
<1> QED BY <1>1, <1>2 DEF IInv, Types
-----------------------------------------------------------------------------
LEMMA InitIInv == Init => IInv
<1> SUFFICES ASSUME Init PROVE IInv
  OBVIOUS
<1> USE DEF Init
<1>r. recovery \in Recovery
  BY DEF Recovery, Reasons
<1>1. Types
  BY <1>r, NewViews, NoFields DEF Types
<1>2. StageOwns /\ Fresh
  BY NoFields DEF StageOwns, Fresh
<1>4. Charged
  BY ScenePassAssumption DEF ScenePassAssumption, Charged
<1>3. OnePulseAtATime
  BY NewViews DEF OnePulseAtATime, open, Cameras
<1> QED BY <1>1, <1>2, <1>3, <1>4 DEF IInv

(* Steps of the control thread, of time and of the engine.                 *)
LEMMA OutsideStep ==
  ASSUME IInv,
         \/ request_scene_test \/ request_scene_stop \/ permission
         \/ \E s \in BOOLEAN : suspend_scene_rendering(s)
         \/ capture_progress \/ delay_passes \/ engine_changes
  PROVE  IInv'
<1> USE DEF mailbox, pair, engine, fields
<1>0. Types /\ StageOwns /\ Fresh /\ OnePulseAtATime /\ Charged
  BY DEF IInv
<1>1. CASE request_scene_test
  <2>0. recovery' \in Recovery
    BY <1>0, <1>1 DEF request_scene_test, Types, Recovery, Reasons
  <2>1. Types'
    BY <1>0, <1>1, <2>0 DEF request_scene_test, Types
  <2>2. StageOwns' /\ Fresh' /\ OnePulseAtATime'
    BY <1>0, <1>1 DEF request_scene_test, StageOwns, Fresh, OnePulseAtATime, open
  <2>3. Charged'
    BY <1>0, <1>1, ScenePassAssumption DEF ScenePassAssumption, request_scene_test, Charged
  <2> QED BY <2>1, <2>2, <2>3 DEF IInv
<1>2. CASE request_scene_stop
  <2>0. recovery' \in Recovery
    BY <1>0, <1>2 DEF request_scene_stop, Types, Recovery, Reasons
  <2>1. Types'
    BY <1>0, <1>2, <2>0 DEF request_scene_stop, Types
  <2>2. StageOwns' /\ Fresh' /\ OnePulseAtATime'
    BY <1>0, <1>2 DEF request_scene_stop, StageOwns, Fresh, OnePulseAtATime, open
  <2>3. Charged'
    BY <1>0, <1>2 DEF request_scene_stop, Charged, Types, Recovery
  <2> QED BY <2>1, <2>2, <2>3 DEF IInv
<1>3. CASE permission
  BY <1>0, <1>3 DEF permission, IInv, Types, StageOwns, Fresh, OnePulseAtATime, open, Charged
<1>4. ASSUME NEW s \in BOOLEAN, suspend_scene_rendering(s) PROVE IInv'
  BY <1>0, <1>4 DEF suspend_scene_rendering, IInv, Types, StageOwns, Fresh, OnePulseAtATime, open, Charged
<1>5. CASE capture_progress
  <2>0. recovery' \in Recovery
    BY <1>0, <1>5 DEF capture_progress, Types, Recovery, Reasons
  <2>1. Types'
    BY <1>0, <1>5, <2>0 DEF capture_progress, Types
  <2>2. StageOwns' /\ Fresh' /\ OnePulseAtATime'
    BY <1>0, <1>5 DEF capture_progress, StageOwns, Fresh, OnePulseAtATime, open
  <2>3. Charged'
    BY <1>0, <1>5, ScenePassAssumption DEF ScenePassAssumption, capture_progress, Charged, Types, Recovery
  <2> QED BY <2>1, <2>2, <2>3 DEF IInv
<1>6. CASE delay_passes
  <2>0. recovery' \in Recovery
    BY <1>0, <1>6 DEF delay_passes, Types, Recovery
  <2>1. Types'
    BY <1>0, <1>6, <2>0 DEF delay_passes, Types
  <2>2. StageOwns' /\ Fresh' /\ OnePulseAtATime'
    BY <1>0, <1>6 DEF delay_passes, StageOwns, Fresh, OnePulseAtATime, open
  <2>3. Charged'
    BY <1>0, <1>6 DEF delay_passes, Charged, Types, Recovery
  <2> QED BY <2>1, <2>2, <2>3 DEF IInv
<1>7. CASE engine_changes
  <2>1. /\ view' \in [Cameras -> View]
        /\ \A c \in Cameras : view'[c].gate = view[c].gate
        /\ gone' \subseteq owned
    <3>1. view \in [Cameras -> View] /\ owned \subseteq Cameras /\ gone \subseteq owned
      BY <1>0 DEF Types
    <3>2. CASE view' = [c \in Cameras |-> [view[c] EXCEPT !.size = "primary"]] /\ UNCHANGED gone
      BY <3>1, <3>2 DEF View
    <3>3. ASSUME NEW c \in owned \ gone, NEW out \in {"none", "other", "pane"},
                 view' = [view EXCEPT ![c].output = out], UNCHANGED gone
          PROVE  <2>1
      BY <3>1, <3>3 DEF View
    <3>4. CASE (\E c \in owned \ gone : gone' = gone \cup {c}) /\ UNCHANGED view
      BY <3>1, <3>4
    <3> QED BY <1>7, <3>2, <3>3, <3>4 DEF engine_changes
  <2>2. Types' /\ StageOwns' /\ Fresh' /\ Charged'
    BY <1>0, <1>7, <2>1 DEF engine_changes, Types, StageOwns, Fresh, Charged
  <2>3. OnePulseAtATime'
    BY <1>0, <1>7, <2>1 DEF engine_changes, OnePulseAtATime, open, Cameras
  <2> QED BY <2>2, <2>3 DEF IInv
<1> QED BY <1>1, <1>2, <1>3, <1>4, <1>5, <1>6, <1>7
-----------------------------------------------------------------------------
(* A step that opens no gate keeps the pulses apart.                       *)
LEMMA PulseKept ==
  ASSUME OnePulseAtATime, \A c \in Cameras : open(view', c) => open(view, c),
         state' = "active" => /\ state = "active" /\ resized' = resized
                              /\ scheduled => scheduled'
                              /\ ~warmup.pending => ~warmup'.pending
  PROVE  OnePulseAtATime'
BY DEF OnePulseAtATime, Cameras

LEMMA RecordStopCharged ==
  ASSUME Types, Charged, NEW reason \in Reasons, record_stop(reason),
         tries' = tries, start' => start, deferred' = deferred
  PROVE  /\ recovery' \in Recovery
         /\ Charged'
BY FailedEffect DEF record_stop, Charged

(* Steps that end before a view is looked at.                              *)
LEMMA EntryStep ==
  ASSUME IInv,
         \/ park \/ close_owned_pair \/ not_started \/ exception
         \/ \E temporary \in BOOLEAN : manager_refused(temporary)
         \/ \E seen \in [Cameras -> Seen] : update(seen)
  PROVE  IInv'
<1> USE DEF mailbox, pair, engine, fields
<1>0. Types /\ StageOwns /\ Fresh /\ OnePulseAtATime /\ Charged
  BY DEF IInv
<1>v. view \in [Cameras -> View]
  BY <1>0 DEF Types
<1>c. ASSUME NEW cs, view' = Closed(view, cs)
      PROVE  view' \in [Cameras -> View] /\ \A c \in Cameras : open(view', c) => open(view, c)
  BY <1>v, <1>c, ClosedEffect DEF open
<1>1. CASE park
  <2>1. view' \in [Cameras -> View] /\ \A c \in Cameras : open(view', c) => open(view, c)
    BY <1>1, <1>c DEF park
  <2>2. OnePulseAtATime'
    BY <1>0, <1>1, <2>1, PulseKept DEF park
  <2> QED BY <1>0, <1>1, <2>1, <2>2 DEF park, IInv, Types, StageOwns, Fresh, Charged
<1>2. CASE close_owned_pair
  <2>1. view' \in [Cameras -> View] /\ \A c \in Cameras : open(view', c) => open(view, c)
    BY <1>2, <1>c DEF close_owned_pair
  <2>2. OnePulseAtATime'
    BY <1>0, <1>2, <2>1, PulseKept DEF close_owned_pair
  <2>s. schedule' \in Schedule
    BY <1>0, <1>2 DEF close_owned_pair, Types, Schedule
  <2>3. Types'
    BY <1>0, <1>2, <2>1, <2>s DEF close_owned_pair, Types
  <2> QED BY <1>0, <1>2, <2>2, <2>3 DEF close_owned_pair, IInv, StageOwns, Fresh, Charged
<1>3. CASE not_started
  BY <1>0, <1>3 DEF not_started, IInv, Types, StageOwns, Fresh, Charged, OnePulseAtATime, open
<1>4. CASE exception
  <2>1. recovery' \in Recovery /\ Charged'
    BY <1>0, <1>4, RecordStopCharged DEF exception, Reasons
  <2>2. Types' /\ StageOwns' /\ Fresh' /\ OnePulseAtATime'
    BY <1>0, <1>4, <2>1 DEF exception, Types, StageOwns, Fresh, OnePulseAtATime, open
  <2> QED BY <2>1, <2>2 DEF IInv
<1>5. ASSUME NEW temporary \in BOOLEAN, manager_refused(temporary) PROVE IInv'
  <2>1. recovery' \in Recovery /\ Charged'
    BY <1>0, <1>5, RecordStopCharged DEF manager_refused, Reasons
  <2>2. Types'
    BY <1>0, <1>5, <2>1 DEF manager_refused, Types
  <2>3. StageOwns' /\ Fresh' /\ OnePulseAtATime'
    BY <1>0, <1>5, <2>1 DEF manager_refused, StageOwns, Fresh, OnePulseAtATime, open
  <2> QED BY <2>1, <2>2, <2>3 DEF IInv
<1>6. ASSUME NEW seen \in [Cameras -> Seen], update(seen) PROVE IInv'
  <2>0. /\ pc' = IF owned' = {} THEN "start" ELSE IF state' = "active" THEN "views" ELSE "idle"
        /\ UNCHANGED <<mailbox, recovery, deferred, tries>>
    BY <1>6 DEF update
  <2>1. CASE asked = "disable" \/ state = "cleanup"
    <3>1. Leave(seen) /\ Cleared
      BY <1>6, <2>1 DEF update
    <3>2. Types'
      BY <1>0, <2>0, <3>1, LeaveEffect, ClearedEffect DEF Types
    <3>3. StageOwns' /\ Charged'
      BY <1>0, <2>0, <3>1, LeaveEffect DEF StageOwns, Charged
    <3>4. Fresh'
      BY <1>0, <3>1, ClearedEffect DEF Fresh
    <3>5. OnePulseAtATime'
      BY <1>0, <3>1, LeaveEffect, PulseKept
    <3> QED BY <3>2, <3>3, <3>4, <3>5 DEF IInv
  <2>2. CASE ~(asked = "disable" \/ state = "cleanup")
    BY <1>0, <1>6, <2>0, <2>2 DEF update, IInv, Types, StageOwns, Fresh, Charged, OnePulseAtATime, open
  <2> QED BY <2>1, <2>2
<1> QED BY <1>1, <1>2, <1>3, <1>4, <1>5, <1>6

(* What a retry that is due makes of the recovery's record.                *)
LEMMA RetriedEffect ==
  ASSUME NEW r \in Recovery
  PROVE  LET n == [r EXCEPT !.pending = FALSE, !.attempts = @ + 1]
         IN  n \in Recovery /\ ~n.pending /\ n.attempts = r.attempts + 1 /\ n.reason = r.reason
<1> DEFINE m == [r EXCEPT !.pending = FALSE]
           n == [m EXCEPT !.attempts = r.attempts + 1]
<1>1. m \in Recovery /\ ~m.pending /\ m.reason = r.reason
  BY DEF Recovery
<1>2. r.attempts + 1 \in Nat
  BY DEF Recovery
<1> HIDE DEF m
<1>3. n \in Recovery /\ ~n.pending /\ n.attempts = r.attempts + 1 /\ n.reason = r.reason
  BY <1>1, <1>2 DEF Recovery
<1> QED BY <1>3 DEF m

(* Steps that start a pair.                                                *)
LEMMA StartStep ==
  ASSUME IInv, retry \/ create_pair \/ create_fails
  PROVE  IInv'
<1> USE DEF mailbox, pair, engine, fields
<1>0. Types /\ StageOwns /\ Fresh /\ OnePulseAtATime /\ Charged
  BY DEF IInv
<1>s. pc = "start" /\ owned = {} /\ state # "active" /\ ~resize.pending /\ ~resize.failed
  BY <1>0 DEF retry, create_pair, create_fails, StageOwns, Fresh, Cameras
<1>1. CASE retry
  <2>s. UNCHANGED <<allowed, suspended, wanted, starts, pair, engine, fields, pc, tries, newer>>
    BY <1>1, Zenon DEF retry
  <2>t. start' = TRUE /\ ~start
    BY <1>1, Zenon DEF retry
  <2>3. StageOwns' /\ Fresh' /\ OnePulseAtATime'
    BY <1>0, <1>1 DEF retry, StageOwns, Fresh, OnePulseAtATime, open
  <2>a. CASE deferred /\ wanted /\ deferred' = FALSE /\ UNCHANGED recovery
    <3>1. Types'
      <4>1. start' \in BOOLEAN /\ deferred' \in BOOLEAN
        BY <2>t, <2>a, Zenon
      <4> QED BY <1>0, <2>s, <2>a, <4>1 DEF Types
    <3>2. Charged'
      <4>1. tries' = tries /\ recovery' = recovery /\ ~deferred'
        BY <2>s, <2>a
      <4> QED BY <1>0, <2>a, <4>1 DEF Charged
    <3> QED BY <2>3, <3>1, <3>2 DEF IInv
  <2>b. CASE Due /\ recovery' = [recovery EXCEPT !.pending = FALSE, !.attempts = @ + 1] /\ deferred' = FALSE
    <3>1. /\ recovery' \in Recovery /\ ~recovery'.pending /\ recovery'.attempts = recovery.attempts + 1
          /\ recovery.attempts \in Nat /\ recovery'.reason = recovery.reason
      <4>1. recovery \in Recovery
        BY <1>0 DEF Types
      <4>2. recovery.attempts \in Nat
        BY <4>1 DEF Recovery
      <4> QED BY <2>b, <4>1, <4>2, RetriedEffect, Zenon
    <3>2. Types'
      <4>1. start' \in BOOLEAN /\ deferred' \in BOOLEAN
        BY <2>t, <2>b, Zenon
      <4> QED BY <1>0, <2>s, <3>1, <4>1 DEF Types
    <3>3. Charged'
      <4>1. recovery.attempts < maximum_retries /\ ~deferred' /\ tries' = tries /\ tries \in Nat
        BY <1>0, <2>s, <2>b DEF Due, Types, Charged
      <4> HIDE DEF Due
      <4> QED BY <1>0, <3>1, <4>1, ScenePassAssumption DEF ScenePassAssumption, Charged
    <3> QED BY <2>3, <3>2, <3>3 DEF IInv
  <2> QED BY <1>1, <2>a, <2>b, Zenon DEF retry
<1>2. CASE create_pair
  <2>0. warmup' \in Warmup
    BY <1>2, ScenePassAssumption DEF ScenePassAssumption, create_pair, Warmup
  <2>v. view' \in [Cameras -> View]
    BY <1>2, NewViews DEF create_pair
  <2>o. owned' \subseteq Cameras /\ gone' \subseteq owned' /\ tries' \in Nat /\ state' = "active" /\ asked' = "none"
    BY <1>0, <1>2 DEF create_pair, Types
  <2>1. Types'
    BY <1>0, <1>2, <2>0, <2>v, <2>o DEF create_pair, Types
  <2>2. Charged'
    BY <1>0, <1>2 DEF create_pair, Types, Recovery, Charged
  <2>3. StageOwns' /\ Fresh'
    BY <1>0, <1>2, <1>s DEF create_pair, StageOwns, Fresh, Cameras
  <2>4. OnePulseAtATime'
    <3>1. \A c \in Cameras : ~open(view', c)
      BY <1>2, NewViews DEF create_pair, open
    <3> QED BY <3>1 DEF OnePulseAtATime, Cameras
  <2> QED BY <2>1, <2>2, <2>3, <2>4 DEF IInv
<1>3. CASE create_fails
  <2>1. /\ owned' \in {{}, {1}} /\ start /\ start' = FALSE /\ UNCHANGED <<allowed, suspended, wanted, starts, fields, tries>>
        /\ state' = (IF owned' = {} THEN "disabled" ELSE "cleanup") /\ asked' = "none"
        /\ gone' = {} /\ pc' = "idle"
    BY <1>3 DEF create_fails
  <2>2. /\ recovery' \in Recovery
        /\ deferred' \in BOOLEAN /\ Charged'
    <3>1. CASE deferred' = TRUE /\ UNCHANGED recovery
      BY <1>0, <2>1, <3>1 DEF Types, Charged
    <3>2. ASSUME NEW reason \in {"inspection_unavailable", "creation_failed"}, record_stop(reason), UNCHANGED deferred
          PROVE  <2>2
      <4>1. reason \in Reasons
        BY DEF Reasons
      <4> QED BY <1>0, <2>1, <3>2, <4>1, RecordStopCharged DEF Types
    <3> QED BY <1>3, <3>1, <3>2 DEF create_fails
  <2>3. PICK g \in {"open", "closed"} :
          view' = [c \in Cameras |-> IF c \in owned' THEN [NewView EXCEPT !.gate = g] ELSE NewView]
    BY <1>3 DEF create_fails
  <2>4. view' \in [Cameras -> View]
    BY <2>3 DEF NewView, View
  <2>5. ~open(view', 2)
    BY <2>1, <2>3, NewViews DEF open, Cameras
  <2>6. Types'
    <3>1. owned' \subseteq Cameras /\ gone' \subseteq owned' /\ state' \in {"disabled", "active", "cleanup"}
      BY <2>1 DEF Cameras
    <3>2. /\ UNCHANGED <<allowed, suspended, wanted, tries, scheduled, resized, warmup, resize, schedule>>
          /\ start' = FALSE /\ asked' \in {"none", "disable"}
      BY <1>3, <2>1 DEF create_fails
    <3> QED BY <1>0, <2>2, <2>4, <3>1, <3>2 DEF Types
  <2>7. StageOwns' /\ Fresh' /\ OnePulseAtATime'
    BY <1>s, <2>1, <2>5 DEF StageOwns, Fresh, OnePulseAtATime
  <2> QED BY <2>2, <2>6, <2>7 DEF IInv
<1> QED BY <1>1, <1>2, <1>3

(* What the views make of a size that changed, and of a wait.              *)
LEMMA StopReasons ==
  ASSUME NEW seen \in [Cameras -> Seen]
  PROVE  inspection_stop(seen) \in Reasons
BY DEF inspection_stop, reason_of, Reasons

(* A usable pair has its dimensions, on both sides.                        *)
LEMMA UsablePair ==
  ASSUME inspection_stop(Readable) = "none"
  PROVE  \A c \in Cameras : c \in resized /\ view[c].size = "pane" /\ c \notin gone
<1>1. \A c \in Cameras : Readable[c] = "ready"
  BY DEF Readable
<1>2. reason_of(1, Readable) = "none" /\ reason_of(2, Readable) = "none"
  BY <1>1 DEF inspection_stop, Cameras
<1> QED BY <1>1, <1>2 DEF reason_of, Cameras

(* The gates after a usable pass.                                          *)
LEMMA GatesApplied ==
  ASSUME Types, NEW cs
  PROVE  /\ apply_gates(cs) \in [Cameras -> View]
         /\ \A c \in Cameras : /\ open(apply_gates(cs), c) <=> c \in cs
                               /\ apply_gates(cs)[c].size = view[c].size
BY DEF apply_gates, Types, View, open

LEMMA ViewsStep ==
  ASSUME IInv,
         \/ warmup_resizes
         \/ \E due \in BOOLEAN : run(due)
         \/ \E seen \in [Cameras -> Seen] :
              warmup_fails(seen) \/ pause(seen) \/ pose_invalid(seen) \/ wait_for_views(seen) \/ views_lost(seen)
  PROVE  IInv'
<1> USE DEF mailbox, pair, engine, fields
<1>0. Types /\ StageOwns /\ Fresh /\ OnePulseAtATime /\ Charged
  BY DEF IInv
<1>v. view \in [Cameras -> View]
  BY <1>0 DEF Types
<1>s. pc = "views" /\ state = "active" /\ owned = Cameras
  BY <1>0 DEF warmup_resizes, run, warmup_fails, pause, pose_invalid, wait_for_views, views_lost, StageOwns
<1>1. CASE warmup_resizes
  <2>1. PICK out \in [Cameras -> {"none", "pane"}] :
          view' = [c \in Cameras |-> [view[c] EXCEPT !.size = "pane", !.output = IF @ = "pane" THEN @ ELSE out[c]]]
    BY <1>1 DEF warmup_resizes
  <2>2. view' \in [Cameras -> View] /\ \A c \in Cameras : view'[c].gate = view[c].gate
    BY <1>v, <2>1 DEF View
  <2>3. \A c \in Cameras : ~open(view', c)
    BY <1>1, <2>2 DEF warmup_resizes, open
  <2>4. /\ warmup' \in Warmup /\ resized' \subseteq Cameras /\ (warmup'.pending => warmup.pending)
    <3>1. CASE warmup' = NoWarmup /\ resized' = Cameras
      BY <3>1, NoFields
    <3>2. CASE /\ warmup.waits < MaximumOutputWaits /\ warmup' = [warmup EXCEPT !.waits = @ + 1]
               /\ resized' = {c \in Cameras : view'[c].output = "pane"}
      BY <1>0, <3>2, ScenePassAssumption DEF ScenePassAssumption, Types, Warmup
    <3> QED BY <1>1, <3>1, <3>2 DEF warmup_resizes
  <2>5. pc' \in {"views", "idle"} /\ UNCHANGED <<mailbox, recovery, deferred, pair, gone, scheduled, resize, closed_seen, schedule, tries>>
    BY <1>1, <1>s DEF warmup_resizes
  <2>6. Types'
    BY <1>0, <2>2, <2>4, <2>5 DEF Types
  <2>7. StageOwns' /\ Fresh' /\ Charged'
    BY <1>0, <1>s, <2>4, <2>5 DEF StageOwns, Fresh, Charged
  <2>8. OnePulseAtATime'
    BY <2>3 DEF OnePulseAtATime, Cameras
  <2> QED BY <2>6, <2>7, <2>8 DEF IInv
<1>2. ASSUME NEW due \in BOOLEAN, run(due) PROVE IInv'
  <2> DEFINE next == tick(IF scheduled THEN schedule ELSE NoPulse, due, suspended \/ ~allowed)
  <2>1. next \in Schedule /\ schedule' = next
    BY <1>0, <1>2, NoFields, TickEffect DEF run, Types
  <2> HIDE DEF next
  <2>2. PICK cs \in SUBSET {next.active} : view' = apply_gates(cs)
    BY <1>2 DEF run, next
  <2>3. view' \in [Cameras -> View] /\ ~(open(view', 1) /\ open(view', 2))
    BY <1>0, <2>2, GatesApplied DEF Cameras
  <2>4. resized = Cameras /\ ~warmup.pending
    BY <1>0, <1>2, UsablePair DEF run, Types
  <2>5. /\ scheduled' = TRUE /\ pc' = "idle"
        /\ UNCHANGED <<mailbox, recovery, deferred, pair, gone, resized, warmup, resize, closed_seen, tries>>
    BY <1>2 DEF run
  <2>6. Types'
    BY <1>0, <2>1, <2>3, <2>5 DEF Types
  <2>7. StageOwns' /\ Fresh' /\ Charged' /\ OnePulseAtATime'
    BY <1>0, <2>3, <2>4, <2>5 DEF StageOwns, Fresh, Charged, OnePulseAtATime
  <2> QED BY <2>6, <2>7 DEF IInv
<1>3. ASSUME NEW seen \in [Cameras -> Seen], warmup_fails(seen) \/ pose_invalid(seen) \/ views_lost(seen)
      PROVE  IInv'
  <2>1. PICK reason \in Reasons : Lose(seen, reason)
    BY <1>3, StopReasons DEF warmup_fails, pose_invalid, views_lost, Reasons
  <2> QED BY <1>s, <2>1, LoseEffect
<1>4. ASSUME NEW seen \in [Cameras -> Seen], wait_for_views(seen) PROVE IInv'
  <2>1. view' \in [Cameras -> View] /\ \A c \in Cameras : open(view', c) => open(view, c)
    BY <1>v, <1>4, ClosedEffect DEF wait_for_views, open
  <2>2. schedule' \in Schedule
    BY <1>0, <1>4, TickEffect DEF wait_for_views, Types
  <2>3. pc' = "idle" /\ UNCHANGED <<mailbox, recovery, deferred, pair, gone, resized, scheduled, warmup, resize, closed_seen, tries>>
    BY <1>4 DEF wait_for_views
  <2>4. Types'
    BY <1>0, <2>1, <2>2, <2>3 DEF Types
  <2>5. StageOwns' /\ Fresh' /\ Charged'
    BY <1>0, <2>3 DEF StageOwns, Fresh, Charged
  <2>6. OnePulseAtATime'
    BY <1>0, <2>1, <2>3, PulseKept
  <2> QED BY <2>4, <2>5, <2>6 DEF IInv
<1>5. ASSUME NEW seen \in [Cameras -> Seen], pause(seen) PROVE IInv'
  <2>0. /\ ~warmup.pending /\ pc' = "idle"
        /\ UNCHANGED <<mailbox, deferred, pair, gone, resized, scheduled, warmup, closed_seen, tries>>
    BY <1>5 DEF pause
  <2>1. /\ view' \in [Cameras -> View] /\ \A c \in Cameras : open(view', c) => open(view, c)
    <3>1. ASSUME NEW cs, view' = Closed(view, cs) PROVE <2>1
      BY <1>v, <3>1, ClosedEffect DEF open
    <3>2. CASE view' = [c \in Cameras |-> [Closed(view, Cameras)[c] EXCEPT !.size = "pane"]]
      <4>1. Closed(view, Cameras) \in [Cameras -> View] /\ \A c \in Cameras : Closed(view, Cameras)[c].gate = "closed"
        BY <1>v, ClosedEffect
      <4>2. view' \in [Cameras -> View] /\ \A c \in Cameras : view'[c].gate = "closed"
        BY <3>2, <4>1 DEF View
      <4> QED BY <4>2 DEF open
    <3> QED BY <1>5, <3>1, <3>2 DEF pause
  <2>2. resize' \in Resize
    BY <1>0, <1>5, NoFields DEF pause, Types, Resize
  <2>3. schedule' \in Schedule
    BY <1>0, <1>5, NoFields DEF pause, Types
  <2>4. recovery' \in Recovery /\ Charged'
    <3>1. CASE recovery' = recovery
      BY <1>0, <2>0, <3>1 DEF Types, Charged
    <3>2. CASE recovery' = failed(recovery, "resolution_changed")
      <4>1. "resolution_changed" \in Reasons
        BY DEF Reasons
      <4> QED BY <1>0, <2>0, <3>2, <4>1, RecordStopCharged DEF record_stop
    <3>3. CASE ~recovery.pending /\ recovery' = [recovery EXCEPT !.reason = "none"]
      BY <1>0, <2>0, <3>3 DEF Types, Recovery, Reasons, Charged
    <3> QED BY <1>5, <3>1, <3>2, <3>3 DEF pause
  <2>5. Types'
    BY <1>0, <2>0, <2>1, <2>2, <2>3, <2>4 DEF Types
  <2>6. StageOwns' /\ Fresh'
    BY <1>0, <1>s, <2>0 DEF StageOwns, Fresh, Cameras
  <2>7. OnePulseAtATime'
    BY <1>0, <2>0, <2>1, PulseKept
  <2> QED BY <2>4, <2>5, <2>6, <2>7 DEF IInv
<1> QED BY <1>1, <1>2, <1>3, <1>4, <1>5

(***************************************************************************)
(* The invariant, for every number of retries, waits and starts.           *)
(***************************************************************************)
LEMMA NextIInv ==
  ASSUME IInv, [Next]_vars
  PROVE  IInv'
<1>1. CASE UNCHANGED vars
  BY <1>1 DEF vars, mailbox, pair, engine, fields, IInv, Types, StageOwns, Fresh, Charged, OnePulseAtATime, open
<1>2. CASE \/ request_scene_test \/ request_scene_stop \/ permission \/ capture_progress \/ delay_passes
           \/ engine_changes \/ \E s \in BOOLEAN : suspend_scene_rendering(s)
  BY <1>2, OutsideStep
<1>3. CASE Pass
  BY <1>3, EntryStep, StartStep, ViewsStep, Zenon DEF Pass
<1> QED BY <1>1, <1>2, <1>3, Zenon DEF Next

LEMMA Invariance == Spec => []IInv
<1>1. Init => IInv
  BY InitIInv
<1>2. IInv /\ [Next]_vars => IInv'
  BY NextIInv
<1> QED BY <1>1, <1>2, PTL DEF Spec

(* One pulse at a time, on a pair that has been through its warm-up, and   *)
(* no more creations than a start and its retries allow.                   *)
THEOREM PassSafe == Spec => []PassSafety
<1>1. ASSUME IInv PROVE PassSafety
  <2>0. Types /\ OnePulseAtATime /\ Charged
    BY <1>1 DEF IInv
  <2>1. TypeOK
    BY <2>0 DEF TypeOK, Types, Recovery, Warmup, Schedule, View
  <2>2. recovery.attempts \in Nat /\ tries \in Nat
    BY <2>0 DEF Types, Recovery
  <2>3. CreationsAreBounded
    BY <2>0, <2>2, ScenePassAssumption DEF ScenePassAssumption, CreationsAreBounded, Charged, retryable, latched
  <2> QED BY <2>0, <2>1, <2>3 DEF PassSafety
<1> QED BY <1>1, Invariance, PTL
-----------------------------------------------------------------------------
(* What a step may do to the native views and entries.                     *)
Admits ==
  \A c \in Cameras :
    /\ ~open(view, c) /\ open(view', c) /\ state = "active"
         => view[c].output = "pane" /\ view[c].size = "pane" /\ c \notin gone
    /\ view[c].size = "primary" /\ view'[c].size = "pane" => ~open(view, c)

(* A step that opens no gate and writes no dimensions admits what it does. *)
LEMMA HarmlessStep ==
  ASSUME \A c \in Cameras : /\ open(view', c) => open(view, c)
                            /\ view'[c].size = "pane" => view[c].size = "pane"
  PROVE  Admits
BY DEF Admits

LEMMA ClosingStep ==
  ASSUME Types, NEW cs, view' = Closed(view, cs)
  PROVE  Admits
<1>1. view \in [Cameras -> View]
  BY DEF Types
<1> QED BY <1>1, ClosedEffect, HarmlessStep DEF open

(* Lose keeps the pair as it is, or lets the retirement begin.             *)
LEMMA LosingStep ==
  ASSUME Types, NEW seen \in [Cameras -> Seen], NEW reason, Lose(seen, reason)
  PROVE  /\ Admits
         /\ \A c \in owned \ owned' : c \in gone \/ (c \in closed_seen /\ ~open(view, c))
<1>1. CASE UNCHANGED <<recovery, pair, engine, fields>>
  BY <1>1, HarmlessStep DEF pair, engine, open
<1>2. CASE Leave(seen)
  BY <1>2, LeaveEffect, HarmlessStep
<1> QED BY <1>1, <1>2 DEF Lose

(* Every step that touches the views.                                      *)
LEMMA EveryStepAdmits ==
  ASSUME IInv, [Next]_vars
  PROVE  Admits
<1>0. Types /\ StageOwns /\ Fresh
  BY DEF IInv
<1>v. view \in [Cameras -> View]
  BY <1>0 DEF Types
<1>1. CASE view' = view
  BY <1>1, HarmlessStep DEF open
<1>2. CASE park \/ close_owned_pair
  BY <1>0, <1>2, ClosingStep DEF park, close_owned_pair
<1>3. CASE create_pair \/ create_fails
  <2>1. state # "active"
    BY <1>0, <1>3 DEF create_pair, create_fails, StageOwns, Cameras
  <2>2. \A c \in Cameras : view'[c].size = "primary"
    <3>1. CASE view' = [c \in Cameras |-> NewView]
      BY <3>1 DEF NewView
    <3>2. ASSUME NEW g \in {"open", "closed"},
                 view' = [c \in Cameras |-> IF c \in owned' THEN [NewView EXCEPT !.gate = g] ELSE NewView]
          PROVE  <2>2
      BY <3>2 DEF NewView
    <3> QED BY <1>3, <3>1, <3>2 DEF create_pair, create_fails
  <2> QED BY <2>1, <2>2 DEF Admits
<1>4. CASE warmup_resizes
  <2>1. PICK out \in [Cameras -> {"none", "pane"}] :
          view' = [c \in Cameras |-> [view[c] EXCEPT !.size = "pane", !.output = IF @ = "pane" THEN @ ELSE out[c]]]
    BY <1>4 DEF warmup_resizes
  <2>2. \A c \in Cameras : view'[c].gate = view[c].gate
    BY <1>v, <2>1 DEF View
  <2> QED BY <1>4, <2>2 DEF warmup_resizes, Admits, open
<1>5. ASSUME NEW seen \in [Cameras -> Seen], update(seen) PROVE Admits
  <2>1. Leave(seen) \/ view' = view
    BY <1>5 DEF update, engine
  <2> QED BY <1>0, <1>1, <2>1, LeaveEffect, HarmlessStep
<1>6. ASSUME NEW seen \in [Cameras -> Seen], warmup_fails(seen) \/ pose_invalid(seen) \/ views_lost(seen)
      PROVE  Admits
  <2>1. PICK reason : Lose(seen, reason)
    BY <1>6 DEF warmup_fails, pose_invalid, views_lost
  <2> QED BY <1>0, <2>1, LosingStep
<1>7. ASSUME NEW seen \in [Cameras -> Seen], wait_for_views(seen) PROVE Admits
  BY <1>0, <1>7, ClosingStep DEF wait_for_views
<1>8. ASSUME NEW seen \in [Cameras -> Seen], pause(seen) PROVE Admits
  <2>1. ASSUME NEW cs, view' = Closed(view, cs) PROVE Admits
    BY <1>0, <2>1, ClosingStep
  <2>2. CASE /\ Restorable(seen)
             /\ view' = [c \in Cameras |-> [Closed(view, Cameras)[c] EXCEPT !.size = "pane"]]
    <3>1. Closed(view, Cameras) \in [Cameras -> View] /\ \A c \in Cameras : Closed(view, Cameras)[c].gate = "closed"
      BY <1>v, ClosedEffect
    <3>2. \A c \in Cameras : ~open(view', c)
      BY <2>2, <3>1 DEF View, open
    <3>3. \A c \in Cameras : ~open(view, c)
      BY <2>2 DEF Restorable
    <3> QED BY <3>2, <3>3 DEF Admits
  <2> QED BY <1>8, <2>1, <2>2 DEF pause
<1>9. ASSUME NEW due \in BOOLEAN, run(due) PROVE Admits
  <2>1. PICK cs \in SUBSET {c \in Cameras : Admitted(c)} : view' = apply_gates(cs)
    BY <1>9 DEF run
  <2>2. \A c \in Cameras : view[c].size = "pane" /\ c \notin gone
    BY <1>9, UsablePair DEF run
  <2>3. \A c \in Cameras : open(view', c) => view[c].output = "pane"
    BY <1>0, <2>1, GatesApplied DEF Admitted
  <2> QED BY <1>v, <2>2, <2>3 DEF Admits, View
<1>10. CASE engine_changes
  <2>1. CASE view' = [c \in Cameras |-> [view[c] EXCEPT !.size = "primary"]]
    BY <1>v, <2>1, HarmlessStep DEF View, open
  <2>2. ASSUME NEW c \in Cameras, NEW out \in {"none", "other", "pane"}, view' = [view EXCEPT ![c].output = out]
        PROVE  Admits
    BY <1>v, <2>2, HarmlessStep DEF View, open
  <2> QED BY <1>0, <1>1, <1>10, <2>1, <2>2 DEF engine_changes, Types
<1>11. CASE \/ request_scene_test \/ request_scene_stop \/ permission \/ capture_progress \/ delay_passes
            \/ (\E s \in BOOLEAN : suspend_scene_rendering(s)) \/ retry \/ not_started \/ exception
            \/ (\E temporary \in BOOLEAN : manager_refused(temporary)) \/ UNCHANGED vars
  <2>1. view' = view
    BY <1>11 DEF request_scene_test, request_scene_stop, permission, capture_progress, delay_passes,
                 suspend_scene_rendering, retry, not_started, exception, manager_refused, vars, engine
  <2> QED BY <1>1, <2>1
<1> QED BY <1>2, <1>3, <1>4, <1>5, <1>6, <1>7, <1>8, <1>9, <1>10, <1>11, Zenon DEF Next, Pass

(* A gate opens only on an output that is there at the feed's dimensions,  *)
(* and dimensions are written only under a closed gate.                    *)
THEOREM CallsAreAdmitted == Spec => NativeCallsAreAdmitted
<1>1. IInv /\ [Next]_vars => [Admits]_vars
  BY EveryStepAdmits
<1>2. [][Admits]_vars => NativeCallsAreAdmitted
  BY PTL DEF NativeCallsAreAdmitted, Admits
<1> QED BY <1>1, <1>2, Invariance, PTL DEF Spec
-----------------------------------------------------------------------------
(* Who may shorten the list of owned entries.                              *)
LEMMA OnlyRetirementShrinks ==
  ASSUME IInv, [Next]_vars, owned' # owned
  PROVE  \/ owned = {}
         \/ \E seen \in [Cameras -> Seen] :
              /\ Leave(seen)
              /\ \/ asked = "disable" \/ state = "cleanup"
                 \/ warmup.pending
                 \/ ~resize.pending /\ ~resize.failed
<1> USE DEF pair
<1>0. StageOwns
  BY DEF IInv
<1>1. CASE create_pair \/ create_fails
  BY <1>0, <1>1 DEF create_pair, create_fails, StageOwns
<1>2. ASSUME NEW seen \in [Cameras -> Seen], update(seen)
      PROVE  Leave(seen) /\ (asked = "disable" \/ state = "cleanup")
  BY <1>2 DEF update
<1>3. ASSUME NEW seen \in [Cameras -> Seen], warmup_fails(seen)
      PROVE  Leave(seen) /\ warmup.pending
  BY <1>3 DEF warmup_fails, Lose
<1>4. ASSUME NEW seen \in [Cameras -> Seen], pose_invalid(seen) \/ views_lost(seen)
      PROVE  Leave(seen) /\ ~resize.pending /\ ~resize.failed
  BY <1>4 DEF pose_invalid, views_lost, resolution_pause, Lose
<1>5. ASSUME \/ request_scene_test \/ request_scene_stop \/ permission \/ capture_progress \/ delay_passes
             \/ engine_changes \/ (\E s \in BOOLEAN : suspend_scene_rendering(s)) \/ retry \/ not_started \/ exception
             \/ (\E temporary \in BOOLEAN : manager_refused(temporary)) \/ UNCHANGED vars
             \/ park \/ close_owned_pair \/ warmup_resizes \/ (\E due \in BOOLEAN : run(due))
             \/ (\E seen \in [Cameras -> Seen] : pause(seen) \/ wait_for_views(seen))
      PROVE  FALSE
  BY <1>5 DEF request_scene_test, request_scene_stop, permission, capture_progress, delay_passes, engine_changes,
              suspend_scene_rendering, retry, not_started, exception, manager_refused, vars, park,
              close_owned_pair, warmup_resizes, run, pause, wait_for_views
<1> QED BY <1>1, <1>2, <1>3, <1>4, <1>5, Zenon DEF Next, Pass

(* An entry goes only when the engine has dropped it, or when its gate was *)
(* seen closed on an earlier update.                                       *)
THEOREM RetirementGentle == Spec => RetirementIsGentle
<1> DEFINE Gentle == \A c \in owned \ owned' : c \in gone \/ (c \in closed_seen /\ ~open(view, c))
<1>1. ASSUME IInv, [Next]_vars PROVE Gentle
  <2>1. CASE owned' = owned
    BY <2>1
  <2>2. CASE owned = {}
    BY <2>2
  <2>3. ASSUME NEW seen \in [Cameras -> Seen], Leave(seen) PROVE Gentle
    BY <1>1, <2>3, LeaveEffect DEF IInv
  <2> HIDE DEF Gentle
  <2> QED BY <1>1, <2>1, <2>2, <2>3, OnlyRetirementShrinks
<1>2. IInv /\ [Next]_vars => [Gentle]_vars
  BY <1>1
<1>3. [][Gentle]_vars => RetirementIsGentle
  BY PTL DEF RetirementIsGentle
<1> QED BY <1>2, <1>3, Invariance, PTL DEF Spec

(* A pair whose dimensions are being restored, or were refused, keeps its  *)
(* entries until it is asked to leave.                                     *)
THEOREM ResolutionKeeps == Spec => ResolutionKeepsThePair
<1> DEFINE Keeps == (resize.pending \/ resize.failed) /\ asked = "none" /\ state = "active" => owned' = owned
<1>1. ASSUME IInv, [Next]_vars PROVE Keeps
  <2>1. /\ state = "active" => owned # {}
        /\ warmup.pending => ~resize.pending /\ ~resize.failed
    BY <1>1 DEF IInv, StageOwns, Fresh, Cameras
  <2> QED BY <1>1, <2>1, OnlyRetirementShrinks
<1>2. IInv /\ [Next]_vars => [Keeps]_vars
  BY <1>1
<1>3. [][Keeps]_vars => ResolutionKeepsThePair
  BY PTL DEF ResolutionKeepsThePair
<1> QED BY <1>2, <1>3, Invariance, PTL DEF Spec
=============================================================================
