-------------------------- MODULE DisplayRouting ----------------------------
(***************************************************************************)
(* Which texture is the left and which the right display: the detector of  *)
(* graphics/pfd_target_detector, the sides of graphics/taxi_button_routes, *)
(* and the control thread's use of both in bridge/d3d12_bridge, while the  *)
(* application creates and destroys textures on threads of its own.        *)
(*                                                                         *)
(* A texture is named by its incarnation, counted by next_id.  The counts  *)
(* of draws and of submitted exits matter only as what each texture gained *)
(* since the detector's baseline, given when a window closes.              *)
(* streak is history: for how many windows in a row a texture was present, *)
(* known to the baseline and active, since the detector last began anew.   *)
(***************************************************************************)
EXTENDS Integers, FiniteSets, SequencesExt

CONSTANTS
  Kind,        \* by policy and incarnation: typeless (one mip) or auxiliary
  Opaque,      \* incarnations seen only by their submitted exits
  GroupSize,   \* size of the group that the ini A380 allocates
  Rates,       \* what a texture may gain in one window
  MaxIds,      \* bound of the model: incarnations
  MaxChanges   \* bound of the model: sessions and explicit selections

(* What the constants are assumed to be; the runs evaluate it.             *)
DisplayRoutingAssumption ==
  /\ MaxIds \in Nat /\ MaxChanges \in Nat /\ GroupSize \in Nat /\ GroupSize >= 3
  /\ Kind \in [{"dominant", "a350", "group"} -> [1..MaxIds -> {"typeless", "auxiliary"}]]
  /\ Opaque \subseteq 1..MaxIds
  /\ Rates \subseteq Nat

VARIABLES
  live, dead,                    \* incarnations in the registry
  complete,                      \* pfd_inventory_complete
  policy,                        \* profile: dominant, a350, group
  targets, detected, assigned,   \* TaxiButtonRoutes
  detector,                      \* PfdTargetDetector
  begun,                         \* incarnations with a count other than zero
  streak, changes

registry == <<live, dead, complete>>
routes   == <<targets, detected, assigned>>
vars     == <<registry, policy, routes, detector, begun, streak, changes>>

Ids      == 1..MaxIds
Sides    == {1, 2}
Nobody   == <<0, 0>>
Policies == {"dominant", "a350", "group"}
Other(side) == 3 - side
next_id     == Cardinality(DOMAIN streak)
-----------------------------------------------------------------------------
(* TaxiButtonRoutes.                                                       *)
Routes(t, d, a) == [targets |-> t, detected |-> d, assigned |-> a]
Current         == Routes(targets, detected, assigned)

forget_SlipKeepsMark(r, gone) ==
  [r EXCEPT !.targets = [s \in Sides |-> IF @[s] \in gone THEN 0 ELSE @[s]],
            !.assigned = @ \/ r.targets # Nobody]

forget(r, gone) ==
  [targets  |-> [s \in Sides |-> IF r.targets[s] \in gone THEN 0 ELSE r.targets[s]],
   detected |-> [s \in Sides |-> IF r.targets[s] \in gone THEN 0 ELSE r.detected[s]],
   assigned |-> r.assigned \/ r.targets # Nobody]

forget_detected(r) ==
  LET gone == {r.detected[1], r.detected[2]} \ {0} IN IF gone = {} THEN r ELSE forget(r, gone)

Adopts(r, pair) ==
  \/ r.targets = Nobody /\ ~r.assigned
  \/ \E s \in Sides : r.targets[s] = 0 /\ r.targets[Other(s)] \in {pair[1], pair[2]}

adopt_detected_SlipAnyPair(r, pair) ==
  IF pair # Nobody /\ (r.targets[1] = 0 \/ r.targets[2] = 0) THEN Routes(pair, pair, TRUE) ELSE r

adopt_detected(r, pair) ==
  IF pair = Nobody \/ ~Adopts(r, pair) THEN r
  ELSE IF r.targets = Nobody THEN Routes(pair, pair, TRUE)
  ELSE LET lost == IF r.targets[1] = 0 THEN 1 ELSE 2
           kept == r.targets[Other(lost)]
           new  == IF pair[1] = kept THEN pair[2] ELSE pair[1]
       IN Routes([r.targets EXCEPT ![lost] = new], [r.detected EXCEPT ![lost] = new], TRUE)

replace_detected_SlipAnySide(r, pair) == IF pair = Nobody THEN r ELSE Routes(pair, pair, TRUE)

replace_detected(r, pair) ==
  IF pair = Nobody \/ \E s \in Sides : r.targets[s] # 0 /\ r.targets[s] # r.detected[s]
    THEN r ELSE Routes(pair, pair, TRUE)

select_explicit_SlipSameTwice(selection) == Routes(selection, Nobody, selection # Nobody)

select_explicit(selection) ==
  IF selection[1] # 0 /\ selection[1] = selection[2] THEN Current
  ELSE Routes(selection, Nobody, selection # Nobody)
-----------------------------------------------------------------------------
(* PfdTargetDetector.                                                      *)
Warm == [valid |-> FALSE, base |-> {}, submission_mode |-> FALSE,
         pending |-> Nobody, windows |-> 0, invalidates |-> FALSE]

clear(d, invalidates) == [d EXCEPT !.pending = Nobody, !.windows = 0, !.invalidates = invalidates]
seed(d, ids)          == [d EXCEPT !.valid = TRUE, !.base = ids]
confirmed(d)          == d.windows = 3
found(d)              == IF confirmed(d) THEN d.pending ELSE Nobody

confirm_SlipCountsAnyPair(d, pair) ==
  [d EXCEPT !.pending = pair, !.windows = IF @ = 3 THEN 3 ELSE @ + 1, !.invalidates = FALSE]

confirm(d, pair) ==
  LET e == IF pair # d.pending THEN clear(d, FALSE) ELSE d IN
  [e EXCEPT !.pending = pair, !.windows = IF @ = 3 THEN 3 ELSE @ + 1]

Ordered(ids) == SetToSortSeq(ids, LAMBDA i, j : i < j)
HigherLeft(ids) == LET s == Ordered(ids) IN <<s[2], s[1]>>

(* The three that gained most, the lowest incarnation first among equals;  *)
(* a texture that is not in the baseline has no gain yet.                  *)
Busiest(ids, gain) ==
  LET ranked == SetToSortSeq({i \in ids : gain[i] > 0},
                             LAMBDA i, j : gain[i] > gain[j] \/ (gain[i] = gain[j] /\ i < j))
  IN ranked
Gain(ranked, n, gain) == IF n <= Len(ranked) THEN gain[ranked[n]] ELSE 0

(* Two lead together: within three to one of each other, and ahead of the  *)
(* third by more than a half (a quarter for the A350).                     *)
Leads(ranked, gain) ==
  LET a == Gain(ranked, 1, gain)
      b == Gain(ranked, 2, gain)
      c == Gain(ranked, 3, gain)
      divisor == IF policy = "a350" THEN 4 ELSE 2
  IN b > 0 /\ a <= 3 * b /\ b - c > c \div divisor

(* Once the groups have been told apart: the window of a dominant pair.    *)
observe_pair(d, ids, elapsed, gain) ==
  LET e == IF d.pending # Nobody /\ ~({d.pending[1], d.pending[2]} \subseteq ids) THEN clear(d, FALSE) ELSE d
      r == Busiest(ids \cap d.base, gain)
  IN IF Cardinality(ids) < 2 \/ ~d.valid \/ elapsed = "stale" THEN seed(clear(d, FALSE), ids)
     ELSE IF elapsed = "within" THEN e
     ELSE IF ~Leads(r, gain) THEN seed(clear(e, FALSE), ids)
     ELSE confirm(seed(e, ids), HigherLeft({r[1], r[2]}))

observe_allocation_group(d, ids, elapsed, gain) ==
  LET s == Ordered(ids)
      reject(invalidates) == seed(clear(d, invalidates), ids)
  IN IF Cardinality(ids) # GroupSize \/ \E i \in ids : Kind[policy][i] # "typeless" THEN reject(TRUE)
     ELSE IF ~d.valid THEN reject(FALSE)
     ELSE IF d.base # ids THEN reject(TRUE)
     ELSE IF elapsed = "stale" THEN reject(FALSE)
     ELSE IF elapsed = "within" THEN d
     ELSE IF \E i \in ids : gain[i] = 0 THEN seed(clear(d, FALSE), ids)
     ELSE confirm(seed(d, ids), <<s[GroupSize], s[GroupSize - 2]>>)

Typeless(ids) == {i \in ids : Kind[policy][i] = "typeless"}
counted(mode) == {i \in Ids : (i \in Opaque) = mode}

observe(ids, elapsed, gained) ==
  LET active == {i \in ids : gained[i] > 0} \cup begun
      mode   == active \subseteq Opaque /\ (active # {} \/ detector.submission_mode)
      moved  == detector.valid /\ mode # detector.submission_mode
      d      == [detector EXCEPT !.submission_mode = mode]
      gain   == [i \in Ids |-> IF i \in counted(mode) THEN gained[i] ELSE 0]
      group  == IF mode /\ policy = "a350" THEN Typeless(ids) ELSE ids
      refuse == [clear(d, FALSE) EXCEPT !.valid = FALSE, !.base = {}]
  IN CASE policy = "group" /\ ~complete -> [Warm EXCEPT !.invalidates = TRUE]
       [] OTHER ->
          IF mode /\ policy = "a350" /\ (~complete \/ Cardinality(group) # 3) THEN refuse
          ELSE IF mode /\ policy = "a350" /\ d.valid /\ ~moved /\ d.base # group
            THEN seed(clear(d, FALSE), group)
          ELSE IF moved THEN seed(clear(d, policy = "group"), group)
          ELSE IF policy = "group" THEN observe_allocation_group(d, group, elapsed, gain)
          ELSE observe_pair(d, group, elapsed, gain)
-----------------------------------------------------------------------------
(* The control thread: discover_pfds.                                      *)
dominant_activity_pair(ids, gained) ==
  IF Cardinality(ids) # 2
     \/ (policy = "a350" /\ \A i \in ids : i \in Opaque \/ (i \notin begun /\ gained[i] = 0))
    THEN Nobody ELSE HigherLeft(ids)

allocation_group_pair(ids) ==
  LET s == Ordered(Typeless(ids)) IN
  IF Len(s) # GroupSize THEN Nobody ELSE <<s[GroupSize], s[GroupSize - 2]>>

Searches(r) == policy = "group" \/ r.targets[1] = 0 \/ r.targets[2] = 0

(* What the routes become of the detector's answer d and the inventory.    *)
Directed(r, d, gained) ==
  LET seen == IF confirmed(d) THEN adopt_detected(r, d.pending)
              ELSE IF policy = "group" /\ d.invalidates THEN forget_detected(r) ELSE r
      pair == allocation_group_pair(live)
  IN CASE policy # "group" /\ seen.targets = Nobody ->
            adopt_detected(seen, dominant_activity_pair(live, gained))
       [] policy = "group" /\ \E s \in Sides : seen.targets[s] = 0 ->
            LET kept == adopt_detected(seen, pair) IN
            IF Adopts(seen, pair) THEN kept ELSE replace_detected(seen, pair)
       [] OTHER -> seen

Settle(r) == targets' = r.targets /\ detected' = r.detected /\ assigned' = r.assigned

Quiet == [i \in Ids |-> 0]

Streaks(ids, elapsed, gained) ==
  [i \in DOMAIN streak |->
     IF detector'.windows = 0 THEN 0
     ELSE IF elapsed = "within" /\ i \in ids THEN streak[i]
     ELSE IF elapsed = "window" /\ i \in ids /\ i \in detector.base /\ gained[i] > 0
       THEN IF streak[i] = 3 THEN 3 ELSE streak[i] + 1
     ELSE 0]

discover_pfds(elapsed, gained) ==
  LET kept == forget(Current, dead) IN
  /\ dead' = {}
  /\ IF elapsed # "none" /\ Searches(kept)
       THEN /\ detector' = observe(live, elapsed, gained)
            /\ Settle(Directed(kept, detector', gained))
            /\ begun' = begun \cup {i \in live : gained[i] > 0}
            /\ streak' = Streaks(live, elapsed, gained)
       ELSE /\ gained = Quiet /\ Settle(kept)
            /\ UNCHANGED <<detector, begun, streak>>
  /\ UNCHANGED <<live, complete, policy, changes>>

(* Of the gains only those matter that the mode counts and, outside a      *)
(* closing window, which texture begins to count.                          *)
Counts(i) == i \in live /\ (i \in Opaque => begun \subseteq Opaque)
Begins == {Quiet} \cup {[Quiet EXCEPT ![i] = 1] : i \in live \ begun}
Gained == {g \in [Ids -> IF policy = "group" THEN {0, 1} ELSE Rates] : \A i \in Ids : g[i] > 0 => Counts(i)}
-----------------------------------------------------------------------------
(* The user and the aircraft session.                                      *)
Changing == changes < MaxChanges /\ changes' = changes + 1

assign_targets(left, right) ==
  /\ Changing /\ {left, right} \subseteq live \cup {0}
  /\ Settle(select_explicit(<<left, right>>))
  /\ UNCHANGED <<registry, policy, detector, begun, streak>>

(* set_aircraft_profile and reset_display_session.                         *)
start_session(profile) ==
  /\ Changing
  /\ policy' = profile
  /\ targets' = Nobody /\ detected' = Nobody /\ assigned' = FALSE
  /\ detector' = Warm /\ begun' = {}
  /\ streak' = [i \in DOMAIN streak |-> 0]
  /\ UNCHANGED registry
-----------------------------------------------------------------------------
(* The application.  A new texture may take the address, and with it the   *)
(* registry entry, of one whose end nobody has looked at yet.              *)
create(reused) ==
  /\ next_id < MaxIds
  /\ streak' = Append(streak, 0)
  /\ live' = live \cup {next_id + 1}
  /\ dead' = dead \ reused
  /\ UNCHANGED <<complete, policy, routes, detector, begun, changes>>

create_untracked ==
  /\ complete /\ complete' = FALSE
  /\ UNCHANGED <<live, dead, policy, routes, detector, begun, streak, changes>>

destroy(i) ==
  /\ live' = live \ {i} /\ dead' = dead \cup {i}
  /\ streak' = [streak EXCEPT ![i] = 0] /\ begun' = begun \ {i}
  /\ UNCHANGED <<complete, policy, routes, detector, changes>>
-----------------------------------------------------------------------------
Init ==
  /\ live = {} /\ dead = {} /\ complete = TRUE /\ policy \in Policies
  /\ targets = Nobody /\ detected = Nobody /\ assigned = FALSE
  /\ detector = Warm /\ begun = {} /\ streak = << >> /\ changes = 0

Next ==
  \/ \E gained \in Gained : discover_pfds("window", gained)
  \/ \E gained \in Begins : discover_pfds("within", gained)
  \/ discover_pfds("stale", Quiet)
  \/ discover_pfds("none", Quiet)
  \/ \E left, right \in live \cup {0} : assign_targets(left, right)
  \/ \E profile \in Policies : start_session(profile)
  \/ \E reused \in {{}} \cup {{i} : i \in dead} : create(reused)
  \/ create_untracked
  \/ \E i \in live : destroy(i)

Spec == Init /\ [][Next]_vars
-----------------------------------------------------------------------------
(* Every field stays within its domain.                                    *)
TypeOK ==
  /\ live \subseteq Ids /\ dead \subseteq Ids /\ live \cap dead = {}
  /\ targets \in Seq(0..MaxIds) /\ detected \in Seq(0..MaxIds) /\ assigned \in BOOLEAN
  /\ policy \in Policies /\ complete \in BOOLEAN /\ begun \subseteq Ids
  /\ detector.windows \in 0..3 /\ streak \in Seq(0..3) /\ changes \in 0..MaxChanges

(* The two sides are never one texture.                                    *)
SidesDiffer == targets = Nobody \/ targets[1] # targets[2]

(* A pair is confirmed only by three windows in a row in which both its    *)
(* textures were there and active; under the allocation policy the whole   *)
(* group was.                                                              *)
EvidenceIsFresh ==
  confirmed(detector) =>
    /\ \A s \in Sides : detector.pending[s] \in live => streak[detector.pending[s]] = 3
    /\ policy = "group" => \A i \in detector.base \cap live : streak[i] = 3

(* A side that only the detector chose is marked so, and can be withdrawn; *)
(* the mark never outlives the choice.                                     *)
MarksAreCurrent == \A s \in Sides : detected[s] \in {0, targets[s]}

RoutingSafety == TypeOK /\ SidesDiffer /\ EvidenceIsFresh /\ MarksAreCurrent

(* Without the user or a new session no texture that lives loses its side, *)
(* except that a changed allocation group replaces what was automatic.     *)
SidesAreKept ==
  [][changes' = changes =>
       \A s \in Sides :
         targets[s] \in live =>
           \/ targets'[s] = targets[s]
           \/ policy = "group" /\ detected[s] = targets[s]]_vars

(* taxi_button_routes: "The caller serializes access and forgets destroyed *)
(* resources".  After a look at the registry no side names a texture that  *)
(* is gone.                                                                *)
DestroyedIsForgotten ==
  dead = {} => \A s \in Sides : targets[s] \in live \cup {0}
=============================================================================
