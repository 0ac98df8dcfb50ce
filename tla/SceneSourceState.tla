-------------------------- MODULE SceneSourceState --------------------------
(***************************************************************************)
(* What the capture path believes about the render-target state of a       *)
(* source: graphics/scene_source_state.hpp and scene_source_state.cpp.     *)
(*                                                                         *)
(* While a command list records, its state effects are appended to a       *)
(* bounded log that collapses repetitions.  Logs are applied to the        *)
(* tracker in the order the lists execute, any number of times, because a  *)
(* closed list can be executed again.  A log that lost effects wipes what  *)
(* the tracker believes; rearm_retained_rt restores the last render-target *)
(* model it had proof of.                                                  *)
(*                                                                         *)
(* The variables done, batch, proven and executed are history: the effects *)
(* the list really recorded, the last effect a tracked key had from lists  *)
(* executed since begin_batch, the model the last valid log left it in and *)
(* the model all logs executed, lossy ones included, left it in.           *)
(***************************************************************************)
EXTENDS Naturals, Sequences, SequencesExt

CONSTANTS
  Keys,          \* sources: native address and registration generation
  Lists,         \* command lists
  LogCapacity,   \* Recording::capacity
  Capacity,      \* Tracker::capacity
  MaxDone        \* bound of the model: effects recorded between two resets

ASSUME SourceAssumption ==
  /\ \A k \in Keys : Len(k) = 2 /\ k[2] \in Nat \ {0}
  /\ LogCapacity \in Nat /\ Capacity \in Nat /\ MaxDone \in Nat

VARIABLES sources, log, done, batch, proven, executed

history == <<batch, proven, executed>>
vars == <<sources, log, done, history>>

RtModels == {"legacy_rt", "enhanced_rt"}
Models   == RtModels \cup {"unknown", "other"}
Kinds    == RtModels \cup {"other", "draw"}
NoKey    == <<>>                               \* a zero handle or generation
Effects  == [key : Keys, kind : Kinds] \cup {[key |-> NoKey, kind |-> "other"]}
Unknown  == [model |-> "unknown", drawn |-> FALSE]
NoSlot   == [key |-> NoKey, state |-> Unknown, retained |-> "unknown"]
EmptyLog == [effects |-> <<>>, invalid |-> FALSE, overflowed |-> FALSE]
Slots    == 1..Capacity
-----------------------------------------------------------------------------
(* Recording::append.  Definitions named ..._Slip are plausible mistakes   *)
(* in the definition that follows; no action uses them.                    *)
LastOf(s, key) ==
  LET at == {i \in DOMAIN s : s[i].key = key}
  IN  IF at = {} THEN "none" ELSE s[CHOOSE i \in at : \A j \in at : j <= i].kind

Collapses_SlipAnyDraw(s, e) ==
  \/ s # <<>> /\ Last(s) = e
  \/ e.kind = "draw" /\ \E i \in DOMAIN s : s[i] = e

Collapses(s, e) ==
  \/ s # <<>> /\ Last(s) = e
  \/ e.kind = "draw" /\ LastOf(s, e.key) = "draw"

Appended_SlipOffByOne(r, e) ==
  IF r.invalid \/ Collapses(r.effects, e) THEN r
  ELSE IF e.key = NoKey \/ Len(r.effects) > LogCapacity THEN [r EXCEPT !.invalid = TRUE]
  ELSE [r EXCEPT !.effects = Append(@, e)]

Appended(r, e) ==
  IF r.invalid THEN r
  ELSE IF e.key = NoKey THEN [r EXCEPT !.invalid = TRUE]
  ELSE IF Collapses(r.effects, e) THEN r
  ELSE IF Len(r.effects) = LogCapacity
         THEN [r EXCEPT !.invalid = TRUE, !.overflowed = TRUE]
  ELSE [r EXCEPT !.effects = Append(@, e)]

append(l, e) ==
  /\ Len(done[l]) < MaxDone
  /\ log' = [log EXCEPT ![l] = Appended(@, e)]
  /\ done' = [done EXCEPT ![l] = Append(@, e)]
  /\ UNCHANGED <<sources, history>>

invalidate(l) ==
  /\ log' = [log EXCEPT ![l].invalid = TRUE]
  /\ UNCHANGED <<sources, done, history>>

reset(l) ==
  /\ log' = [log EXCEPT ![l] = EmptyLog]
  /\ done' = [done EXCEPT ![l] = <<>>]
  /\ UNCHANGED <<sources, history>>
-----------------------------------------------------------------------------
(* Tracker.                                                                *)
Tracked(slots) == {slots[i].key : i \in Slots}

(* History is kept of tracked keys only.                                   *)
Remember(models, last, after) ==
  /\ executed' = [k \in Keys |-> IF k \in Tracked(sources') THEN after[k] ELSE "unknown"]
  /\ proven' = [k \in Keys |-> IF k \in Tracked(sources') THEN models[k] ELSE "unknown"]
  /\ batch' = [k \in Keys |-> IF k \in Tracked(sources') THEN last[k] ELSE "none"]

Fresh(key, initial) ==
  [key |-> key, state |-> [model |-> initial, drawn |-> FALSE],
   retained |-> IF initial \in RtModels THEN initial ELSE "unknown"]

Holding(handle) == {i \in Slots : sources[i].key # NoKey /\ sources[i].key[1] = handle}
Free == {i \in Slots : sources[i].key = NoKey}
First(S) == CHOOSE i \in S : \A j \in S : i <= j

register_source_SlipFirstFree(key, initial) ==
  /\ Free # {} /\ \A i \in Slots : sources[i].key # key
  /\ sources' = [sources EXCEPT ![First(Free)] = Fresh(key, initial)]
  /\ Remember([proven EXCEPT ![key] = initial], batch, [executed EXCEPT ![key] = initial])
  /\ UNCHANGED <<log, done>>

(* A duplicate of the exact key, and a full table, change nothing.         *)
register_source(key, initial) ==
  /\ \A i \in Slots : sources[i].key # key
  /\ Holding(key[1]) \cup Free # {}
  /\ LET i == IF Holding(key[1]) # {} THEN First(Holding(key[1])) ELSE First(Free)
     IN  sources' = [sources EXCEPT ![i] = Fresh(key, initial)]
  /\ Remember([proven EXCEPT ![key] = initial], batch, [executed EXCEPT ![key] = initial])
  /\ UNCHANGED <<log, done>>

unregister_source(key) ==
  /\ \E i \in Slots : sources[i].key = key
  /\ sources' = [i \in Slots |-> IF sources[i].key = key THEN NoSlot ELSE sources[i]]
  /\ Remember(proven, batch, executed)
  /\ UNCHANGED <<log, done>>

clear ==
  /\ sources' = [i \in Slots |-> NoSlot]
  /\ Remember(proven, batch, executed)
  /\ UNCHANGED <<log, done>>

begin_batch_SlipKeepsDraws ==
  /\ batch' = [k \in Keys |-> "none"]
  /\ UNCHANGED <<sources, log, done, proven, executed>>

begin_batch ==
  /\ sources' = [i \in Slots |-> [sources[i] EXCEPT !.state.drawn = FALSE]]
  /\ batch' = [k \in Keys |-> "none"]
  /\ UNCHANGED <<log, done, proven, executed>>

Affected_SlipKeepsRetained(slot, e) ==
  IF slot.key # e.key THEN slot
  ELSE IF e.kind = "draw" THEN [slot EXCEPT !.state.drawn = slot.state.model \in RtModels]
  ELSE [slot EXCEPT !.state = [model |-> e.kind, drawn |-> FALSE],
                    !.retained = IF e.kind \in RtModels THEN e.kind ELSE @]

Affected(slot, e) ==
  IF slot.key # e.key THEN slot
  ELSE IF e.kind = "draw" THEN [slot EXCEPT !.state.drawn = slot.state.model \in RtModels]
  ELSE [slot EXCEPT !.state = [model |-> e.kind, drawn |-> FALSE],
                    !.retained = IF e.kind \in RtModels THEN e.kind ELSE "unknown"]

Applied(slots, effects) == [i \in Slots |-> FoldLeft(Affected, slots[i], effects)]

Wiped(slots) == [i \in Slots |-> [slots[i] EXCEPT !.state = Unknown]]

LastModel(s, key, otherwise) ==
  LET states == SelectSeq(s, LAMBDA e : e.key = key /\ e.kind # "draw")
  IN  IF states = <<>> THEN otherwise ELSE Last(states).kind

apply(l) ==
  LET after == [k \in Keys |-> LastModel(done[l], k, executed[k])]
  IN /\ IF log[l].invalid
          THEN sources' = Wiped(sources) /\ Remember(proven, batch, after)
          ELSE /\ sources' = Applied(sources, log[l].effects)
               /\ Remember([k \in Keys |-> LastModel(done[l], k, proven[k])],
                           [k \in Keys |-> IF LastOf(done[l], k) = "none" THEN batch[k]
                                           ELSE LastOf(done[l], k)],
                           after)
     /\ UNCHANGED <<log, done>>

invalidate_all ==
  /\ sources' = Wiped(sources)
  /\ UNCHANGED <<log, done, history>>

rearm_retained_rt ==
  /\ sources' = [i \in Slots |->
       IF sources[i].retained \in RtModels /\ sources[i].state.model # sources[i].retained
         THEN [sources[i] EXCEPT !.state = [model |-> sources[i].retained, drawn |-> FALSE]]
         ELSE sources[i]]
  /\ UNCHANGED <<log, done, history>>
-----------------------------------------------------------------------------
Init ==
  /\ sources = [i \in Slots |-> NoSlot]
  /\ log = [l \in Lists |-> EmptyLog]
  /\ done = [l \in Lists |-> <<>>]
  /\ batch = [k \in Keys |-> "none"]
  /\ proven = [k \in Keys |-> "unknown"]
  /\ executed = [k \in Keys |-> "unknown"]

Next ==
  \/ \E l \in Lists, e \in Effects : append(l, e)
  \/ \E l \in Lists : invalidate(l) \/ reset(l) \/ apply(l)
  \/ \E key \in Keys, initial \in Models : register_source(key, initial)
  \/ \E key \in Keys : unregister_source(key)
  \/ clear \/ begin_batch \/ invalidate_all \/ rearm_retained_rt

Spec == Init /\ [][Next]_vars
-----------------------------------------------------------------------------
(* Slots and logs keep their types and their capacities.                   *)
TypeOK ==
  /\ sources \in [Slots -> [key : Keys \cup {NoKey},
                            state : [model : Models, drawn : BOOLEAN],
                            retained : RtModels \cup {"unknown"}]]
  /\ \A l \in Lists : /\ Len(log[l].effects) <= LogCapacity
                      /\ log[l].overflowed => log[l].invalid
  /\ proven \in [Keys -> Models] /\ executed \in [Keys -> Models]

(* A key is tracked by one slot and a handle by one generation, so effects *)
(* of a dead generation cannot reach the live one.                         *)
OneSlotPerHandle ==
  \A i, j \in Slots :
    sources[i].key # NoKey /\ sources[j].key # NoKey /\ sources[i].key[1] = sources[j].key[1]
      => i = j

(* Collapsing loses nothing: a valid log does to the tracker exactly what  *)
(* the effects the list recorded would do one by one.                      *)
CollapseIsLossless ==
  \A l \in Lists :
    ~log[l].invalid => Applied(sources, log[l].effects) = Applied(sources, done[l])

(* What is believed of a source is either nothing or the model its last    *)
(* valid log left it in, wipes, replays, rearms and new generations in     *)
(* between included.                                                       *)
ModelIsUnknownOrProven ==
  \A i \in Slots : sources[i].key # NoKey =>
    sources[i].state.model \in {"unknown", proven[sources[i].key]}

(* Draw evidence is of this batch: the source was drawn after its last     *)
(* transition in the lists executed since begin_batch, and is a render     *)
(* target.                                                                 *)
DrawnInThisBatch ==
  \A i \in Slots : sources[i].state.drawn =>
    /\ sources[i].state.model \in RtModels
    /\ batch[sources[i].key] = "draw"

(* What scene_source_state.hpp says of rearm_retained_rt: it does not      *)
(* revive a source that already left RT.  A source believed to be a render *)
(* target was not taken out of that state by a log executed since.         *)
LeftRtIsNotRevived ==
  \A i \in Slots : sources[i].state.model \in RtModels =>
    executed[sources[i].key] = sources[i].state.model

(* What the tracked states never get wrong: a state the tracker calls      *)
(* known is the one that was proven, whatever a full log, a reused address *)
(* or a lossy list lost.                                                   *)
SourceSafety ==
  /\ TypeOK /\ CollapseIsLossless /\ DrawnInThisBatch /\ OneSlotPerHandle /\ ModelIsUnknownOrProven
=============================================================================
