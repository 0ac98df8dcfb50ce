------------------------------ MODULE ViewPool -----------------------------
(***************************************************************************)
(* The renderer's pool of views and what the bridge remembers of it: the   *)
(* inspection before a creation (view_pool.cpp), the ledger of views on    *)
(* their way out (RetiredViewPool), and the ledger of views whose anti-    *)
(* aliasing bit was cleared (view_aa.hpp), as camera/probe.cpp uses them   *)
(* in the manager's update.  The renderer's own thread drains its release  *)
(* queue and clears the markers while the pool is being read.              *)
(*                                                                         *)
(* A slot holds a view, which an entry of the bridge ("ours") or of the    *)
(* simulator may occupy; a free association has one value whatever made    *)
(* it free.  A released view stands in the release queue and is marked     *)
(* until the renderer is done with it.  A slot may get a new view, of      *)
(* MaxViews - SlotCount.                                                   *)
(*                                                                         *)
(* touched (the views that were the bridge's), unseen (those it could      *)
(* never verify, or whose record it wrote over: see RetiredViewsAreKept of *)
(* SceneSession) and unnoted (those whose bit it cleared without learning  *)
(* it, or with the ledger full) are history.                               *)
(***************************************************************************)
EXTENDS Naturals, Sequences, FiniteSets

CONSTANTS
  SlotCount,          \* 8
  LedgerSize,         \* of RetiredViewPool, 2: a pair
  AaCapacity,         \* ClearedAaLedger::Capacity, 4
  MaxViews, MaxPairs, MaxOthers, MaxFaults

(* What the constants are assumed to be; the runs evaluate it.             *)
ViewPoolAssumption ==
  /\ LedgerSize \in Nat \ {0} /\ AaCapacity \in Nat /\ SlotCount \in Nat \ {0}
  /\ MaxViews \in Nat /\ MaxViews >= SlotCount /\ MaxPairs \in Nat /\ MaxOthers \in Nat /\ MaxFaults \in Nat

VARIABLES
  view, use, queue, marked, bit,   \* the renderer
  visits,                          \* entries and exits of the simulator's own cameras
  ids,                             \* the slots of the bridge's entries, in creation order
  pool,                            \* owned_pool_views, by creation order; 0 none
  retired, cleared,                \* the ledgers
  pc, snap, trace, creations,      \* the update under way
  made, faults,
  touched, unseen, unnoted

renderer == <<view, use, queue, marked, bit, visits>>
history  == <<touched, unseen, unnoted>>
vars     == <<renderer, ids, pool, retired, cleared, pc, snap, trace, creations, made, faults, history>>

Slots == 1..SlotCount
Views == 1..MaxViews
Range0(s) == {s[i] : i \in DOMAIN s} \ {0}
releasing(v) == v \in queue \/ v \in marked
free(i) == use[i] = "free"
NoSnap  == [view |-> <<>>, free |-> {}, marked |-> {}, queue |-> {}]
required == IF creations = 0 THEN 2 ELSE 1
Fault == faults < MaxFaults /\ faults' = faults + 1
bridge == <<ids, pool, retired, cleared, made>>
-----------------------------------------------------------------------------
(* The renderer, at any time: it dequeues and clears the marker in either  *)
(* order, and may give a free slot another view.                           *)
drains ==
  /\ \E v \in queue \union marked :
       \/ v \in queue  /\ queue' = queue \ {v}   /\ UNCHANGED marked
       \/ v \in marked /\ marked' = marked \ {v} /\ UNCHANGED queue
  /\ UNCHANGED <<view, use, bit, visits, bridge, pc, snap, trace, creations, faults, history>>

replaces(i, v) ==
  /\ free(i) /\ view[i] \notin marked /\ v > SlotCount /\ \A w \in Range0(view) : w < v
  /\ view' = [view EXCEPT ![i] = v]
  /\ UNCHANGED <<use, queue, marked, bit, visits, bridge, pc, snap, trace, creations, faults, history>>

Released(i) ==
  /\ use' = [use EXCEPT ![i] = "free"]
  /\ queue' = queue \union {view[i]} /\ marked' = marked \union {view[i]}
  /\ UNCHANGED <<view, bit>>

(* The simulator's own entries, between two updates of the bridge. *)
others(i) ==
  /\ pc = "idle" /\ visits < MaxOthers /\ visits' = visits + 1
  /\ \/ /\ free(i) /\ \A j \in Slots : j < i => ~free(j)
        /\ ~releasing(view[i]) /\ use' = [use EXCEPT ![i] = "sim"]
        /\ touched' = touched \ {view[i]} /\ UNCHANGED <<view, queue, marked, bit>>
     \/ use[i] = "sim" /\ Released(i) /\ UNCHANGED touched
  /\ UNCHANGED <<bridge, pc, snap, trace, creations, faults, unseen, unnoted>>
-----------------------------------------------------------------------------
(* inspect_view_creation_pool: the slots, then the queues, then every      *)
(* observation again.  The slots are read in one step: the recheck refuses *)
(* what changes in between, and nothing here changes back.                 *)
Observe ==
  <<[view |-> view, free |-> {i \in Slots : free(i)}, marked |-> marked \intersect Range0(view)], queue>>

starts ==
  /\ pc = "idle" /\ ids = <<>> /\ trace' = <<>> /\ snap' = NoSnap /\ creations' = 0
  /\ pc' \in {"capture"} \union IF retired = {} THEN {} ELSE {"capture_reset"}
  /\ UNCHANGED <<renderer, bridge, faults, history>>

Capturing == pc \in {"capture", "capture_again", "capture_reset"}

capture ==
  /\ Capturing /\ Len(trace) < 2
  /\ trace' = Append(trace, Observe[Len(trace) + 1])
  /\ UNCHANGED <<renderer, bridge, creations, pc, snap, faults, history>>

recheck == trace = Observe

(* observe(): a view left the pool when neither queue shows it and no slot *)
(* shows it marked.                                                        *)
observe_SlipMarkerOnly(s) ==
  {v \in retired : \E i \in Slots : s.view[i] = v /\ v \in s.marked}
observe(s) ==
  {v \in retired : v \in s.queue \/ \E i \in Slots : s.view[i] = v /\ v \in s.marked}

creation_pool ==
  /\ Capturing /\ Len(trace) = 2 /\ trace' = <<>>
  /\ IF recheck
     THEN LET s == [view |-> trace[1].view, free |-> trace[1].free, marked |-> trace[1].marked, queue |-> trace[2]]
          IN /\ retired' = observe(s)
             /\ pc' = IF pc = "capture_reset" THEN "idle"
                      ELSE IF retired' = {} /\ cleared # {} /\ pc = "capture" THEN "restore" ELSE "capacity"
             /\ snap' = IF pc' = "idle" THEN NoSnap ELSE s
     ELSE snap' = NoSnap /\ pc' = "idle" /\ UNCHANGED retired
  /\ UNCHANGED <<renderer, ids, pool, cleared, creations, made, faults, history>>

(* restore_cleared_aa.  A write may be refused, or made and not confirmed. *)
(* Then the whole pool is read again.                                      *)
Unusable(s, i) == s.view[i] \in s.marked \/ s.view[i] \in s.queue

restore_cleared_aa ==
  /\ pc = "restore" /\ pc' = "capture_again"
  /\ LET gone  == {v \in cleared : \A i \in Slots : snap.view[i] # v}
         ready == {v \in cleared : \E i \in snap.free : snap.view[i] = v /\ ~Unusable(snap, i)}
     IN \E done, written \in {ready, {}} :
          /\ done \subseteq written
          /\ done # ready => faults < MaxFaults
          /\ faults' = IF done # ready THEN faults + 1 ELSE faults
          /\ bit' = [v \in Views |-> bit[v] \/ v \in written]
          /\ cleared' = cleared \ (gone \union done)
  /\ UNCHANGED <<view, use, queue, marked, visits, ids, pool, retired, snap, trace, creations, made, history>>

(* creation_available: the engine will take the first free slots.          *)
First(n, s) == {i \in s.free : Cardinality({j \in s.free : j < i}) < n}
creation_available_SlipCountsOnly(s, n) == Cardinality(s.free) >= n
creation_available(s, n) ==
  Cardinality(s.free) >= n /\ \A i \in First(n, s) : ~Unusable(s, i)

(* The pool is not ready, or the engine's call returns no identity. *)
refuses ==
  /\ pc = "capacity" /\ pc' = "idle" /\ snap' = NoSnap
  /\ UNCHANGED <<renderer, bridge, creations, trace, faults, history>>

(* create_entry, the inspection of the new entry, and its AA bit; the      *)
(* second view of the pair follows the first at once, or not at all.       *)
create ==
  /\ pc = "capacity" /\ retired = {} /\ creation_available(snap, required) /\ creations' = creations + 1 /\ snap' = NoSnap
  /\ made' = (IF creations = 0 THEN made + 1 ELSE made) /\ made' <= MaxPairs
  /\ \E i \in Slots :
       /\ free(i) /\ \A j \in Slots : j < i => ~free(j)
       /\ use' = [use EXCEPT ![i] = "ours"] /\ ids' = Append(ids, i) /\ touched' = touched \union {view[i]}
       /\ \/ /\ pc' = "aa" /\ pool' = [pool EXCEPT ![creations'] = view[i]]
             /\ unseen' = (unseen \union {pool[creations']}) \ {0, view[i]} /\ UNCHANGED faults
          \/ Fault /\ pc' = "idle" /\ unseen' = unseen \union {view[i]} /\ UNCHANGED pool
  /\ UNCHANGED <<view, queue, marked, bit, visits, retired, cleared, trace, unnoted>>

note(v) == IF Cardinality(cleared) < AaCapacity THEN cleared \union {v} ELSE cleared

(* disable_owned_view_aa and its note: a result that is not complete is    *)
(* not noted, although the word may have been written.                     *)
prepare_owned_view_aa ==
  /\ pc = "aa"
  /\ LET v == view[ids[Len(ids)]]
     IN \/ /\ bit' = [bit EXCEPT ![v] = FALSE] /\ cleared' = (IF bit[v] THEN note(v) ELSE cleared)
           /\ unnoted' = (IF bit[v] THEN unnoted \union ({v} \ cleared') ELSE unnoted)
           /\ pc' = (IF creations = 1 THEN "capture" ELSE "idle") /\ UNCHANGED faults
        \/ Fault /\ pc' = "idle" /\ UNCHANGED <<bit, cleared, unnoted>>
        \/ Fault /\ pc' = "idle" /\ bit' = [bit EXCEPT ![v] = FALSE] /\ unnoted' = unnoted \union {v} /\ UNCHANGED cleared
  /\ UNCHANGED <<view, use, queue, marked, visits, ids, pool, retired, snap, trace, creations, made, touched, unseen>>
-----------------------------------------------------------------------------
retain(r, v) == IF v # 0 /\ Cardinality(r) < LedgerSize THEN r \union {v} ELSE r

(* erase: with its gate closed and its view identified. *)
erase(k) ==
  /\ pc = "idle" /\ k \in DOMAIN ids
  /\ LET i == ids[k]  v == view[i]
     IN /\ v \in retain(retired, v) /\ retired' = retain(retired, v)
        /\ \/ v \in cleared /\ cleared' = cleared \ {v} /\ bit' = [bit EXCEPT ![v] = TRUE] /\ UNCHANGED faults
           \/ v \in cleared /\ Fault /\ bit' \in {bit, [bit EXCEPT ![v] = TRUE]} /\ UNCHANGED cleared
           \/ v \notin cleared /\ UNCHANGED <<cleared, bit, faults>>
        /\ use' = [use EXCEPT ![i] = "free"]
        /\ queue' = queue \union {v} /\ marked' = marked \union {v}
        /\ ids' = [j \in 1..Len(ids) - 1 |-> IF j < k THEN ids[j] ELSE ids[j + 1]]
  /\ UNCHANGED <<view, visits, pool, pc, snap, trace, creations, made, history>>

(* The flight is torn down: the simulator erases the entries itself, and   *)
(* the update that finds the pair gone moves its identities over.          *)
teardown(k) ==
  /\ pc = "idle" /\ k \in DOMAIN ids /\ Released(ids[k])
  /\ ids' = [j \in 1..Len(ids) - 1 |-> IF j < k THEN ids[j] ELSE ids[j + 1]]
  /\ UNCHANGED <<visits, pool, retired, cleared, pc, snap, trace, creations, made, faults, history>>

clear_retired_pair_SlipKeepsFirst ==
  /\ pc = "idle" /\ ids = <<>> /\ Range0(pool) # {}
  /\ retired' = retain(retired, pool[1])
  /\ pool' = <<0, 0>>
  /\ UNCHANGED <<renderer, ids, cleared, pc, snap, trace, creations, made, faults, history>>

clear_retired_pair ==
  /\ pc = "idle" /\ ids = <<>> /\ Range0(pool) # {}
  /\ retired' = retain(retain(retired, pool[1]), pool[2])
  /\ pool' = [j \in 1..2 |-> IF pool[j] \in retired' THEN 0 ELSE pool[j]]
  /\ UNCHANGED <<renderer, ids, cleared, pc, snap, trace, creations, made, faults, history>>

-----------------------------------------------------------------------------
Init ==
  /\ view = [i \in Slots |-> i] /\ bit = [v \in Views |-> TRUE]
  /\ use \in [Slots -> {"free", "sim"}] /\ queue = {} /\ marked = {} /\ visits = 0
  /\ ids = <<>> /\ pool = <<0, 0>> /\ retired = {} /\ cleared = {}
  /\ pc = "idle" /\ snap = NoSnap /\ trace = <<>>
  /\ creations = 0 /\ made = 0 /\ faults = 0
  /\ touched = {} /\ unseen = {} /\ unnoted = {}

Next ==
  \/ drains \/ starts \/ capture \/ creation_pool \/ restore_cleared_aa \/ refuses \/ create
  \/ prepare_owned_view_aa \/ clear_retired_pair
  \/ \E i \in Slots : others(i) \/ \E v \in Views : replaces(i, v)
  \/ \E k \in 1..2 : erase(k) \/ teardown(k)

Spec == Init /\ [][Next]_vars
-----------------------------------------------------------------------------
TypeOK ==
  /\ view \in [Slots -> Views] /\ use \in [Slots -> {"free", "ours", "sim"}]
  /\ Cardinality(retired) <= LedgerSize /\ Cardinality(cleared) <= AaCapacity
  /\ Len(ids) <= 2 /\ visits <= MaxOthers /\ creations \in 0..2 /\ made <= MaxPairs /\ faults <= MaxFaults

(* A camera is never created on a view the renderer has not released yet,  *)
(* of the bridge or of the simulator, although it drains concurrently and  *)
(* the engine, not the bridge, chooses the slot.                           *)
OnReleasedViews == \A i \in Slots : use[i] = "ours" => ~releasing(view[i])

(* While a view of the bridge is on its way out it is remembered, unless   *)
(* it was never verified, or torn down and noticed in the very update that *)
(* makes the next pair: whoever erased it, and however far the pool moved. *)
(* So a new pair and an acknowledged reset are after it.                   *)
RetiredIsRemembered ==
  \A v \in touched \ unseen :
    releasing(v) /\ (v \in queue \/ v \in Range0(view)) => v \in retired \union Range0(pool)

(* A view that carries the cleared bit and is in the pool is in the ledger *)
(* that gives it back.                                                     *)
ClearedIsLedgered == \A v \in Range0(view) : ~bit[v] => v \in cleared

ViewPoolSafety ==
  /\ TypeOK /\ OnReleasedViews /\ RetiredIsRemembered
  /\ \A v \in Range0(view) \ unnoted : ~bit[v] => v \in cleared
=============================================================================
