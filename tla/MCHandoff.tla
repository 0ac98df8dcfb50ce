------------------------------ MODULE MCHandoff -----------------------------
(***************************************************************************)
(* For TLC: the handoff of the scene from its publication to the match the *)
(* consumers take, and the renderer's pool of views, one at a time.        *)
(***************************************************************************)
EXTENDS SceneHandoff, TLC

CONSTANTS SlotCount, LedgerSize, AaCapacity, MaxViews, MaxPairs, MaxOthers, MaxFaults   \* of ViewPool

VARIABLES
  component,      \* the component this behaviour is of
  view, use, queue, marked, bit, visits, ids, pool, retired, cleared, pc, snap, trace,
  creations, made, faults, touched, unseen, unnoted

(* The components. They share no state here: each stays as it starts while *)
(* the behaviour is of another.                                            *)
Pool == INSTANCE ViewPool

ASSUME AddedAssumption == Pool!ViewPoolAssumption
-----------------------------------------------------------------------------
poolVars == <<view, use, queue, marked, bit, visits, ids, pool, retired, cleared,
              pc, snap, trace, creations, made, faults, touched, unseen, unnoted>>
allVars == <<component, vars, poolVars>>

Components == {"handoff", "pool"}

InitOne ==
  /\ component \in Components
  /\ Init
  /\ Pool!Init
  /\ component # "pool" => \A i \in {1, 2} : use[i] = "free"

(* A step is one of the component the behaviour is of.                     *)
OfHandoff == component = "handoff" /\ UNCHANGED <<component, poolVars>> /\ Next
OfPool == component = "pool" /\ UNCHANGED <<component, vars>> /\ Pool!Next

(* The handoff ends when its counters are used up.                         *)
Rests == component = "handoff" /\ UNCHANGED allVars

NextOne == OfHandoff \/ OfPool \/ Rests

SpecOne == InitOne /\ [][NextOne]_allVars
-----------------------------------------------------------------------------
(* See ViewPool: a view of ours is in the renderer, in our ledger or       *)
(* released, and no other is touched.                                      *)
ViewPoolSafety == Pool!ViewPoolSafety

(* Keys, addresses, managers, entries and inspectors are only ever         *)
(* compared for equality.                                                  *)
Symmetry ==
  UNION {Permutations(S) : S \in {DeviceKeys, Handles, Managers, EntryIds, Inspectors}}
=============================================================================
