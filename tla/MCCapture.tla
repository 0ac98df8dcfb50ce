------------------------------ MODULE MCCapture -----------------------------
(***************************************************************************)
(* For TLC: the bridge inside the simulator's command lists: the capture   *)
(* manager, the hooks it stands on and what it learns from bindings it did *)
(* not see begin, one at a time.                                           *)
(***************************************************************************)
EXTENDS CaptureManager, TLC

CONSTANTS Places, Views

VARIABLES
  component,      \* the component this behaviour is of
  kind, value, below, page, forwards, installed, owed, reached, configured, removed,
  enabled, known, ids, on, copied, late, op,
  texture, bind_content, born, registered, seen, displays, views, typed_rtv_refs, hints,
  live_backfill, full_window, associating, entered, changes

(* The components. They share no state here: each stays as it starts while *)
(* the behaviour is of another.                                            *)
Hooks == INSTANCE HookSlots WITH
  NList <- 2, NEnd <- 2, Objects <- Queues, MaxEnds <- 1, MaxObjects <- 1
Bind == INSTANCE LateBind WITH
  Addresses <- Places, Handles <- Views, Lists <- Queues, Need <- 1, MaxBorn <- 2,
  MaxChanges <- 1, content <- bind_content

(* Batches of one list.                                                    *)
Single == {<<l>> : l \in Lists}

ASSUME Hooks!HookSlotsAssumption /\ Bind!LateBindAssumption
-----------------------------------------------------------------------------
hooksVars == <<kind, value, below, page, forwards, installed, owed, reached,
               configured, removed, enabled, known, ids, on, copied, late, op>>
bindVars == <<texture, bind_content, born, registered, seen, displays, views,
              typed_rtv_refs, hints, live_backfill, full_window, associating,
              entered, changes>>

Components == {"manager", "hooks", "bind"}

InitOne ==
  /\ component \in Components
  /\ Init
  /\ Hooks!Init
  /\ Bind!Init
  /\ component # "hooks" => kind = "native"
  /\ component # "bind" => born = 0

(* A step is one of the component the behaviour is of.                     *)
OfManager == component = "manager" /\ UNCHANGED <<component, hooksVars, bindVars>> /\ Next
OfHooks == component = "hooks" /\ UNCHANGED <<component, vars, bindVars>> /\ Hooks!Next
OfBind == component = "bind" /\ UNCHANGED <<component, vars, hooksVars>> /\ Bind!Next

(* Components whose runs end: what may change has changed.                 *)
Rests == component \in {"manager", "hooks"} /\ UNCHANGED <<component, vars, hooksVars, bindVars>>

NextOne == OfManager \/ OfHooks \/ OfBind \/ Rests

SpecOne == InitOne /\ [][NextOne]_<<component, vars, hooksVars, bindVars>>
-----------------------------------------------------------------------------
(* The invariants of the two below it: a call that goes through a hook     *)
(* reaches what was there before, and the registry of displays is true of  *)
(* the textures that exist.                                                *)
BindingSafety == Hooks!HookSafety /\ Bind!LateBindSafety

(* See HookSlots: other software's wrapper is never thrown out of a slot,  *)
(* and what a wrapper forwards to stays.                                   *)
HooksAreConsiderate == Hooks!HooksAreConsiderate

(* See LateBind: a view is recovered only as a display this very recording *)
(* took into the render target state.                                      *)
BoundIsEntered == Bind!BoundIsEntered

(* The bounds taken together: not all of what the session, the signals and *)
(* the tokens may reach at once, nor two textures and a change of session. *)
Bounded ==
  /\ component = "manager" => device.session + device.last_signal + next_token <= 5
  /\ component = "bind" => born + changes <= 2

(* Threads, queues, packets, addresses and views are only compared for     *)
(* equality.  So are hooked objects and the lists of the bindings, which   *)
(* borrow the names of the queues.                                         *)
Symmetry ==
  UNION {Permutations(S) : S \in {Threads, Queues, Packets, Places, Views}}
=============================================================================
