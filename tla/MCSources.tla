------------------------------ MODULE MCSources -----------------------------
(***************************************************************************)
(* For TLC: what the bridge knows of the simulator's render targets: their *)
(* states and the displays among them, one component at a time.            *)
(***************************************************************************)
EXTENDS SceneSourceState, TLC

CONSTANTS Reused, Kept

VARIABLES
  component,      \* the component this behaviour is of
  live, dead, complete, policy, targets, detected, assigned, detector, begun, streak,
  changes

(* What the resources are under each policy.                               *)
Resources ==
  [p \in {"dominant", "a350", "group"} |->
    [i \in 1..4 |-> IF p = "a350" /\ i = 3 THEN "auxiliary" ELSE "typeless"]]

(* The components. They share no state here: each stays as it starts while *)
(* the behaviour is of another.                                            *)
Routing == INSTANCE DisplayRouting WITH
  Kind <- Resources, Opaque <- {1, 2, 3}, GroupSize <- 3, Rates <- {0, 4}, MaxIds <- 4,
  MaxChanges <- 1

(* One address is registered a second time while the other stays.          *)
ThreeKeys == {<<Reused, 1>>, <<Reused, 2>>, <<Kept, 1>>}

ASSUME Routing!DisplayRoutingAssumption
-----------------------------------------------------------------------------
routingVars == <<live, dead, complete, policy, targets, detected, assigned,
                 detector, begun, streak, changes>>

Components == {"sources_of", "routing"}

InitOne ==
  /\ component \in Components
  /\ Init
  /\ Routing!Init
  /\ component # "routing" => policy = "a350"

(* A step is one of the component the behaviour is of.                     *)
OfSources == component = "sources_of" /\ UNCHANGED <<component, routingVars>> /\ Next
OfRouting == component = "routing" /\ UNCHANGED <<component, vars>> /\ Routing!Next

(* Components whose runs end: the commands the model allows are used up.   *)
Rests == component \in {"sources_of"} /\ UNCHANGED <<component, vars, routingVars>>

NextOne == OfSources \/ OfRouting \/ Rests

SpecOne == InitOne /\ [][NextOne]_<<component, vars, routingVars>>
-----------------------------------------------------------------------------
(* The invariants of the two: a state called known is the proven one, the  *)
(* two displays are never the same resource.                               *)
DisplaySafety == SourceSafety /\ Routing!RoutingSafety

(* See DisplayRouting: no texture that lives loses its side without the    *)
(* user or a new session.                                                  *)
SidesAreKept == Routing!SidesAreKept

(* The contents of an invalid log and what lossy logs did are read by      *)
(* LeftRtIsNotRevived alone; of the last effect only a draw counts.        *)
View ==
  <<component, routingVars, sources, proven, [k \in Keys |-> batch[k] = "draw"],
    [l \in Lists |-> IF log[l].invalid THEN [log[l] EXCEPT !.effects = <<>>] ELSE log[l]],
    [l \in Lists |-> IF log[l].invalid THEN <<Len(done[l])>> ELSE done[l]]>>
=============================================================================
