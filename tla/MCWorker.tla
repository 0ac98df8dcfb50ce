------------------------------ MODULE MCWorker ------------------------------
(***************************************************************************)
(* For TLC: the companion's SimConnect worker: the taxi buttons it presses *)
(* and the aircraft session it keeps, one component at a time.             *)
(***************************************************************************)
EXTENDS TaxiButtons, FiniteSets, TLC

CONSTANTS Crafts, NoCraft, Distinct, MaxChanges, MaxPackets, MaxPolls, Lossless

VARIABLES
  component,      \* the component this behaviour is of
  sim, asked, session_inbox, link, stop, lifecycle, session_identity, body, camera,
  invalid, calibration, observed

(* The components. They share no state here: each stays as it starts while *)
(* the behaviour is of another.                                            *)
Session == INSTANCE AircraftSession WITH
  MaxQueued <- MaxPackets, inbox <- session_inbox, identity <- session_identity

ASSUME WorkerAssumption == Session!SessionAssumption
-----------------------------------------------------------------------------
sessionVars == <<sim, asked, session_inbox, link, stop, lifecycle,
                 session_identity, body, camera, invalid, calibration, observed>>

Components == {"taxi", "session"}

InitOne ==
  /\ component \in Components
  /\ Init
  /\ Session!Init
  /\ component # "taxi" => latch = {}

(* A step is one of the component the behaviour is of.                     *)
OfTaxi == component = "taxi" /\ UNCHANGED <<component, sessionVars>> /\ Next
OfSession == component = "session" /\ UNCHANGED <<component, vars>> /\ Session!Next

NextOne == OfTaxi \/ OfSession

SpecOne == InitOne /\ [][NextOne]_<<component, vars, sessionVars>>
-----------------------------------------------------------------------------
(* See AircraftSession: camera and aircraft samples agree, an epoch has    *)
(* one world, the pose is current.                                         *)
AircraftSafety == Session!AircraftSafety

(* Captain and first officer.                                              *)
TwoSides == {0, 1}

(* Aircraft are only compared for equality.                                *)
Symmetry == Permutations(Crafts)

(* What no later step tells apart: answers to an abandoned poll, the place *)
(* of no candidate, whether no camera sample was counted, an observation   *)
(* of an earlier epoch, the number of this one.  Polls still tie up their  *)
(* numbers.                                                                *)
Inert(poll) == poll # 0 /\ poll # session_identity.poll
Known == IF observed.epoch = lifecycle.epoch THEN observed.world ELSE 0
SessionView ==
  <<sim, link, stop, Cardinality(Session!Used), [lifecycle EXCEPT !.epoch = 0, !.running = @ /\ lifecycle.known],
    [session_identity EXCEPT !.poll = IF @ = 0 THEN 0 ELSE 1], body, camera, invalid, Known,
    {r[1] : r \in {q \in asked : ~Inert(q[2])}}, Cardinality({q \in asked : Inert(q[2])}),
    [i \in DOMAIN session_inbox |-> IF Inert(session_inbox[i].poll) THEN Session!Packet("inert", 0, NoCraft)
                            ELSE [session_inbox[i] EXCEPT !.poll = 0]],
    [calibration EXCEPT !.counted = @ /\ camera # Session!NoSample,
                        !.candidate = IF calibration.samples = 0 THEN 0 ELSE @]>>

(* Samples that are too old to count, and the ages of what nobody waits    *)
(* for.                                                                    *)
Live(sample) == IF sample.age > 0 THEN NoSample ELSE sample
TaxiView ==
  <<control, latch, pipe, inbox, identity, sends, Live(cache),
    [s \in {0, 1} |-> IF \E q \in ToSet(pipe) \cup ToSet(inbox) : q.id = packets[s]
                      THEN packets[s] ELSE 0],
    [cutoff EXCEPT !.sample = [s \in {0, 1} |-> IF s \in cutoff.waiting THEN @[s] ELSE 1]],
    command, [worker EXCEPT !.seen = Live(@)]>>
View == <<component, SessionView, TaxiView>>
=============================================================================
