----------------------------- MODULE MCRecording ----------------------------
(***************************************************************************)
(* For TLC: what the bridge adds to the simulator's lists: the tracker of  *)
(* one recording, the state a stamp borrows and restores, and the ledger   *)
(* of a submitted batch, one at a time.                                    *)
(***************************************************************************)
EXTENDS PfdRecording

CONSTANTS
  Psos, Roots, Unregistered, Heaps, Values, WordCapacity,   \* of PfdStamp
  MaxBatch, MaxSelections                                   \* of PfdSubmission

VARIABLES
  component,      \* the component this behaviour is of
  stamp_native, st, known_layouts, drawn,
  proof, batch, submission_now, trace, stage, generation, target, active, config,
  patches, submission_sampled, submission_plan, submission_changes

(* The components. They share no state here: each stays as it starts while *)
(* the behaviour is of another.                                            *)
Stamp == INSTANCE PfdStamp WITH native <- stamp_native
Submission == INSTANCE PfdSubmission WITH
  MaxLists <- MaxBatch, MaxChanges <- MaxSelections, now <- submission_now, sampled <- submission_sampled,
  plan <- submission_plan, changes <- submission_changes

ASSUME AddedAssumption == Stamp!PfdStampAssumption /\ Submission!PfdSubmissionAssumption
-----------------------------------------------------------------------------
stampVars == <<stamp_native, st, known_layouts, drawn>>
submissionVars == <<proof, batch, submission_now, trace, stage, generation,
                    target, active, config, patches, submission_sampled,
                    submission_plan, submission_changes>>

Components == {"recording", "stamp", "submission"}

InitOne ==
  /\ component \in Components
  /\ Init
  /\ Stamp!Init
  /\ Submission!Init
  /\ component # "recording" => mask = "off"
  /\ component # "stamp" => ~known_layouts /\ stamp_native = Stamp!Cleared(Stamp!None)
  /\ component # "submission" => config = Submission!NoPatch /\ ~submission_now.hold /\ submission_now.state = "RT"

(* A step is one of the component the behaviour is of.                     *)
OfRecording == component = "recording" /\ UNCHANGED <<component, stampVars, submissionVars>> /\ Next
OfStamp == component = "stamp" /\ UNCHANGED <<component, vars, submissionVars>> /\ Stamp!Next
OfSubmission == component = "submission" /\ UNCHANGED <<component, vars, stampVars>> /\ Submission!Next

(* Components whose runs end: the batch is submitted.                      *)
Rests == component \in {"submission"} /\ UNCHANGED <<component, vars, stampVars, submissionVars>>

NextOne == OfRecording \/ OfStamp \/ OfSubmission \/ Rests

SpecOne == InitOne /\ [][NextOne]_<<component, vars, stampVars, submissionVars>>
-----------------------------------------------------------------------------
(* What a batch of lists is made to execute: a copy finds the state it was *)
(* planned for, outside passes and last, and a stamp gives the list back   *)
(* the state it had.                                                       *)
SubmissionSafety == Submission!SubmissionSafety /\ Stamp!StampSafety
=============================================================================
