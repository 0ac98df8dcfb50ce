--------------------------- MODULE SubmissionPool ---------------------------
(***************************************************************************)
(* The pool of private command lists that copy the composed image into the *)
(* displays: graphics/pfd_submission_pool, with the calls that             *)
(* scene_capture_manager makes inside a receipt.                           *)
(*                                                                         *)
(* A receipt records copies into ready slots, offers the lists to the      *)
(* native Execute, which takes all of them or none, and ends with a Signal *)
(* of the device timeline.  service, on another thread, recycles slots by  *)
(* the completed value of that timeline.                                   *)
(*                                                                         *)
(* The variables running and lost are history: the timeline value that     *)
(* covers a slot's list on the GPU, and the slots whose Signal failed,     *)
(* which may run for as long as they like.                                 *)
(***************************************************************************)
EXTENDS Naturals, FiniteSets

CONSTANTS
  Capacity,    \* Pool::Capacity
  MaxValue     \* bound of the model: receipts of the timeline

(* What the constants are assumed to be; the runs evaluate it.             *)
PoolAssumption == Capacity \in Nat /\ MaxValue \in Nat

VARIABLES
  state, leased, covering,   \* Pool::Packet
  receipt, planned,          \* progress of the receipt and its slots
  last_signal, completed,    \* timeline: queued and completed values
  failed, removed, alive,    \* device failed or removed; pool constructed
  running, lost

pool == <<state, leased, covering>>
gpu  == <<running, lost>>
vars == <<pool, receipt, planned, last_signal, completed, failed, removed, alive, gpu>>

Slots    == 1..Capacity
States   == {"empty", "ready", "recorded", "submitted", "retired", "quarantined"}
Progress == {"none", "open", "accepted", "declined"}
-----------------------------------------------------------------------------
(* service.  The native creations and Resets may fail, for the slots in    *)
(* bad.  Definitions named ..._Slip are plausible mistakes in the          *)
(* definition that follows; no action uses them.                           *)
Finished_SlipOffByOne(s) ==
  \/ state[s] = "retired"
  \/ state[s] = "submitted" /\ covering[s] <= completed + 1

Finished_SlipStrict(s) ==
  \/ state[s] = "retired"
  \/ state[s] = "submitted" /\ covering[s] < completed

Finished(s) ==
  \/ state[s] = "retired"
  \/ state[s] = "submitted" /\ covering[s] <= completed

service_SlipRetries(bad) ==
  /\ alive /\ receipt = "none" /\ ~failed /\ ~removed
  /\ state' = [s \in Slots |->
       IF Finished(s) \/ state[s] \in {"empty", "quarantined"}
         THEN IF s \in bad THEN "quarantined" ELSE "ready"
       ELSE state[s]]
  /\ leased' = [s \in Slots |-> leased[s] /\ ~Finished(s)]
  /\ covering' = [s \in Slots |-> IF Finished(s) THEN 0 ELSE covering[s]]
  /\ UNCHANGED <<receipt, planned, last_signal, completed, failed, removed, alive, gpu>>

service(bad) ==
  /\ alive /\ receipt = "none" /\ ~failed
  /\ IF removed
       THEN /\ state' = [s \in Slots |-> "quarantined"]
            /\ UNCHANGED <<leased, covering>>
       ELSE /\ state' = [s \in Slots |->
                 IF Finished(s) \/ state[s] = "empty"
                   THEN IF s \in bad THEN "quarantined" ELSE "ready"
                 ELSE state[s]]
            /\ leased' = [s \in Slots |-> leased[s] /\ ~Finished(s)]
            /\ covering' = [s \in Slots |-> IF Finished(s) THEN 0 ELSE covering[s]]
  /\ UNCHANGED <<receipt, planned, last_signal, completed, failed, removed, alive, gpu>>

(* ~Pool keeps what may still be in use.                                   *)
destroy ==
  /\ alive /\ receipt = "none"
  /\ alive' = FALSE
  /\ leased' = [s \in Slots |-> leased[s] /\ state[s] \in {"recorded", "submitted", "quarantined"}]
  /\ covering' = [s \in Slots |-> IF state[s] \in {"recorded", "submitted", "quarantined"}
                                    THEN covering[s] ELSE 0]
  /\ UNCHANGED <<state, receipt, planned, last_signal, completed, failed, removed, gpu>>
-----------------------------------------------------------------------------
(* A receipt of the capture manager, unless the queue's Wait for the one   *)
(* before it fails.                                                        *)
begin(waits) ==
  /\ alive /\ receipt = "none" /\ ~failed /\ last_signal < MaxValue
  /\ receipt' = IF waits THEN "open" ELSE "none"
  /\ failed' = ~waits
  /\ UNCHANGED <<pool, planned, last_signal, completed, removed, alive, gpu>>

(* record: the first ready slot.  Close may fail.                          *)
record(s, closed) ==
  /\ receipt = "open" /\ state[s] = "ready" /\ \A r \in Slots : r < s => state[r] # "ready"
  /\ leased' = [leased EXCEPT ![s] = TRUE]
  /\ state' = [state EXCEPT ![s] = IF closed THEN "recorded" ELSE "quarantined"]
  /\ planned' = IF closed THEN planned \cup {s} ELSE planned
  /\ UNCHANGED <<covering, receipt, last_signal, completed, failed, removed, alive, gpu>>

(* augment_submission, augmentation_result and the native Execute.         *)
forward(accepted) ==
  /\ receipt = "open"
  /\ receipt' = IF accepted THEN "accepted" ELSE "declined"
  /\ running' = [s \in Slots |-> IF accepted /\ s \in planned THEN last_signal + 1 ELSE running[s]]
  /\ UNCHANGED <<pool, planned, last_signal, completed, failed, removed, alive, lost>>

(* submit, whose value is neither zero nor the maximum, and cancel.        *)
Submitted(s) == IF state[s] = "recorded" THEN "submitted" ELSE "quarantined"
Cancelled(s) == CASE state[s] = "recorded"  -> "retired"
                  [] state[s] = "submitted" -> "quarantined"
                  [] OTHER                  -> state[s]

Ended(s, ok) ==
  IF ~ok THEN "quarantined"
  ELSE IF receipt = "accepted" THEN Submitted(s)
  ELSE Cancelled(s)

(* finish_transaction: submit, cancel or quarantine.                       *)
finish(signalled, refused, fatal) ==
  LET ok == signalled /\ ~refused IN
  /\ receipt \in {"accepted", "declined"}
  /\ state' = [s \in Slots |-> IF s \in planned THEN Ended(s, ok) ELSE state[s]]
  /\ covering' = [s \in Slots |-> IF s \in planned /\ state'[s] = "submitted" THEN last_signal + 1
                                  ELSE covering[s]]
  /\ last_signal' = IF signalled THEN last_signal + 1 ELSE last_signal
  /\ failed' = (failed \/ ~signalled \/ (refused /\ fatal))
  /\ lost' = IF signalled \/ receipt = "declined" THEN lost ELSE lost \cup planned
  /\ receipt' = "none" /\ planned' = {}
  /\ UNCHANGED <<leased, completed, removed, alive, running>>

(* The GPU completes the next value, or the device is removed.             *)
complete ==
  /\ completed < last_signal /\ ~removed
  /\ completed' = completed + 1
  /\ UNCHANGED <<pool, receipt, planned, last_signal, failed, removed, alive, gpu>>

remove ==
  /\ ~removed
  /\ removed' = TRUE
  /\ UNCHANGED <<pool, receipt, planned, last_signal, completed, failed, alive, gpu>>
-----------------------------------------------------------------------------
Init ==
  /\ state = [s \in Slots |-> "empty"] /\ leased = [s \in Slots |-> FALSE]
  /\ covering = [s \in Slots |-> 0]
  /\ receipt = "none" /\ planned = {} /\ last_signal = 0 /\ completed = 0
  /\ failed = FALSE /\ removed = FALSE /\ alive = TRUE
  /\ running = [s \in Slots |-> 0] /\ lost = {}

Next ==
  \/ \E bad \in SUBSET Slots : service(bad)
  \/ \E waits \in BOOLEAN : begin(waits)
  \/ destroy \/ complete \/ remove
  \/ \E s \in Slots, closed \in BOOLEAN : record(s, closed)
  \/ \E accepted \in BOOLEAN : forward(accepted)
  \/ \E signalled, refused, fatal \in BOOLEAN : finish(signalled, refused, fatal)

Spec == Init /\ [][Next]_vars
-----------------------------------------------------------------------------
(* Slots, the receipt and the timeline stay within their domains.          *)
TypeOK ==
  /\ state \in [Slots -> States] /\ leased \in [Slots -> BOOLEAN]
  /\ covering \in [Slots -> Nat] /\ running \in [Slots -> Nat]
  /\ receipt \in Progress /\ planned \subseteq Slots /\ lost \subseteq Slots
  /\ last_signal \in Nat /\ completed \in Nat
  /\ failed \in BOOLEAN /\ removed \in BOOLEAN /\ alive \in BOOLEAN

Pending(s) == s \in lost \/ completed < running[s]

(* While a slot's list may run on the GPU the pool keeps the references to *)
(* its source and target, and neither resets nor reuses its allocator.     *)
LeasesCoverTheGpu ==
  \A s \in Slots : Pending(s) => leased[s] /\ state[s] \in {"recorded", "submitted", "quarantined"}

Kept == \A s \in Slots : state[s] = "quarantined"
                            => state'[s] = "quarantined" /\ leased'[s] = leased[s]

(* Uncertain work is retained for ever: a quarantined slot never leaves    *)
(* that state, and keeps its references.                                   *)
QuarantineIsForever == [][Kept]_vars

(* Service, and the GPU, run on.                                           *)
FairSpec == /\ Spec /\ WF_vars(complete) /\ WF_vars(\E bad \in SUBSET Slots : service(bad))
            /\ WF_vars(forward(FALSE))
            /\ WF_vars(\E refused, fatal \in BOOLEAN : finish(TRUE, refused, fatal))

(* A copy that was cancelled or submitted gives its slot back, unless the  *)
(* device failed or the pool is gone.                                      *)
SlotsReturn ==
  \A s \in Slots : state[s] \in {"retired", "submitted"}
    ~> state[s] \in {"ready", "quarantined"} \/ failed \/ ~alive
=============================================================================
