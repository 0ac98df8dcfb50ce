------------------------ MODULE SubmissionPoolProofs ------------------------
(***************************************************************************)
(* Proofs about SubmissionPool, for every capacity and any number of       *)
(* receipts.                                                               *)
(***************************************************************************)
EXTENDS SubmissionPool, TLAPS

(* The slots of the open receipt are exactly the recorded ones.            *)
PlannedIsRecorded ==
  /\ receipt = "none" => planned = {}
  /\ \A s \in Slots : s \in planned <=> state[s] = "recorded"

(* Recorded slots hold references; before the native Execute they are not  *)
(* on the GPU, after it the receipt's own value covers them.               *)
PlannedIsCovered ==
  \A s \in planned :
    /\ leased[s]
    /\ receipt = "accepted" => running[s] = last_signal + 1
    /\ receipt # "accepted" => ~Pending(s)

(* The value a submitted slot waits for covers its list.                   *)
SubmittedIsCovered ==
  \A s \in Slots : state[s] = "submitted" => running[s] <= covering[s]

LostIsQuarantined == \A s \in lost : state[s] = "quarantined"

IInv == /\ TypeOK /\ LeasesCoverTheGpu /\ PlannedIsRecorded /\ PlannedIsCovered
        /\ SubmittedIsCovered /\ LostIsQuarantined

(* An empty pool satisfies the inductive invariant.                        *)
LEMMA InitIInv == Init => IInv
<1> SUFFICES ASSUME Init PROVE IInv
  OBVIOUS
<1> USE DEF Init
<1>1. TypeOK
  BY DEF TypeOK, States, Progress
<1>2. \A s \in Slots : ~Pending(s)
  BY DEF Pending
<1>3. PlannedIsRecorded /\ SubmittedIsCovered /\ LostIsQuarantined /\ PlannedIsCovered
  BY DEF PlannedIsRecorded, SubmittedIsCovered, LostIsQuarantined, PlannedIsCovered
<1> QED BY <1>1, <1>2, <1>3 DEF IInv, LeasesCoverTheGpu

(* Every operation of the pool and of a receipt keeps it.                  *)
LEMMA NextIInv == IInv /\ [Next]_vars => IInv'
<1> SUFFICES ASSUME IInv, [Next]_vars PROVE IInv'
  OBVIOUS
<1> USE DEF IInv, TypeOK, LeasesCoverTheGpu, PlannedIsRecorded, PlannedIsCovered,
     SubmittedIsCovered, LostIsQuarantined, Pending, States, Progress, pool, gpu
<1>1. ASSUME NEW bad \in SUBSET Slots, service(bad) PROVE IInv'
  <2>1. CASE removed
    BY <1>1, <2>1 DEF service
  <2>2. CASE ~removed
    <3>1. \A s \in Slots : Finished(s) => ~Pending(s)
      BY DEF Finished
    <3>2. TypeOK'
      BY <1>1, <2>2 DEF service
    <3>3. QED BY <1>1, <2>2, <3>1, <3>2 DEF service, Finished
  <2>3. QED BY <2>1, <2>2
<1>2. ASSUME NEW waits \in BOOLEAN, begin(waits) PROVE IInv'
  BY <1>2 DEF begin
<1>3. CASE destroy
  BY <1>3 DEF destroy
<1>4. CASE complete
  BY <1>4 DEF complete
<1>5. CASE remove
  BY <1>5 DEF remove
<1>6. ASSUME NEW s \in Slots, NEW closed \in BOOLEAN, record(s, closed) PROVE IInv'
  BY <1>6 DEF record
<1>7. ASSUME NEW accepted \in BOOLEAN, forward(accepted) PROVE IInv'
  BY <1>7 DEF forward
<1>8. ASSUME NEW signalled \in BOOLEAN, NEW refused \in BOOLEAN,
         NEW fatal \in BOOLEAN, finish(signalled, refused, fatal) PROVE IInv'
  BY <1>8 DEF finish, Ended, Submitted, Cancelled
<1>9. CASE UNCHANGED vars
  BY <1>9 DEF vars
<1> QED BY <1>1, <1>2, <1>3, <1>4, <1>5, <1>6, <1>7, <1>8, <1>9 DEF Next

(* The pool never gives up, resets or reuses what the GPU may still read   *)
(* or write.                                                               *)
THEOREM PoolKeepsLeases == Spec => []LeasesCoverTheGpu
<1>1. IInv => LeasesCoverTheGpu
  BY DEF IInv
<1> QED BY <1>1, InitIInv, NextIInv, PTL DEF Spec

(* A quarantined slot stays quarantined and keeps its references.          *)
THEOREM QuarantineStays == Spec => QuarantineIsForever
<1>1. IInv /\ [Next]_vars => [Kept]_vars
  <2> SUFFICES ASSUME IInv, Next PROVE Kept
    OBVIOUS
  <2> USE DEF IInv, TypeOK, PlannedIsRecorded, Kept, pool, gpu
  <2>1. ASSUME NEW bad \in SUBSET Slots, service(bad) PROVE Kept
    BY <2>1 DEF service, Finished
  <2>2. CASE complete \/ remove
    BY <2>2 DEF complete, remove
  <2>7. ASSUME NEW waits \in BOOLEAN, begin(waits) PROVE Kept
    BY <2>7 DEF begin
  <2>3. CASE destroy
    BY <2>3 DEF destroy
  <2>4. ASSUME NEW s \in Slots, NEW closed \in BOOLEAN, record(s, closed) PROVE Kept
    BY <2>4 DEF record
  <2>5. ASSUME NEW accepted \in BOOLEAN, forward(accepted) PROVE Kept
    BY <2>5 DEF forward
  <2>6. ASSUME NEW signalled \in BOOLEAN, NEW refused \in BOOLEAN,
         NEW fatal \in BOOLEAN, finish(signalled, refused, fatal) PROVE Kept
    BY <2>6 DEF finish
  <2> QED BY <2>1, <2>2, <2>3, <2>4, <2>5, <2>6, <2>7 DEF Next
<1> QED BY <1>1, InitIInv, NextIInv, PTL DEF Spec, QuarantineIsForever
=============================================================================
