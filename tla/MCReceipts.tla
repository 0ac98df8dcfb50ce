----------------------------- MODULE MCReceipts -----------------------------
(***************************************************************************)
(* For TLC: what must come to an end: the capture manager's receipts and   *)
(* frames and the submission pool's slots, with no fault that would excuse *)
(* them, one component at a time.                                          *)
(***************************************************************************)
EXTENDS SubmissionPool

CONSTANTS Threads, Service, Queues, PrivateQueue, Lists, Packets, Batches, NoOne,
          MaximumSignal, MaximumToken, MaximumSession, Faults, MaxQueued

VARIABLES
  component,      \* the component this behaviour is of
  device, lists, published, deferred, packets, next_token, transaction, thread,
  frames_gpu, frames_completed, native, content

(* The components. They share no state here: each stays as it starts while *)
(* the behaviour is of another.                                            *)
Frames == INSTANCE CaptureManager WITH
  gpu <- frames_gpu, completed <- frames_completed

(* Batches of one list, once or twice.                                     *)
Repeated == {<<l>> : l \in Lists} \cup {<<l, l>> : l \in Lists}

ASSUME PoolAssumption
-----------------------------------------------------------------------------
framesVars == <<device, lists, published, deferred, packets, next_token,
                transaction, thread, frames_gpu, frames_completed, native, content>>

Components == {"pool", "frames"}

InitOne ==
  /\ component \in Components
  /\ Init
  /\ Frames!Init

(* A step is one of the component the behaviour is of.                     *)
OfPool == component = "pool" /\ UNCHANGED <<component, framesVars>> /\ Next
OfFrames == component = "frames" /\ UNCHANGED <<component, vars>> /\ Frames!Next

(* Components whose runs end: every fence value of the model is used up.   *)
Rests == component \in {"pool", "frames"} /\ UNCHANGED <<component, vars, framesVars>>

NextOne == OfPool \/ OfFrames \/ Rests

(* The fairness of each component, for the behaviours that are its own.    *)
FairnessOne ==
  /\ WF_vars(component = "pool" /\ complete) /\ WF_vars(component = "pool" /\ forward(FALSE))
  /\ WF_vars(component = "pool" /\ \E bad \in SUBSET Slots : service(bad))
  /\ WF_vars(component = "pool" /\ \E refused, fatal \in BOOLEAN : finish(TRUE, refused, fatal))
  /\ \A q \in Frames!AllQueues : WF_framesVars(component = "frames" /\ Frames!execute(q))
  /\ \A t \in Threads : WF_framesVars(component = "frames" /\ Frames!forward(t, FALSE))
  /\ \A t \in Frames!AllThreads :
       /\ WF_framesVars(component = "frames" /\ \E p \in Packets : Frames!finish_tail(t, p, TRUE, {}))
       /\ WF_framesVars(component = "frames" /\ \E failing \in SUBSET Packets : Frames!finish_signal(t, TRUE, failing))
  /\ WF_framesVars(component = "frames" /\ Frames!forward_private) /\ WF_framesVars(component = "frames" /\ Frames!consume)
  /\ WF_framesVars(component = "frames" /\ \E current, failing \in SUBSET Packets : Frames!poll_completed_frames(current, failing))

SpecOne == InitOne /\ [][NextOne]_<<component, vars, framesVars>>
FairSpecOne == SpecOne /\ FairnessOne
-----------------------------------------------------------------------------
(* See CaptureManager: every receipt ends and releases the submission      *)
(* mutex, and a returned frame comes back to the pool.                     *)
FramesEnd == component = "frames" => Frames!ReceiptsEnd /\ Frames!ConsumedPacketsReturn

(* See CaptureManager: a frame the compositor holds shows what its         *)
(* recording captured last.                                                *)
LeasedFrameIsFinal == Frames!LeasedFrameIsFinal

(* See SubmissionPool: a copy that was cancelled or submitted gives its    *)
(* slot back.                                                              *)
PoolSlotsReturn == component = "pool" => SlotsReturn
=============================================================================
