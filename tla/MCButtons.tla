----------------------------- MODULE MCButtons ------------------------------
(***************************************************************************)
(* For TLC: what becomes of one side's taxi button in the end: with other  *)
(* people at it and sessions reset, and with nobody else at it.            *)
(* MCTaxiReselect.cfg is for the first of the two alone.                   *)
(***************************************************************************)
EXTENDS TaxiButtons

VARIABLE alone   \* whether nobody else presses buttons or resets the session

OneSide == {0}

Alone == INSTANCE TaxiButtons WITH Presses <- {}, Resets <- {}

InitBoth == Init /\ alone \in BOOLEAN /\ (alone => control = "push_event")
NextBoth ==
  \/ ~alone /\ UNCHANGED alone /\ Next
  \/ alone /\ UNCHANGED alone /\ Alone!Next

SpecBoth == InitBoth /\ [][NextBoth]_<<alone, vars>>
LoopBoth == SpecBoth /\ WF_vars(Worker) /\ SF_vars(Tick)
Reselect == SpecBoth /\ ~alone

Live(sample) == IF sample.age > Fresh + Stall THEN NoSample ELSE sample

(* Samples too old to count, and the ages of what nobody waits for, make   *)
(* no difference to any later step.                                        *)
View ==
  <<alone, control, latch, pipe, inbox, identity, sends, Live(cache),
    [s \in Sides |-> IF \E q \in ToSet(pipe) \cup ToSet(inbox) : q.id = packets[s] THEN packets[s] ELSE 0],
    [cutoff EXCEPT !.sample = [s \in Sides |-> IF s \in cutoff.waiting THEN @[s] ELSE Never]],
    command,
    [worker EXCEPT !.seen = Live(@)]>>
-----------------------------------------------------------------------------
(* Where nobody else is at it, again and again: polls and samples fall     *)
(* due, a sample is read while it is fresh, the session is ready when      *)
(* there is something to send, and SimConnect takes and serves a call      *)
(* without refusing it.                                                    *)
Responsive ==
  /\ SF_vars(alone /\ \E sample \in BOOLEAN : wake(TRUE, sample))
  /\ SF_vars(alone /\ \E poll \in BOOLEAN : wake(poll, TRUE))
  /\ SF_vars(alone /\ cache.age <= Fresh /\ \E speed \in Speeds : read(speed))
  /\ SF_vars(alone /\ decide(TRUE) /\ worker'.at = "check")
  /\ SF_vars(alone /\ check(TRUE))
  /\ SF_vars(alone /\ transmit(TRUE, TRUE))
  /\ SF_vars(alone /\ Answer) /\ SF_vars(alone /\ Execute)

(* See TaxiButtons: every request comes to an end, whatever SimConnect,    *)
(* the pilots and the session do.                                          *)
RequestEnds == ~alone => RequestsEnd

(* See TaxiButtons: above the speed limit for good, the buttons end up off *)
(* and stay off.                                                           *)
CutoffDelivered == alone /\ Responsive => Alone!CutoffDelivers
=============================================================================
