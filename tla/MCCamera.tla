------------------------------ MODULE MCCamera ------------------------------
(***************************************************************************)
(* For TLC: the camera probe: one pass of the observer over an established *)
(* pair, and the mailbox between control thread and observer, one at a     *)
(* time.                                                                   *)
(***************************************************************************)
EXTENDS ScenePass

VARIABLES
  component,      \* the component this behaviour is of
  world, box, hooked, enabled, starting, mailbox_pair, gate, mailbox_closed_seen,
  native, ledger, pooled, pass, aircraft_profile, deferred_at, made_for, licensed,
  intent, asked_for, lost, made, calls

(* The components. They share no state here: each stays as it starts while *)
(* the behaviour is of another.                                            *)
Mailbox == INSTANCE SceneSession WITH
  Profiles <- {1, 2}, Default <- 1, MaxEpoch <- 1, MaxPairs <- 2, MaxCalls <- 2,
  MaxRetries <- 1, pair <- mailbox_pair, closed_seen <- mailbox_closed_seen

mailboxVars == <<world, box, hooked, enabled, starting, mailbox_pair, gate,
                 mailbox_closed_seen, native, ledger, pooled, pass,
                 aircraft_profile, deferred_at, made_for, licensed, intent,
                 asked_for, lost, made, calls>>

Components == {"pass", "mailbox"}

InitOne ==
  /\ component \in Components
  /\ Init
  /\ Mailbox!Init

(* A step is one of the component the behaviour is of.                     *)
OfPass == component = "pass" /\ UNCHANGED <<component, mailboxVars>> /\ Next
OfMailbox == component = "mailbox" /\ UNCHANGED <<component, vars>> /\ Mailbox!Next

(* Components whose runs end: the calls the model allows are used up.      *)
Rests == component \in {"mailbox"} /\ UNCHANGED <<component, vars, mailboxVars>>

NextOne == OfPass \/ OfMailbox \/ Rests

SpecOne == InitOne /\ [][NextOne]_<<component, vars, mailboxVars>>

(* A bound of the model: the engine has taken away or disturbed at most one*)
(* of the two views.                                                       *)
OneDisturbed ==
  component = "pass" =>
    Cardinality({c \in Cameras : c \in gone \/ view[c].output = "other" \/ (scheduled /\ view[c].output = "none")}) <= 1
-----------------------------------------------------------------------------
(* The invariants of the two: one pulse at a time, a start belongs to the  *)
(* flight it was authorised for, nobody waits for nobody.                  *)
CameraSafety == PassSafety /\ Mailbox!MailboxSafety
=============================================================================
